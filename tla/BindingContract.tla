---------------------------- MODULE BindingContract ----------------------------
(***************************************************************************)
(* What an agent's runtime binding is to those who trust it: a buyer who   *)
(* reads the signed claim, a gateway, the directory.  At most one binding  *)
(* is active, it is the newest one ever issued, versions are issued one by *)
(* one, and a binding that stopped being active never comes back.          *)
(***************************************************************************)
EXTENDS Naturals

CONSTANT MaxVersion

VARIABLES
    head,     \* the newest version issued, 0 before the first
    active    \* the versions whose claims the catalog signs

Init == head = 0 /\ active = {}

\* First binding, rotation, confirmation or enrolment.
Supersede ==
    /\ head < MaxVersion
    /\ head' = head + 1
    /\ active' = {head + 1}

Disconnect ==
    /\ active # {}
    /\ active' = {}
    /\ UNCHANGED head

Next == Supersede \/ Disconnect

Spec == Init /\ [][Next]_<<head, active>>
=============================================================================

------------------------ MODULE VerificationContract ------------------------
(***************************************************************************)
(* What the verification queue promises to whoever reads its outcomes,     *)
(* whether from memory or from the ledger, and whatever crashes, hangs or  *)
(* fails in between.  A run of an agent begins only when every earlier run *)
(* of that agent is settled; a task runs at most once; an outcome other    *)
(* than "unknown" is the truth about the data and stays the truth.         *)
(***************************************************************************)
CONSTANTS Tasks, Agents, None

VARIABLES
    agent,      \* the agent each created task is about
    begun,      \* tasks whose run has started
    effect,     \* tasks whose run changed the data
    verdicts    \* per task, the outcomes anybody could have read

vars == <<agent, begun, effect, verdicts>>

Settled == {"completed", "failed", "timeout"}

Init ==
    /\ agent = [t \in Tasks |-> None]
    /\ begun = {} /\ effect = {}
    /\ verdicts = [t \in Tasks |-> {}]

Submit(t, a) ==
    /\ agent[t] = None
    /\ agent' = [agent EXCEPT ![t] = a]
    /\ UNCHANGED <<begun, effect, verdicts>>

IsSettled(t) == verdicts[t] \cap Settled # {}
InDoubt(t)   == "unknown" \in verdicts[t]

\* Nobody was told anything of t yet, and its agent is free of doubt.
Begin(t) ==
    /\ agent[t] # None /\ t \notin begun /\ verdicts[t] = {}
    /\ \A u \in Tasks : agent[u] = agent[t] =>
          ~InDoubt(u) /\ (u \in begun => IsSettled(u))
    /\ begun' = begun \cup {t}
    /\ UNCHANGED <<agent, effect, verdicts>>

\* Data changes only while the outcome is open.
TakeEffect(t) ==
    /\ t \in begun /\ ~IsSettled(t)
    /\ effect' = effect \cup {t}
    /\ UNCHANGED <<agent, begun, verdicts>>

Settle(t, verdict) ==
    /\ ~IsSettled(t)
    /\ verdict = "completed" <=> t \in effect
    /\ verdicts' = [verdicts EXCEPT ![t] = @ \cup {verdict}]
    /\ UNCHANGED <<agent, begun, effect>>

\* Doubt may be raised about several tasks at once (after a restart).
RaiseDoubt(S) ==
    /\ verdicts' = [t \in Tasks |-> IF t \in S THEN verdicts[t] \cup {"unknown"}
                                               ELSE verdicts[t]]
    /\ UNCHANGED <<agent, begun, effect>>

Next ==
    \/ \E t \in Tasks, a \in Agents : Submit(t, a)
    \/ \E t \in Tasks : Begin(t) \/ TakeEffect(t)
    \/ \E t \in Tasks, verdict \in Settled : Settle(t, verdict)
    \/ \E S \in SUBSET Tasks : RaiseDoubt(S)

Spec == Init /\ [][Next]_vars
=============================================================================

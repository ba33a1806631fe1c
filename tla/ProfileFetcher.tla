----------------------------- MODULE ProfileFetcher -----------------------------
(***************************************************************************)
(* Fetching a profile (discovery/fetcher.py, discovery/_bounded_dns.py).   *)
(* Every fetch runs in its caller's thread and has one absolute deadline,  *)
(* from the resolution of the first name to the last byte of the body.     *)
(* Names are resolved by a fixed pool of workers: getaddrinfo can not be   *)
(* interrupted, so its caller leaves it behind.  A peer that sends a byte  *)
(* now and then never lets a socket's own timeout expire: a timer thread   *)
(* shuts the fetch's socket down at the deadline, and what is read from a  *)
(* socket that was shut down looks like the end of the message.            *)
(*                                                                         *)
(* External, as the code uses them: urllib's opener and redirect handling, *)
(* http.client, threading.Timer.  A socket is its state, not its bytes.    *)
(***************************************************************************)
EXTENDS Integers, FiniteSets, Sequences

CONSTANTS
    Fetches,
    Workers,        \* threads of BoundedResolver
    Slots,          \* its admission semaphore, and the size of its queue
    RedirectLimit,
    Nobody

ASSUME SlotsAssumption == Slots \in Nat \ {0}
ASSUME LimitAssumption == RedirectLimit \in Nat
ASSUME NobodyAssumption == Nobody \notin Fetches
ASSUME WorkersAssumption == IsFiniteSet(Workers)

VARIABLES
    fetches,   \* every fetch: its control point, deadline, timer and socket
    free,      \* free slots of the semaphore
    queue,     \* work items, cancelled ones included
    future,    \* the future of the resolution a fetch waits for
    workers    \* every worker: its control point and its work item

fetchVars == <<fetches, free, queue, future, workers>>
dnsVars == <<free, queue, future, workers>>

Phases == {"idle", "admit", "answer", "enter", "connect", "register", "wrap",
           "reregister", "handshake", "head", "drain", "body", "check", "exit",
           "failed", "returned"}

Fetch == [at : Phases,
          hops  : 0 .. RedirectLimit,   \* redirects it may still follow
          late  : BOOLEAN,              \* the deadline has passed
          timer : {"none", "armed", "firing", "over"},
          conn  : {"none", "open", "cut"},
          held  : BOOLEAN,              \* the socket is in lifecycle._sockets
          taken : BOOLEAN,              \* ... or _expire has taken it from there
          torn  : BOOLEAN,              \* what was read ends at the deadline
          ok    : BOOLEAN]              \* there is a result

NoFetch == [at |-> "idle", hops |-> 0, late |-> FALSE, timer |-> "none",
            conn |-> "none", held |-> FALSE, taken |-> FALSE, torn |-> FALSE,
            ok |-> FALSE]

At(f, phase) == fetches[f].at = phase
Late(f)      == fetches[f].late
Over(f)      == fetches[f].at \in {"failed", "returned"}
Cut(f)       == fetches[f].conn = "cut"
Becomes(f, row) == fetches' = [fetches EXCEPT ![f] = row]
Continue(f, phase) == Becomes(f, [fetches[f] EXCEPT !.at = phase])

\* An exception: nothing is to be undone before the timer was started.
Raised(row) == [row EXCEPT !.at = IF row.timer = "none" THEN "failed" ELSE "exit"]

\* The same where the connection or the response closes its socket first.
Closed(row) == [row EXCEPT !.conn = "none", !.held = FALSE, !.taken = FALSE]

Fail(f)         == Becomes(f, Raised(fetches[f]))
CloseAndFail(f) == Becomes(f, Raised(Closed(fetches[f])))

FetchInit ==
    /\ fetches = [f \in Fetches |-> NoFetch]
    /\ free = Slots
    /\ queue = <<>>
    /\ future = [f \in Fetches |-> "none"]
    /\ workers = [w \in Workers |-> [at |-> "get", of |-> Nobody]]

\* The deadline of a fetch passes.
Pass(f) ==
    /\ ~At(f, "idle") /\ ~Over(f) /\ ~Late(f)
    /\ Becomes(f, [fetches[f] EXCEPT !.late = TRUE])
    /\ UNCHANGED dnsVars

\* A scheme, host or port the policy does not allow.
Refused(f) == Fail(f)

\* An address that is not public, or no address at all.
Blocked(f) == Fail(f)

\* A body that is too deep or has too many nodes.
Malformed(f) == CloseAndFail(f)

\* fetch follows redirects; fetch_no_redirect, post_json and post_signed_a2a
\* follow none.
StartFetch(f, hops) ==
    /\ At(f, "idle")
    /\ \/ Refused(f)
       \/ Becomes(f, [fetches[f] EXCEPT !.at = "admit", !.hops = hops])
    /\ UNCHANGED dnsVars

(***************************************************************************)
(* Resolution.  A work item keeps its slot until a worker has taken it out *)
(* of the queue and is done with it, or has seen that it was cancelled.    *)
(***************************************************************************)
Admit(f) ==
    /\ At(f, "admit") /\ free > 0
    /\ free' = free - 1
    /\ queue' = Append(queue, f)
    /\ future' = [future EXCEPT ![f] = "queued"]
    /\ Continue(f, "answer")
    /\ UNCHANGED workers

GiveUpAdmission(f) ==
    /\ At(f, "admit") /\ Late(f)
    /\ Fail(f)
    /\ UNCHANGED dnsVars

\* Variant with a plausible bug: a cancelled item gives its slot back at once.
BugCancel(f) ==
    /\ future' = [future EXCEPT ![f] = IF @ = "queued" THEN "cancelled"
                                       ELSE "abandoned"]
    /\ free' = IF future[f] = "queued" THEN free + 1 ELSE free

\* future.cancel() succeeds only before a worker runs it.
Cancel(f) ==
    /\ future' = [future EXCEPT ![f] = IF @ = "queued" THEN "cancelled"
                                       ELSE "abandoned"]
    /\ UNCHANGED free

GiveUpAnswer(f) ==
    /\ At(f, "answer") /\ Late(f)
    /\ Cancel(f)
    /\ Fail(f)
    /\ UNCHANGED <<queue, workers>>

\* Resolving the target of a redirect ends with a look at the deadline.
Answered(f) ==
    /\ At(f, "answer") /\ future[f] = "answered"
    /\ future' = [future EXCEPT ![f] = "none"]
    /\ \/ Blocked(f)
       \/ fetches[f].timer = "none" /\ Continue(f, "enter")
       \/ fetches[f].timer # "none" /\ ~Late(f) /\ Continue(f, "drain")
    /\ UNCHANGED <<free, queue, workers>>

Take(w) ==
    /\ workers[w].at = "get" /\ queue # <<>>
    /\ LET f == Head(queue) IN
       IF future[f] = "queued"
       THEN /\ workers' = [workers EXCEPT ![w] = [at |-> "resolve", of |-> f]]
            /\ future' = [future EXCEPT ![f] = "running"]
       ELSE /\ workers' = [workers EXCEPT ![w] = [at |-> "release", of |-> Nobody]]
            /\ UNCHANGED future
    /\ queue' = Tail(queue)
    /\ UNCHANGED <<fetches, free>>

Resolve(w) ==
    LET f == workers[w].of IN
    /\ workers[w].at = "resolve"
    /\ future' = [future EXCEPT ![f] = IF @ = "running" THEN "answered" ELSE @]
    /\ workers' = [workers EXCEPT ![w] = [at |-> "release", of |-> Nobody]]
    /\ UNCHANGED <<fetches, free, queue>>

Release(w) ==
    /\ workers[w].at = "release"
    /\ free' = free + 1
    /\ workers' = [workers EXCEPT ![w] = [at |-> "get", of |-> Nobody]]
    /\ UNCHANGED <<fetches, queue, future>>

(***************************************************************************)
(* _RequestLifecycle: one timer per fetch, and the sockets it may close.   *)
(***************************************************************************)
Enter(f) ==
    /\ At(f, "enter")
    /\ IF Late(f) THEN Fail(f)
       ELSE Becomes(f, [fetches[f] EXCEPT !.at = "connect", !.timer = "armed"])
    /\ UNCHANGED dnsVars

Expire(f) ==
    /\ fetches[f].timer = "armed" /\ Late(f)
    /\ Becomes(f, [fetches[f] EXCEPT !.timer = "firing", !.held = FALSE,
                                    !.taken = fetches[f].held])
    /\ UNCHANGED dnsVars

Abort(f) ==
    /\ fetches[f].timer = "firing"
    /\ Becomes(f, [fetches[f] EXCEPT
         !.timer = "over", !.taken = FALSE,
         !.conn = IF fetches[f].taken /\ @ = "open" THEN "cut" ELSE @])
    /\ UNCHANGED dnsVars

\* Variant with a plausible bug: nobody asks whether the timer has fired.
BugTooLate(f) == FALSE

\* self._closed, or the clock.
TooLate(f) == fetches[f].timer # "armed" \/ Late(f)

\* register: the timer can close the socket, or the fetch does so itself.
Register(f) ==
    /\ \/ At(f, "register")
       \/ At(f, "reregister")
    /\ IF TooLate(f) THEN CloseAndFail(f)
       ELSE \E phase \in IF At(f, "register") THEN {"head", "wrap"}
                         ELSE {"handshake"} :
              Becomes(f, [fetches[f] EXCEPT !.at = phase, !.held = TRUE])
    /\ UNCHANGED dnsVars

\* Variant with a plausible bug: the timer is cancelled and not waited for.
BugStopped(f) == TRUE

\* cancel and join: a timer that has fired is waited for.
Stopped(f) == fetches[f].timer # "firing"

\* __exit__: the sockets that are still held are closed.
Exit(f) ==
    LET row == fetches[f] IN
    /\ At(f, "exit") /\ Stopped(f)
    /\ Becomes(f, [row EXCEPT
         !.at = IF row.ok THEN "returned" ELSE "failed",
         !.timer = IF @ = "armed" THEN "over" ELSE @,
         !.held = FALSE,
         !.conn = IF row.held THEN "none" ELSE @])
    /\ UNCHANGED dnsVars

(***************************************************************************)
(* The request.  connect() is bounded by the socket's timeout; wrapping a  *)
(* socket for TLS detaches the one that was registered.                    *)
(***************************************************************************)
Connect(f) ==
    /\ At(f, "connect")
    /\ \/ Fail(f)
       \/ Becomes(f, [fetches[f] EXCEPT !.at = "register", !.conn = "open",
                                       !.held = FALSE, !.taken = FALSE])
    /\ UNCHANGED dnsVars

Wrap(f) ==
    /\ At(f, "wrap")
    /\ Becomes(f, [fetches[f] EXCEPT !.at = "reregister",
                                    !.held = FALSE, !.taken = FALSE])
    /\ UNCHANGED dnsVars

\* A redirect is looked at while its response is open; one too many, or one
\* after the deadline, ends the fetch as well.
Redirected(f) ==
    \/ Refused(f)
    \/ /\ fetches[f].hops > 0 /\ ~Late(f)
       /\ Becomes(f, [fetches[f] EXCEPT !.at = "admit", !.hops = @ - 1])

\* What the peer does: it may take any time.
PeerShakesHands(f) ==
    /\ At(f, "handshake") /\ ~Cut(f)
    /\ Continue(f, "head") \/ CloseAndFail(f)
    /\ UNCHANGED dnsVars

PeerResponds(f) ==
    /\ At(f, "head") /\ ~Cut(f)
    /\ \/ Continue(f, "body")
       \/ Redirected(f)
       \/ CloseAndFail(f)
    /\ UNCHANGED dnsVars

PeerEndsRedirect(f) ==
    /\ At(f, "drain") /\ ~Cut(f)
    /\ \/ Becomes(f, [Closed(fetches[f]) EXCEPT !.at = "connect"])
       \/ Fail(f)
    /\ UNCHANGED dnsVars

PeerEndsBody(f) ==
    /\ At(f, "body") /\ ~Cut(f)
    /\ Continue(f, "check") \/ Malformed(f)
    /\ UNCHANGED dnsVars

\* The same on a socket the timer has shut down: a head and a redirect's body
\* may seem to end here.
CutShort(f) ==
    /\ Cut(f)
    /\ \/ At(f, "handshake") /\ CloseAndFail(f)
       \/ /\ At(f, "head")
          /\ \/ Becomes(f, [fetches[f] EXCEPT !.at = "body", !.torn = TRUE])
             \/ Fail(f)
             \/ CloseAndFail(f)
       \/ /\ At(f, "drain")
          /\ \/ Becomes(f, [Closed(fetches[f]) EXCEPT !.at = "connect"])
             \/ Fail(f)
    /\ UNCHANGED dnsVars

\* _read_limited: it reads what is there, and looks at the deadline in
\* between; what it raises, the path of an HTTP error takes for a body.
BodyEnds(f) ==
    /\ At(f, "body") /\ (Cut(f) \/ Late(f))
    /\ \/ Becomes(f, [fetches[f] EXCEPT !.at = "check", !.torn = TRUE])
       \/ CloseAndFail(f)
    /\ UNCHANGED dnsVars

\* Variant with a plausible bug: a body that was read is a result.
BugInTime(f) == TRUE

\* lifecycle.check
InTime(f) == ~Late(f)

Check(f) ==
    /\ At(f, "check")
    /\ IF InTime(f) THEN Becomes(f, Raised([Closed(fetches[f]) EXCEPT !.ok = TRUE]))
       ELSE CloseAndFail(f)
    /\ UNCHANGED dnsVars

\* What the thread of a fetch does by itself ...
Own(f) ==
    \/ Admit(f) \/ GiveUpAdmission(f) \/ GiveUpAnswer(f) \/ Answered(f)
    \/ Enter(f) \/ Connect(f) \/ Register(f) \/ Wrap(f)
    \/ CutShort(f) \/ BodyEnds(f) \/ Check(f) \/ Exit(f)

\* ... what its timer thread does, and what it waits for.
Timer(f) == Expire(f) \/ Abort(f)

Peer(f) ==
    \/ PeerShakesHands(f) \/ PeerResponds(f) \/ PeerEndsRedirect(f)
    \/ PeerEndsBody(f)

Worker(w) == Take(w) \/ Resolve(w) \/ Release(w)

FetchNext ==
    \/ \E f \in Fetches :
         \/ \E hops \in {0, RedirectLimit} : StartFetch(f, hops)
         \/ Pass(f)
         \/ Own(f)
         \/ Timer(f)
         \/ Peer(f)
    \/ \E w \in Workers : Worker(w)

\* The clock and the process's threads go on.  Nothing is assumed of peers and
\* of getaddrinfo, and so nothing of the workers.
Fairness ==
    \A f \in Fetches :
        WF_fetchVars(Pass(f)) /\ WF_fetchVars(Own(f)) /\ WF_fetchVars(Timer(f))

FetchSpec == FetchInit /\ [][FetchNext]_fetchVars /\ Fairness
-----------------------------------------------------------------------------
\* Every variable has its type.
FetchTypeOK ==
    /\ fetches \in [Fetches -> Fetch]
    /\ free \in 0 .. Slots
    /\ queue \in Seq(Fetches) /\ Len(queue) <= Slots
    /\ future \in [Fetches -> {"none", "queued", "running", "answered",
                               "cancelled", "abandoned"}]
    /\ workers \in [Workers -> [at : {"get", "resolve", "release"},
                                of : Fetches \cup {Nobody}]]

\* What a fetch returns is what the peer sent: a head or a body that seems to
\* end because the deadline passed or the timer shut the socket down is never
\* taken for the response (the last lifecycle.check of _make_request).
NoTruncatedResult ==
    \A f \in Fetches : At(f, "returned") => ~fetches[f].torn

\* A fetch that is over has left no open socket, whatever it failed at (a
\* refused redirect leaves its response open for lifecycle.__exit__ to close),
\* and no timer that will still close one.
NothingLeft ==
    \A f \in Fetches : Over(f) =>
        /\ fetches[f].conn # "open"
        /\ fetches[f].timer \in {"none", "over"}

\* "At most six admitted work items, including cancelled queued items": every
\* slot is free, in the queue or with a worker, so that callers who give up
\* never let more names be resolved at once.
SlotsAreConserved ==
    free + Len(queue) + Cardinality({w \in Workers : workers[w].at # "get"})
        = Slots

\* Every fetch ends, also when getaddrinfo never returns, no slot gets free
\* and peers send a byte now and then for ever.
FetchEnds ==
    \A f \in Fetches : ~At(f, "idle") ~> Over(f)
===============================================================================

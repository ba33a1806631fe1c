------------------------------ MODULE PublicFeed ------------------------------
(***************************************************************************)
(* Merchant publications, the public event stream they feed, and buyers    *)
(* that follow merchants and pull what is new since their watermark        *)
(* (services/merchant_publications.py, services/merchant_public_events.py, *)
(* services/buyer_follows.py and their handlers).                          *)
(*                                                                         *)
(* One action is one request: its session or connector check writes first  *)
(* (ensure_merchant_id, verify_merchant_token), so that each of these      *)
(* requests holds SQLite's write lock from before its first read of this   *)
(* state to its commit.  A request that raises changes nothing.            *)
(*                                                                         *)
(* The clock is the wall clock datetime.now() reads, in ticks of its       *)
(* resolution: it stands still between quick requests and may be stepped   *)
(* back.  SteadyClock: a follow starts at a reading above every stamp of   *)
(* the merchant, and no later reading is at or below that watermark until  *)
(* an event above it was emitted.                                          *)
(*                                                                         *)
(* Published content is one value; the category filter of a follow narrows *)
(* the answer only, never the watermark, and is left out.                  *)
(***************************************************************************)
EXTENDS Integers, Sequences, FiniteSets

CONSTANTS
    Merchants, Buyers,
    Titles,        \* product names, compared without case
    Contents,      \* the rest of a publication's public fields
    PageCap,       \* UPDATES_PER_FOLLOW_CAP
    SteadyClock,   \* what the watermarks need of the wall clock, see below
    MaxRows,       \* bound: publication rows ever created
    MaxEvents,     \* bound: events per merchant
    MaxClock       \* bound: readings of the clock

ASSUME FeedBoundsAssumption ==
    MaxRows \in Nat /\ MaxEvents \in Nat /\ MaxClock \in Nat \ {0}
ASSUME PageCapAssumption == PageCap \in Nat \ {0}
ASSUME SteadyAssumption == SteadyClock \in BOOLEAN

Ids == 1 .. MaxRows

VARIABLES
    clock,    \* the wall clock
    pubs,     \* merchant_publications: row of every identifier
    events,   \* merchant_public_events of every merchant, by version
    follows,  \* buyer_follows: row of every buyer and merchant
    due       \* history: events emitted since the buyer's follow began that
              \* no pull has read yet, by version

vars == <<clock, pubs, events, follows, due>>

NoRow == [status |-> "absent"]
Rows  == [status : {"draft", "published", "withdrawn"}, merchant : Merchants,
          title : Titles, content : Contents, version : Nat,
          published : BOOLEAN]   \* published_at is set
Events == [at : Nat, type : {"product_added", "product_updated",
                             "publication_withdrawn"},
           pub : Ids, row : Rows]
Follows == [status : {"none", "active", "cancelled"}, seen : Nat]

Init ==
    /\ clock = 1
    /\ pubs = [p \in Ids |-> NoRow]
    /\ events = [m \in Merchants |-> <<>>]
    /\ follows = [b \in Buyers |-> [m \in Merchants |->
                    [status |-> "none", seen |-> 0]]]
    /\ due = [b \in Buyers |-> [m \in Merchants |-> {}]]

Active(b, m) == follows[b][m].status = "active"

(***************************************************************************)
(* emit_public_event: a version above the last one and a stamp strictly    *)
(* above the last one, whatever the clock says.                            *)
(***************************************************************************)
Last(m)      == events[m][Len(events[m])]
LastStamp(m) == IF events[m] = <<>> THEN 0 ELSE Last(m).at

NextStamp(m) == IF clock > LastStamp(m) THEN clock ELSE LastStamp(m) + 1

Emit(m, p, row, type) ==
    /\ Len(events[m]) < MaxEvents
    /\ events' = [events EXCEPT ![m] =
            Append(@, [at |-> NextStamp(m), type |-> type, pub |-> p, row |-> row])]
    /\ due' = [b \in Buyers |-> [n \in Merchants |->
            IF n = m /\ Active(b, m) THEN due[b][m] \cup {Len(events[m]) + 1}
                                     ELSE due[b][n]]]

(***************************************************************************)
(* POST /v1/merchant-publications: upsert_publication                      *)
(***************************************************************************)
\* Variant with a plausible bug: only drafts are ever looked up.
BugFind(m, title, status) ==
    {p \in Ids : pubs[p].status = "draft" /\ pubs[p].merchant = m
                                         /\ pubs[p].title = title}

\* _find_by_merchant_title: drafts and published rows are looked up apart.
Find(m, title, status) ==
    {p \in Ids : pubs[p].status = status /\ pubs[p].merchant = m
                                         /\ pubs[p].title = title}

FreshId(p) == pubs[p] = NoRow /\ \A q \in Ids : q < p => pubs[q] # NoRow

SaveDraft(m, title, content) ==
    /\ \/ /\ Find(m, title, "draft") = {}
          /\ \E p \in Ids :
               /\ FreshId(p)
               /\ pubs' = [pubs EXCEPT ![p] =
                    [status |-> "draft", merchant |-> m, title |-> title,
                     content |-> content, version |-> 1, published |-> FALSE]]
       \/ \E p \in Find(m, title, "draft") :
               pubs' = [pubs EXCEPT ![p].content = content]
    /\ UNCHANGED <<clock, events, follows, due>>

PublishNew(m, title, content) ==
    /\ Find(m, title, "published") = {}
    /\ \E p \in Ids :
         LET row == [status |-> "published", merchant |-> m, title |-> title,
                     content |-> content, version |-> 1, published |-> TRUE]
         IN /\ FreshId(p)
            /\ pubs' = [pubs EXCEPT ![p] = row]
            /\ Emit(m, p, row, "product_added")
    /\ UNCHANGED <<clock, follows>>

\* Variant with a plausible bug: the event carries the row read before.
BugPublishAgain(m, title, content) ==
    /\ \E p \in Find(m, title, "published") :
         LET row == [pubs[p] EXCEPT !.content = content, !.version = @ + 1]
         IN /\ pubs' = [pubs EXCEPT ![p] = row]
            /\ Emit(m, p, pubs[p], "product_updated")
    /\ UNCHANGED <<clock, follows>>

\* The published row is updated in place; the event carries it as re-read.
PublishAgain(m, title, content) ==
    /\ \E p \in Find(m, title, "published") :
         LET row == [pubs[p] EXCEPT !.content = content, !.version = @ + 1]
         IN /\ pubs' = [pubs EXCEPT ![p] = row]
            /\ Emit(m, p, row, "product_updated")
    /\ UNCHANGED <<clock, follows>>

\* POST /v1/merchant-publications, whose validation and content checks refuse
\* without leaving a row: the payload's action says draft or publish.
CreatePublication(m, title, content) ==
    \/ SaveDraft(m, title, content)
    \/ PublishNew(m, title, content)
    \/ PublishAgain(m, title, content)

\* POST /v1/merchant-publications/{id}/withdraw: an own row of any status.
Withdraw(m, p) ==
    /\ pubs[p] # NoRow /\ pubs[p].merchant = m
    /\ LET row == [pubs[p] EXCEPT !.status = "withdrawn"]
       IN /\ pubs' = [pubs EXCEPT ![p] = row]
          /\ Emit(m, p, row, "publication_withdrawn")
    /\ UNCHANGED <<clock, follows>>

(***************************************************************************)
(* PUT, DELETE /v1/me/follows/{merchant_id} and GET /v1/me/follows/updates *)
(***************************************************************************)
\* A first follow, and one after a cancellation, starts at the clock.  The next
\* request reads a later tick.
FollowStarts(b, m) ==
    /\ ~Active(b, m)
    /\ clock < MaxClock
    /\ SteadyClock => clock > LastStamp(m)
    /\ clock' = clock + 1
    /\ follows' = [follows EXCEPT ![b][m] = [status |-> "active", seen |-> clock]]
    /\ due' = [due EXCEPT ![b][m] = {}]
    /\ UNCHANGED <<pubs, events>>

\* A repeated follow keeps the watermark of the active row.
FollowKeeps(b, m) ==
    /\ Active(b, m)
    /\ UNCHANGED vars

FollowMerchant(b, m) == FollowStarts(b, m) \/ FollowKeeps(b, m)

Unfollow(b, m) ==
    /\ Active(b, m)
    /\ follows' = [follows EXCEPT ![b][m].status = "cancelled"]
    /\ due' = [due EXCEPT ![b][m] = {}]
    /\ UNCHANGED <<clock, pubs, events>>

\* list_events_after: at most PageCap events above the watermark, oldest first.
Unseen(b, m) == {v \in DOMAIN events[m] : events[m][v].at > follows[b][m].seen}
Before(m, v, w) == \/ events[m][v].at < events[m][w].at
                   \/ events[m][v].at = events[m][w].at /\ v < w
Page(b, m) == {v \in Unseen(b, m) :
                 Cardinality({w \in Unseen(b, m) : Before(m, w, v)}) < PageCap}

\* Variant with a plausible bug: the watermark moves to the newest event.
BugSeenAfter(b, m) == IF Page(b, m) = {} THEN follows[b][m].seen ELSE LastStamp(m)

\* The watermark after a pull: the stamp of the last event it read.
SeenAfter(b, m) ==
    IF Page(b, m) = {} THEN follows[b][m].seen
    ELSE CHOOSE s \in {events[m][v].at : v \in Page(b, m)} :
            \A v \in Page(b, m) : events[m][v].at <= s

\* fetch_updates, for all active follows of the buyer
Pull(b) ==
    /\ follows' = [follows EXCEPT ![b] = [m \in Merchants |->
            IF Active(b, m) THEN [@[m] EXCEPT !.seen = SeenAfter(b, m)] ELSE @[m]]]
    /\ due' = [due EXCEPT ![b] = [m \in Merchants |->
            IF Active(b, m) THEN @[m] \ Page(b, m) ELSE @[m]]]
    /\ UNCHANGED <<clock, pubs, events>>

(***************************************************************************)
(* The wall clock                                                          *)
(***************************************************************************)
Tick ==
    /\ clock < MaxClock /\ clock' = clock + 1
    /\ UNCHANGED <<pubs, events, follows, due>>

StepBack ==
    /\ clock > 1 /\ clock' = clock - 1
    /\ SteadyClock => \A b \in Buyers, m \in Merchants : Active(b, m) =>
          \/ follows[b][m].seen < clock'
          \/ follows[b][m].seen <= LastStamp(m)
    /\ UNCHANGED <<pubs, events, follows, due>>

Next ==
    \/ \E m \in Merchants, title \in Titles, content \in Contents :
         CreatePublication(m, title, content)
    \/ \E m \in Merchants, p \in Ids : Withdraw(m, p)
    \/ \E b \in Buyers, m \in Merchants :
         FollowMerchant(b, m) \/ Unfollow(b, m)
    \/ \E b \in Buyers : Pull(b)
    \/ Tick \/ StepBack

Spec == Init /\ [][Next]_vars

(***************************************************************************)
(* Properties                                                              *)
(***************************************************************************)
\* The types of all tables.
TypeOK ==
    /\ clock \in Nat
    /\ pubs \in [Ids -> Rows \cup {NoRow}]
    /\ events \in [Merchants -> Seq(Events)]
    /\ follows \in [Buyers -> [Merchants -> Follows]]
    /\ due \in [Buyers -> [Merchants -> SUBSET Nat]]

\* Pulls lose nothing and repeat nothing: what lies above an active follow's
\* watermark is exactly what was emitted since the follow began and no pull has
\* read yet (created_at "is the premise of the watermark").
NothingLostNothingTwice ==
    \A b \in Buyers, m \in Merchants :
        Active(b, m) => Unseen(b, m) = due[b][m]

\* One published row per merchant and title, by the look-up alone: publishing
\* never runs into the unique index behind it.
OnePublishedPerTitle ==
    \A p, q \in Ids :
        /\ pubs[p].status = "published" /\ pubs[q].status = "published"
        /\ pubs[p].merchant = pubs[q].merchant /\ pubs[p].title = pubs[q].title
        => p = q

\* A buyer that applies the events in order knows every row that was ever
\* published: the last event about it carries it as it is.
LastEventAbout(p) ==
    LET m == pubs[p].merchant
        about == {v \in DOMAIN events[m] : events[m][v].pub = p}
    IN  events[m][CHOOSE v \in about : \A w \in about : w <= v]

FeedMirrorsDirectory ==
    \A p \in Ids : pubs[p] # NoRow /\ pubs[p].published =>
        /\ \E v \in DOMAIN events[pubs[p].merchant] :
              events[pubs[p].merchant][v].pub = p
        /\ LastEventAbout(p).row = pubs[p]

\* Unpublished drafts stay out of the event stream.  It fails: withdrawing a
\* draft emits it.
DraftsStayPrivate ==
    \A m \in Merchants : \A v \in DOMAIN events[m] : events[m][v].row.published
===============================================================================

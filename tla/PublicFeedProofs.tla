--------------------------- MODULE PublicFeedProofs ---------------------------
(***************************************************************************)
(* Proofs about PublicFeed for any number of merchants, buyers, titles,    *)
(* rows and events, and any page size.                                     *)
(*                                                                         *)
(* Pulls lose and repeat nothing if the clock is steady: stamps increase   *)
(* with the versions (Stamps), and an active follow's watermark is below   *)
(* the clock or at an event (Ahead), so that the next event lies above it. *)
(* One page of a pull is an initial segment of what is unseen, which is    *)
(* the one place where the order of the query matters.                     *)
(* The stream mirrors the directory because each request that changes a    *)
(* published row emits that row, as the last event about it (MirrorInv).   *)
(***************************************************************************)
EXTENDS PublicFeed, TLAPS, FiniteSetTheorems, WellFoundedInduction

\* created_at increases strictly with the version.
Stamps ==
    \A m \in Merchants : \A v, w \in DOMAIN events[m] :
        v < w => events[m][v].at < events[m][w].at

\* The watermark of an active follow is below the clock, or not above the
\* last event.
Ahead ==
    \A b \in Buyers, m \in Merchants : Active(b, m) =>
        follows[b][m].seen < clock \/ follows[b][m].seen <= LastStamp(m)

FeedInv == TypeOK /\ Stamps /\ Ahead /\ NothingLostNothingTwice

\* What the types say of one event list.
LEMMA EventFacts ==
  ASSUME TypeOK, NEW m \in Merchants
  PROVE  /\ Len(events[m]) \in Nat
         /\ DOMAIN events[m] = 1 .. Len(events[m])
         /\ \A v \in DOMAIN events[m] :
               events[m][v] \in Events /\ events[m][v].at \in Nat
<1>1. events[m] \in Seq(Events)
  BY DEF TypeOK
<1>2. \A e \in Events : e.at \in Nat
  BY DEF Events
<1> QED
  BY <1>1, <1>2

\* The last stamp bounds them all.
LEMMA LastIsMax ==
  ASSUME TypeOK, Stamps, NEW m \in Merchants
  PROVE  /\ LastStamp(m) \in Nat
         /\ \A v \in DOMAIN events[m] : events[m][v].at <= LastStamp(m)
<1> DEFINE n == Len(events[m])
<1>1. n \in Nat /\ DOMAIN events[m] = 1 .. n
      /\ \A v \in DOMAIN events[m] : events[m][v].at \in Nat
  BY EventFacts
<1>2. CASE n = 0
  <2>1. events[m] = <<>>
    BY <1>2 DEF TypeOK
  <2> QED
    BY <1>1, <1>2, <2>1 DEF LastStamp
<1>3. CASE n # 0
  <2>1. n \in DOMAIN events[m] /\ events[m] # <<>>
    BY <1>1, <1>3
  <2>2. LastStamp(m) = events[m][n].at
    BY <2>1 DEF LastStamp, Last
  <2>3. \A v \in DOMAIN events[m] : v < n => events[m][v].at < events[m][n].at
    BY <2>1 DEF Stamps
  <2> QED
    <3>1. n \in Nat /\ LastStamp(m) \in Nat
      BY <1>1, <2>1, <2>2
    <3>2. ASSUME NEW v \in DOMAIN events[m] PROVE events[m][v].at <= LastStamp(m)
      <4>1. v \in 1 .. n /\ events[m][v].at \in Nat
        BY <1>1
      <4>2. CASE v = n
        BY <2>2, <3>1, <4>2
      <4>3. CASE v < n
        BY <2>2, <2>3, <3>1, <4>1, <4>3
      <4> QED
        BY <3>1, <4>1, <4>2, <4>3
    <3> QED
      BY <3>1, <3>2
<1> QED
  BY <1>2, <1>3

\* A nonempty set of versions has a greatest element.
LEMMA GreatestVersion ==
  ASSUME NEW n \in Nat, NEW S \in SUBSET (1 .. n), S # {}
  PROVE  \E v \in S : \A w \in S : w <= v
<1> DEFINE T == {n - v : v \in S}
           Less == OpToRel(<, Nat)
<1>1. T \subseteq Nat /\ T # {}
  <2>1. \A v \in S : n - v \in Nat
    <3> SUFFICES ASSUME NEW v \in S PROVE n - v \in Nat
      OBVIOUS
    <3>1. v \in 1 .. n
      OBVIOUS
    <3> QED
      BY <3>1
  <2>2. T \subseteq Nat
    BY <2>1
  <2>3. PICK s \in S : TRUE
    OBVIOUS
  <2>4. n - s \in T
    BY <2>3
  <2> QED
    BY <2>2, <2>4
<1>2. PICK x \in T : \A y \in T : ~ (<<y, x>> \in Less)
  <2> HIDE DEF T
  <2> QED
    BY <1>1, NatLessThanWellFounded, WFMin
<1>3. \A y \in T : ~(y < x)
  <2> SUFFICES ASSUME NEW y \in T, y < x PROVE FALSE
    OBVIOUS
  <2>1. x \in Nat /\ y \in Nat
    BY <1>1, <1>2
  <2> HIDE DEF T
  <2>2. <<y, x>> \in Less
    BY <2>1 DEF OpToRel
  <2> QED
    BY <1>2, <2>2
<1>4. PICK v \in S : x = n - v
  BY <1>2
<1>5. \A w \in S : ~(n - w < n - v)
  BY <1>3, <1>4
<1> QED
  BY <1>4, <1>5

\* What one pull does to one active follow: it reads the page, and what stays
\* above the new watermark is the unseen rest.
LEMMA PullStep ==
  ASSUME TypeOK, Stamps, NEW b \in Buyers, NEW m \in Merchants
  PROVE  /\ SeenAfter(b, m) \in Nat
         /\ \/ SeenAfter(b, m) = follows[b][m].seen
            \/ SeenAfter(b, m) <= LastStamp(m)
         /\ {v \in DOMAIN events[m] : events[m][v].at > SeenAfter(b, m)}
              = Unseen(b, m) \ Page(b, m)
<1> DEFINE n == Len(events[m])
           U == Unseen(b, m)
           P == Page(b, m)
           at(v) == events[m][v].at
           Lower(v) == {w \in U : Before(m, w, v)}
<1>1. n \in Nat /\ DOMAIN events[m] = 1 .. n
      /\ \A v \in DOMAIN events[m] : at(v) \in Nat
  BY EventFacts
<1>2. U \in SUBSET (1 .. n) /\ P \subseteq U /\ follows[b][m].seen \in Nat
  BY <1>1 DEF Unseen, Page, TypeOK, Follows
<1>3. CASE P = {}
  \* nothing was unseen: the first unseen event is always on the page
  <2>1. U = {}
    <3> SUFFICES ASSUME U # {} PROVE FALSE
      OBVIOUS
    <3> DEFINE S == {n + 1 - v : v \in U}
    <3>1. S \in SUBSET (1 .. n) /\ S # {}
      BY <1>1, <1>2
    <3>2. PICK x \in S : \A y \in S : y <= x
      <4> HIDE DEF S
      <4> QED
        BY <1>1, <3>1, GreatestVersion
    <3>3. PICK v \in U : x = n + 1 - v
      BY <3>2
    <3>4. \A w \in U : v <= w
      <4> SUFFICES ASSUME NEW w \in U PROVE v <= w
        OBVIOUS
      <4>1. n + 1 - w <= n + 1 - v
        BY <3>2, <3>3
      <4> QED
        BY <1>1, <1>2, <4>1
    <3>5. Lower(v) = {}
      <4> SUFFICES ASSUME NEW w \in U, Before(m, w, v) PROVE FALSE
        OBVIOUS
      <4>1. v \in DOMAIN events[m] /\ w \in DOMAIN events[m] /\ v <= w
        BY <1>1, <1>2, <3>4
      <4>2. v < w => at(v) < at(w)
        BY <4>1 DEF Stamps
      <4> QED
        BY <1>1, <4>1, <4>2 DEF Before
    <3>6. Cardinality(Lower(v)) < PageCap
      <4>1. Cardinality(Lower(v)) = 0
        BY <3>5, FS_EmptySet
      <4> HIDE DEF Lower
      <4> QED
        BY <4>1, PageCapAssumption
    <3>7. v \in P
      BY <3>3, <3>6 DEF Page
    <3> QED
      BY <1>3, <3>7
  <2> QED
    BY <1>1, <1>2, <1>3, <2>1 DEF SeenAfter, Unseen
<1>4. CASE P # {}
  <2>1. PICK top \in P : \A w \in P : w <= top
    <3>1. P \in SUBSET (1 .. n)
      BY <1>2
    <3> HIDE DEF P, n
    <3> QED
      BY <1>1, <1>4, <3>1, GreatestVersion
  <2>2. top \in DOMAIN events[m] /\ top \in U
    BY <1>1, <1>2, <2>1
  <2>3. \A v \in P : at(v) <= at(top)
    <3> SUFFICES ASSUME NEW v \in P PROVE at(v) <= at(top)
      OBVIOUS
    <3>1. v \in DOMAIN events[m] /\ v <= top
      BY <1>1, <1>2, <2>1
    <3>2. v < top => at(v) < at(top)
      BY <2>2, <3>1 DEF Stamps
    <3> QED
      BY <1>1, <2>2, <3>1, <3>2
  <2>4. SeenAfter(b, m) = at(top)
    <3> DEFINE Stamp == {events[m][v].at : v \in P}
               s == CHOOSE s \in Stamp : \A v \in P : at(v) <= s
    <3>1. at(top) \in Stamp /\ \A v \in P : at(v) <= at(top)
      BY <2>1, <2>3
    <3>2. s \in Stamp /\ \A v \in P : at(v) <= s
      BY <3>1
    <3>3. SeenAfter(b, m) = s
      BY <1>4 DEF SeenAfter
    <3>4. s \in Nat /\ at(top) \in Nat /\ at(top) <= s /\ s <= at(top)
      BY <1>1, <1>2, <2>1, <2>2, <3>1, <3>2
    <3> HIDE DEF s
    <3> QED
      BY <3>3, <3>4
  \* an unseen event before the top one is on the page, too
  <2>5. \A v \in U : v <= top => v \in P
    <3> SUFFICES ASSUME NEW v \in U, v < top PROVE v \in P
      BY <1>1, <1>2, <2>1, <2>2
    <3>1. v \in DOMAIN events[m] /\ at(v) < at(top)
      BY <1>1, <1>2, <2>2 DEF Stamps
    <3>2. Lower(v) \subseteq Lower(top)
      <4> SUFFICES ASSUME NEW w \in U, Before(m, w, v) PROVE Before(m, w, top)
        OBVIOUS
      <4>1. w \in DOMAIN events[m]
        BY <1>1, <1>2
      <4> QED
        BY <1>1, <2>2, <3>1, <4>1 DEF Before
    <3>3. IsFiniteSet(Lower(top)) /\ Lower(top) \in SUBSET (1 .. n)
      <4>1. Lower(top) \in SUBSET (1 .. n)
        BY <1>2
      <4>2. IsFiniteSet(1 .. n)
        <5> HIDE DEF n
        <5> QED
          BY <1>1, FS_Interval
      <4> HIDE DEF Lower
      <4> QED
        BY <4>1, <4>2, FS_Subset
    <3>4. /\ IsFiniteSet(Lower(v))
          /\ Cardinality(Lower(v)) <= Cardinality(Lower(top))
      <4> HIDE DEF Lower
      <4> QED
        BY <3>2, <3>3, FS_Subset
    <3>5. Cardinality(Lower(top)) < PageCap
      BY <2>1 DEF Page
    <3>6. Cardinality(Lower(v)) \in Nat /\ Cardinality(Lower(top)) \in Nat
      <4> HIDE DEF Lower
      <4> QED
        BY <3>3, <3>4, FS_CardinalityType
    <3>7. Cardinality(Lower(v)) < PageCap
      <4> HIDE DEF Lower
      <4> QED
        BY <3>4, <3>5, <3>6, PageCapAssumption
    <3> QED
      BY <3>7 DEF Page
  <2>6. \A v \in U : v \in P <=> v <= top
    BY <2>1, <2>5
  <2>7. \A v \in DOMAIN events[m] : at(v) > at(top) <=> v > top
    <3> SUFFICES ASSUME NEW v \in DOMAIN events[m] PROVE at(v) > at(top) <=> v > top
      OBVIOUS
    <3>1. (v < top => at(v) < at(top)) /\ (top < v => at(top) < at(v))
      BY <2>2 DEF Stamps
    <3> QED
      BY <1>1, <2>2, <3>1
  <2>8. \A v \in DOMAIN events[m] : v > top => v \in U
    <3> SUFFICES ASSUME NEW v \in DOMAIN events[m], v > top PROVE v \in U
      OBVIOUS
    <3>1. at(v) > at(top) /\ at(top) > follows[b][m].seen
      BY <2>2, <2>7 DEF Unseen
    <3> QED
      BY <1>1, <1>2, <2>2, <3>1 DEF Unseen
  <2>9. {v \in DOMAIN events[m] : at(v) > at(top)} = U \ P
    BY <1>1, <1>2, <2>2, <2>6, <2>7, <2>8
  <2>10. at(top) <= LastStamp(m)
    BY <2>2, LastIsMax
  <2> QED
    BY <1>1, <2>2, <2>4, <2>9, <2>10
<1> QED
  BY <1>3, <1>4

\* emit_public_event keeps the types.
LEMMA EmitType ==
  ASSUME TypeOK, NEW m \in Merchants, NEW p \in Ids, NEW row \in Rows,
         NEW type \in {"product_added", "product_updated", "publication_withdrawn"},
         Emit(m, p, row, type)
  PROVE  /\ events' \in [Merchants -> Seq(Events)]
         /\ due' \in [Buyers -> [Merchants -> SUBSET Nat]]
<1>1. LastStamp(m) \in Nat
  <2>1. events[m] # <<>> => Len(events[m]) \in DOMAIN events[m]
    BY EventFacts DEF TypeOK
  <2> QED
    BY <2>1, EventFacts DEF LastStamp, Last
<1>2. NextStamp(m) \in Nat
  BY <1>1 DEF NextStamp, TypeOK
<1> DEFINE e == [at |-> NextStamp(m), type |-> type, pub |-> p, row |-> row]
<1>3. e \in Events
  BY <1>2 DEF Events
<1>4. Append(events[m], e) \in Seq(Events)
  <2>1. events[m] \in Seq(Events)
    BY DEF TypeOK
  <2> HIDE DEF e
  <2> QED
    BY <1>3, <2>1
<1>5. events' \in [Merchants -> Seq(Events)]
  <2>1. events' = [events EXCEPT ![m] = Append(@, e)]
    BY DEF Emit
  <2>2. events \in [Merchants -> Seq(Events)]
    BY DEF TypeOK
  <2> HIDE DEF e
  <2> QED
    BY <1>4, <2>1, <2>2
<1>6. Len(events[m]) + 1 \in Nat
  BY EventFacts
<1>7. due' \in [Buyers -> [Merchants -> SUBSET Nat]]
  BY <1>6 DEF Emit, TypeOK
<1> QED
  BY <1>5, <1>7

\* Updating a row keeps its type.
LEMMA RowTypes ==
  ASSUME NEW r \in Rows, NEW content \in Contents
  PROVE  /\ [r EXCEPT !.content = content] \in Rows
         /\ [r EXCEPT !.content = content, !.version = @ + 1] \in Rows
         /\ [r EXCEPT !.status = "withdrawn"] \in Rows
<1>1. r.version + 1 \in Nat
  BY DEF Rows
<1> QED
  BY <1>1 DEF Rows

\* Updating a follow keeps its type.
LEMMA FollowTypes ==
  ASSUME NEW f \in Follows, NEW s \in Nat
  PROVE  /\ [f EXCEPT !.status = "cancelled"] \in Follows
         /\ [f EXCEPT !.seen = s] \in Follows
  BY DEF Follows

\* Every request keeps the types.
LEMMA TypeStep == TypeOK /\ Stamps /\ [Next]_vars => TypeOK'
<1> SUFFICES ASSUME TypeOK, Stamps, [Next]_vars PROVE TypeOK'
  OBVIOUS
<1>1. ASSUME NEW m \in Merchants, NEW title \in Titles, NEW content \in Contents,
             SaveDraft(m, title, content)
      PROVE  TypeOK'
  <2>1. ASSUME NEW p \in Find(m, title, "draft"),
               pubs' = [pubs EXCEPT ![p].content = content]
        PROVE  pubs' \in [Ids -> Rows \cup {NoRow}]
    <3>1. p \in Ids /\ pubs[p] \in Rows
      BY DEF Find, TypeOK, NoRow
    <3>2. [pubs[p] EXCEPT !.content = content] \in Rows
      BY <3>1, RowTypes
    <3>3. pubs' = [pubs EXCEPT ![p] = [pubs[p] EXCEPT !.content = content]]
      BY <2>1
    <3> QED
      BY <3>1, <3>2, <3>3 DEF TypeOK
  <2> DEFINE row == [status |-> "draft", merchant |-> m, title |-> title,
                     content |-> content, version |-> 1, published |-> FALSE]
  <2>2. row \in Rows
    BY DEF Rows
  <2>3. ASSUME NEW p \in Ids, pubs' = [pubs EXCEPT ![p] = row]
        PROVE  pubs' \in [Ids -> Rows \cup {NoRow}]
    <3> HIDE DEF row
    <3> QED
      BY <2>2, <2>3 DEF TypeOK
  <2>4. \/ \E p \in Ids : pubs' = [pubs EXCEPT ![p] = row]
        \/ \E p \in Find(m, title, "draft") :
              pubs' = [pubs EXCEPT ![p].content = content]
    BY <1>1 DEF SaveDraft
  <2>5. pubs' \in [Ids -> Rows \cup {NoRow}]
    <3> HIDE DEF row
    <3> QED
      BY <2>1, <2>3, <2>4
  <2> QED
    BY <1>1, <2>5 DEF TypeOK, SaveDraft
<1>2. ASSUME NEW m \in Merchants, NEW title \in Titles, NEW content \in Contents,
             PublishNew(m, title, content)
      PROVE  TypeOK'
  <2> DEFINE row == [status |-> "published", merchant |-> m, title |-> title,
                     content |-> content, version |-> 1, published |-> TRUE]
  <2>1. row \in Rows
    BY DEF Rows
  <2>2. PICK p \in Ids : pubs' = [pubs EXCEPT ![p] = row]
                         /\ Emit(m, p, row, "product_added")
    BY <1>2 DEF PublishNew
  <2> HIDE DEF row
  <2> QED
    BY <1>2, <2>1, <2>2, EmitType DEF TypeOK, PublishNew
<1>3. ASSUME NEW m \in Merchants, NEW title \in Titles, NEW content \in Contents,
             PublishAgain(m, title, content)
      PROVE  TypeOK'
  <2> DEFINE row(p) == [pubs[p] EXCEPT !.content = content, !.version = @ + 1]
  <2>1. PICK p \in Find(m, title, "published") :
              pubs' = [pubs EXCEPT ![p] = row(p)]
              /\ Emit(m, p, row(p), "product_updated")
    BY <1>3 DEF PublishAgain
  <2>2. p \in Ids /\ pubs[p] \in Rows
    BY DEF Find, TypeOK, NoRow
  <2>3. row(p) \in Rows
    BY <2>2, RowTypes
  <2> HIDE DEF row
  <2> QED
    BY <1>3, <2>1, <2>2, <2>3, EmitType DEF TypeOK, PublishAgain
<1>4. ASSUME NEW m \in Merchants, NEW p \in Ids, Withdraw(m, p)
      PROVE  TypeOK'
  <2> DEFINE row == [pubs[p] EXCEPT !.status = "withdrawn"]
  <2>1. pubs[p] \in Rows
    BY <1>4 DEF Withdraw, TypeOK
  <2>2. row \in Rows
    BY <2>1 DEF Rows
  <2>3. pubs' = [pubs EXCEPT ![p] = row] /\ Emit(m, p, row, "publication_withdrawn")
    BY <1>4 DEF Withdraw
  <2> HIDE DEF row
  <2> QED
    BY <1>4, <2>2, <2>3, EmitType DEF TypeOK, Withdraw
<1>5. ASSUME NEW b \in Buyers, NEW m \in Merchants, FollowStarts(b, m)
      PROVE  TypeOK'
  BY <1>5 DEF TypeOK, FollowStarts, Follows
<1>6. ASSUME NEW b \in Buyers, NEW m \in Merchants, Unfollow(b, m)
      PROVE  TypeOK'
  <2> DEFINE f == [follows[b][m] EXCEPT !.status = "cancelled"]
  <2>1. f \in Follows
    <3>1. follows[b][m] \in Follows
      BY DEF TypeOK
    <3> QED
      BY <3>1 DEF Follows
  <2>2. follows' = [follows EXCEPT ![b] = [follows[b] EXCEPT ![m] = f]]
    BY <1>6 DEF Unfollow, TypeOK
  <2>3. follows' \in [Buyers -> [Merchants -> Follows]]
    <3> HIDE DEF f
    <3> QED
      BY <2>1, <2>2 DEF TypeOK
  <2>4. due' \in [Buyers -> [Merchants -> SUBSET Nat]]
    BY <1>6 DEF TypeOK, Unfollow
  <2> QED
    BY <1>6, <2>3, <2>4 DEF TypeOK, Unfollow
<1>7. ASSUME NEW b \in Buyers, Pull(b)
      PROVE  TypeOK'
  <2>1. \A m \in Merchants : SeenAfter(b, m) \in Nat
    BY PullStep
  <2>2. follows' \in [Buyers -> [Merchants -> Follows]]
    <3>1. \A m \in Merchants :
             [follows[b][m] EXCEPT !.seen = SeenAfter(b, m)] \in Follows
      BY <2>1, FollowTypes DEF TypeOK
    <3>2. follows' = [follows EXCEPT ![b] = [m \in Merchants |->
              IF Active(b, m) THEN [follows[b][m] EXCEPT !.seen = SeenAfter(b, m)]
                              ELSE follows[b][m]]]
      BY <1>7 DEF TypeOK, Pull
    <3> QED
      BY <3>1, <3>2 DEF TypeOK
  <2>3. due' \in [Buyers -> [Merchants -> SUBSET Nat]]
    BY <1>7 DEF TypeOK, Pull
  <2> QED
    BY <1>7, <2>2, <2>3 DEF TypeOK, Pull
<1>8. ASSUME Tick \/ StepBack PROVE TypeOK'
  BY <1>8 DEF TypeOK, Tick, StepBack
<1>9. ASSUME UNCHANGED vars PROVE TypeOK'
  BY <1>9 DEF TypeOK, vars
<1> QED
  BY <1>1, <1>2, <1>3, <1>4, <1>5, <1>6, <1>7, <1>8, <1>9
  DEF Next, CreatePublication, FollowMerchant, FollowKeeps

\* An event of merchant m, emitted under a steady clock, lies above the
\* watermark of every active follow, and above all earlier events.
LEMMA EmitStep ==
  ASSUME TypeOK, Stamps, TypeOK', NEW m \in Merchants, NEW p, NEW row, NEW type,
         Emit(m, p, row, type), UNCHANGED <<clock, follows>>
  PROVE  /\ Stamps'
         /\ Ahead /\ NothingLostNothingTwice => Ahead' /\ NothingLostNothingTwice'
<1> DEFINE n == Len(events[m])
           s == NextStamp(m)
<1>1. /\ n \in Nat /\ DOMAIN events[m] = 1 .. n
      /\ \A v \in 1 .. n : events[m][v].at \in Nat
      /\ clock \in Nat
  BY EventFacts DEF TypeOK
<1>2. /\ LastStamp(m) \in Nat
      /\ \A v \in 1 .. n : events[m][v].at <= LastStamp(m)
  BY <1>1, LastIsMax
<1>3. s \in Nat /\ s > LastStamp(m) /\ s >= clock
  BY <1>1, <1>2 DEF NextStamp
<1>4. /\ DOMAIN events'[m] = 1 .. n + 1 /\ Len(events'[m]) = n + 1
      /\ \A v \in 1 .. n : events'[m][v] = events[m][v]
      /\ events'[m][n + 1].at = s
      /\ \A k \in Merchants : k # m => events'[k] = events[k]
  <2> DEFINE e == [at |-> s, type |-> type, pub |-> p, row |-> row]
  <2>1. events' = [events EXCEPT ![m] = Append(@, e)] /\ e.at = s
    BY DEF Emit
  <2>2. events \in [Merchants -> Seq(Events)] /\ events' \in [Merchants -> Seq(Events)]
    BY DEF TypeOK
  <2> HIDE DEF e
  <2>3. events'[m] = Append(events[m], e) /\ events[m] \in Seq(Events)
        /\ \A k \in Merchants : k # m => events'[k] = events[k]
    BY <2>1, <2>2
  <2>4. events'[m] \in Seq(Events)
    BY <2>2
  <2>5. Len(events'[m]) = n + 1
    BY <2>3
  <2>6. DOMAIN events'[m] = 1 .. n + 1
    BY <2>4, <2>5
  <2>7. \A v \in 1 .. n : events'[m][v] = events[m][v]
    BY <2>3
  <2>8. events'[m][n + 1] = e
    BY <2>3
  <2> QED
    BY <2>1, <2>3, <2>5, <2>6, <2>7, <2>8
<1> HIDE DEF s, n
<1>5. Stamps'
  <2> SUFFICES ASSUME NEW k \in Merchants, NEW v \in DOMAIN events'[k],
                      NEW w \in DOMAIN events'[k], v < w
               PROVE  events'[k][v].at < events'[k][w].at
    BY DEF Stamps
  <2>1. CASE k # m
    BY <1>4, <2>1 DEF Stamps
  <2>2. CASE k = m
    <3>1. v \in 1 .. n
      BY <1>1, <1>4, <2>2
    <3>2. CASE w = n + 1
      <4>1. events'[m][v].at = events[m][v].at /\ events[m][v].at \in Nat
        BY <1>1, <1>4, <3>1
      <4>2. events[m][v].at <= LastStamp(m)
        BY <1>2, <3>1
      <4>3. events'[m][w].at = s
        BY <1>4, <3>2
      <4> QED
        BY <1>2, <1>3, <2>2, <4>1, <4>2, <4>3
    <3>3. CASE w # n + 1
      <4>1. w \in 1 .. n
        BY <1>1, <1>4, <2>2, <3>3
      <4> QED
        BY <1>1, <1>4, <2>2, <3>1, <4>1 DEF Stamps
    <3> QED
      BY <3>2, <3>3
  <2> QED
    BY <2>1, <2>2
<1>6. \A k \in Merchants : /\ LastStamp(k)' \in Nat
                           /\ LastStamp(k) \in Nat
                           /\ LastStamp(k)' >= LastStamp(k)
  <2> SUFFICES ASSUME NEW k \in Merchants
               PROVE  /\ LastStamp(k)' \in Nat /\ LastStamp(k) \in Nat
                      /\ LastStamp(k)' >= LastStamp(k)
    OBVIOUS
  <2>1. LastStamp(k) \in Nat
    BY LastIsMax
  <2>2. CASE k # m
    BY <1>4, <2>1, <2>2 DEF LastStamp, Last
  <2>3. CASE k = m
    <3>1. LastStamp(m)' = s
      <4>1. events'[m] # <<>>
        BY <1>1, <1>4
      <4> QED
        BY <1>4, <4>1 DEF LastStamp, Last
    <3> QED
      BY <1>2, <1>3, <2>3, <3>1
  <2> QED
    BY <2>2, <2>3
<1>7. \A b \in Buyers, k \in Merchants : follows[b][k].seen \in Nat
  BY DEF TypeOK, Follows
<1>8. ASSUME Ahead PROVE Ahead'
  <2> SUFFICES ASSUME NEW b \in Buyers, NEW k \in Merchants, Active(b, k)'
               PROVE  (follows[b][k].seen < clock \/ follows[b][k].seen <= LastStamp(k))'
    BY DEF Ahead
  <2>1. follows[b][k].seen < clock \/ follows[b][k].seen <= LastStamp(k)
    BY <1>8 DEF Ahead, Active
  <2> QED
    BY <1>6, <1>7, <2>1
<1>9. ASSUME Ahead, NothingLostNothingTwice PROVE NothingLostNothingTwice'
  <2> SUFFICES ASSUME NEW b \in Buyers, NEW k \in Merchants, Active(b, k)'
               PROVE  (Unseen(b, k) = due[b][k])'
    BY DEF NothingLostNothingTwice
  <2>1. Active(b, k) /\ follows'[b][k] = follows[b][k]
    BY DEF Active
  <2>2. Unseen(b, k) = due[b][k]
    BY <1>9, <2>1 DEF NothingLostNothingTwice
  <2>3. CASE k # m
    BY <1>4, <2>1, <2>2, <2>3 DEF Unseen, Emit
  <2>4. CASE k = m
    <3>1. due'[b][m] = due[b][m] \cup {n + 1}
      BY <2>1, <2>4 DEF Emit, n
    <3>2. s > follows[b][m].seen
      <4>1. follows[b][m].seen < clock \/ follows[b][m].seen <= LastStamp(m)
        BY <1>9, <2>1, <2>4 DEF Ahead
      <4> QED
        BY <1>1, <1>2, <1>3, <1>7, <4>1
    <3>3. Unseen(b, m)' = Unseen(b, m) \cup {n + 1}
      <4>1. Unseen(b, m) = {v \in 1 .. n : events[m][v].at > follows[b][m].seen}
        BY <1>1 DEF Unseen
      <4>2. Unseen(b, m)' =
              {v \in 1 .. n + 1 : events'[m][v].at > follows[b][m].seen}
        BY <1>4 DEF Unseen
      <4> QED
        BY <1>1, <1>4, <3>2, <4>1, <4>2
    <3> QED
      BY <2>2, <2>4, <3>1, <3>3
  <2> QED
    BY <2>3, <2>4
<1> QED
  BY <1>5, <1>8, <1>9

\* A follow begins above every event of its merchant, and owes nothing.
LEMMA FollowStep ==
  ASSUME FeedInv, SteadyClock, NEW b \in Buyers, NEW m \in Merchants,
         FollowStarts(b, m)
  PROVE  Stamps' /\ Ahead' /\ NothingLostNothingTwice'
<1> USE DEF FeedInv
<1>1. clock \in Nat /\ clock' = clock + 1 /\ clock > LastStamp(m)
      /\ UNCHANGED events
  BY DEF FollowStarts, TypeOK
<1>2. /\ follows'[b][m].seen = clock /\ due'[b][m] = {}
      /\ \A c \in Buyers, k \in Merchants : <<c, k>> # <<b, m>> =>
            follows'[c][k] = follows[c][k] /\ due'[c][k] = due[c][k]
  BY DEF FollowStarts, TypeOK
<1>3. \A c \in Buyers, k \in Merchants : follows[c][k].seen \in Nat
  BY DEF TypeOK, Follows
<1>4. \A k \in Merchants : LastStamp(k)' = LastStamp(k) /\ LastStamp(k) \in Nat
  BY <1>1, LastIsMax DEF LastStamp, Last
<1>5. Stamps'
  BY <1>1 DEF Stamps
<1>6. Ahead'
  <2> SUFFICES ASSUME NEW c \in Buyers, NEW k \in Merchants, Active(c, k)'
               PROVE  (follows[c][k].seen < clock \/ follows[c][k].seen <= LastStamp(k))'
    BY DEF Ahead
  <2>1. CASE c = b /\ k = m
    BY <1>1, <1>2, <2>1
  <2>2. CASE <<c, k>> # <<b, m>>
    <3>1. follows[c][k].seen < clock \/ follows[c][k].seen <= LastStamp(k)
      BY <1>2, <2>2 DEF Ahead, Active
    <3> QED
      BY <1>1, <1>2, <1>3, <1>4, <2>2, <3>1
  <2> QED
    BY <2>1, <2>2
<1>7. NothingLostNothingTwice'
  <2> SUFFICES ASSUME NEW c \in Buyers, NEW k \in Merchants, Active(c, k)'
               PROVE  (Unseen(c, k) = due[c][k])'
    BY DEF NothingLostNothingTwice
  <2>1. CASE c = b /\ k = m
    <3>1. \A v \in DOMAIN events[m] :
             events[m][v].at \in Nat /\ events[m][v].at <= LastStamp(m)
      BY EventFacts, LastIsMax
    <3>2. ~ \E v \in DOMAIN events[m] : events[m][v].at > clock
      BY <1>1, <1>4, <3>1
    <3> QED
      BY <1>1, <1>2, <2>1, <3>2 DEF Unseen
  <2>2. CASE <<c, k>> # <<b, m>>
    BY <1>1, <1>2, <2>2 DEF NothingLostNothingTwice, Active, Unseen
  <2> QED
    BY <2>1, <2>2
<1> QED
  BY <1>5, <1>6, <1>7

\* A pull, a cancellation, a draft or the clock keep what is due and unseen.
LEMMA PullKeeps ==
  ASSUME TypeOK, Stamps, Ahead, NothingLostNothingTwice, NEW b \in Buyers, Pull(b)
  PROVE  Ahead' /\ NothingLostNothingTwice'
<1>1. /\ \A m \in Merchants : Active(b, m) =>
            /\ Active(b, m)' /\ follows'[b][m].seen = SeenAfter(b, m)
            /\ due'[b][m] = due[b][m] \ Page(b, m)
      /\ \A c \in Buyers, k \in Merchants : c # b \/ ~Active(c, k) =>
            follows'[c][k] = follows[c][k]
      /\ \A c \in Buyers, k \in Merchants : c # b => due'[c][k] = due[c][k]
      /\ UNCHANGED <<clock, events>>
  BY DEF Pull, Active, TypeOK, Follows
<1>2. \A k \in Merchants : LastStamp(k)' = LastStamp(k)
  BY <1>1 DEF LastStamp, Last
<1>3. ASSUME NEW c \in Buyers, NEW k \in Merchants, Active(c, k)'
      PROVE  /\ (follows[c][k].seen < clock \/ follows[c][k].seen <= LastStamp(k))'
             /\ (Unseen(c, k) = due[c][k])'
  <2>1. CASE c # b
    <3>1. follows'[c][k] = follows[c][k] /\ due'[c][k] = due[c][k] /\ Active(c, k)
      BY <1>1, <1>3, <2>1 DEF Active
    <3> QED
      BY <1>1, <1>2, <3>1 DEF Ahead, NothingLostNothingTwice, Unseen
  <2>2. CASE c = b
    <3>1. Active(b, k)
      BY <1>1, <1>3, <2>2 DEF Active
    <3>2. /\ follows'[b][k].seen = SeenAfter(b, k)
          /\ due'[b][k] = due[b][k] \ Page(b, k)
      BY <1>1, <3>1
    <3>3. /\ SeenAfter(b, k) = follows[b][k].seen \/ SeenAfter(b, k) <= LastStamp(k)
          /\ {v \in DOMAIN events[k] : events[k][v].at > SeenAfter(b, k)}
               = Unseen(b, k) \ Page(b, k)
      BY PullStep
    <3>4. Unseen(b, k)' = {v \in DOMAIN events[k] : events[k][v].at > SeenAfter(b, k)}
      BY <1>1, <3>2 DEF Unseen
    <3>5. Unseen(b, k) = due[b][k]
      BY <3>1 DEF NothingLostNothingTwice
    <3>6. follows[b][k].seen < clock \/ follows[b][k].seen <= LastStamp(k)
      BY <3>1 DEF Ahead
    <3>7. (Unseen(b, k) = due[b][k])'
      BY <3>2, <3>3, <3>4, <3>5
    <3>8. (follows[b][k].seen < clock \/ follows[b][k].seen <= LastStamp(k))'
      BY <1>1, <1>2, <3>2, <3>3, <3>6
    <3> QED
      BY <2>2, <3>7, <3>8
  <2> QED
    BY <2>1, <2>2
<1> QED
  BY <1>3 DEF Ahead, NothingLostNothingTwice

\* Types and increasing stamps, whatever the clock does.
LEMMA StampStep == TypeOK /\ Stamps /\ [Next]_vars => TypeOK' /\ Stamps'
<1> SUFFICES ASSUME TypeOK, Stamps, [Next]_vars PROVE TypeOK' /\ Stamps'
  OBVIOUS
<1>1. TypeOK'
  BY TypeStep
<1>2. ASSUME NEW m \in Merchants, NEW p, NEW row, NEW type,
             Emit(m, p, row, type), UNCHANGED <<clock, follows>>
      PROVE  Stamps'
  BY <1>1, <1>2, EmitStep
<1>3. UNCHANGED events => Stamps'
  BY DEF Stamps
<1>4. ASSUME NEW m \in Merchants, NEW title, NEW content, PublishNew(m, title, content)
      PROVE  Stamps'
  BY <1>2, <1>4 DEF PublishNew
<1>5. ASSUME NEW m \in Merchants, NEW title, NEW content, PublishAgain(m, title, content)
      PROVE  Stamps'
  BY <1>2, <1>5 DEF PublishAgain
<1>6. ASSUME NEW m \in Merchants, NEW p \in Ids, Withdraw(m, p)
      PROVE  Stamps'
  BY <1>2, <1>6 DEF Withdraw
<1> QED
  BY <1>1, <1>3, <1>4, <1>5, <1>6
  DEF Next, CreatePublication, FollowMerchant, SaveDraft, FollowStarts, FollowKeeps,
      Unfollow, Pull, Tick, StepBack, vars

\* Every step keeps the whole invariant if the clock is steady.
LEMMA FeedStep == SteadyClock /\ FeedInv /\ [Next]_vars => FeedInv'
<1> SUFFICES ASSUME SteadyClock, FeedInv, [Next]_vars
             PROVE  Ahead' /\ NothingLostNothingTwice'
  BY StampStep DEF FeedInv
<1> USE DEF FeedInv
<1>1. TypeOK'
  BY TypeStep
<1>2. ASSUME NEW m \in Merchants, NEW p, NEW row, NEW type,
             Emit(m, p, row, type), UNCHANGED <<clock, follows>>
      PROVE  Ahead' /\ NothingLostNothingTwice'
  BY <1>1, <1>2, EmitStep
<1>3. ASSUME NEW m \in Merchants, NEW title, NEW content,
             PublishNew(m, title, content) \/ PublishAgain(m, title, content)
      PROVE  Ahead' /\ NothingLostNothingTwice'
  BY <1>2, <1>3 DEF PublishNew, PublishAgain
<1>4. ASSUME NEW m \in Merchants, NEW p \in Ids, Withdraw(m, p)
      PROVE  Ahead' /\ NothingLostNothingTwice'
  BY <1>2, <1>4 DEF Withdraw
<1>5. ASSUME NEW b \in Buyers, NEW m \in Merchants, FollowStarts(b, m)
      PROVE  Ahead' /\ NothingLostNothingTwice'
  BY <1>5, FollowStep
<1>6. ASSUME NEW b \in Buyers, NEW m \in Merchants, Unfollow(b, m)
      PROVE  Ahead' /\ NothingLostNothingTwice'
  <2>1. /\ ~Active(b, m)'
        /\ \A c \in Buyers, k \in Merchants : <<c, k>> # <<b, m>> =>
              follows'[c][k] = follows[c][k] /\ due'[c][k] = due[c][k]
        /\ UNCHANGED <<clock, events>>
    BY <1>6 DEF Unfollow, Active, TypeOK, Follows
  <2> QED
    BY <2>1 DEF Ahead, NothingLostNothingTwice, Active, Unseen, LastStamp, Last
<1>7. ASSUME NEW b \in Buyers, Pull(b)
      PROVE  Ahead' /\ NothingLostNothingTwice'
  BY <1>7, PullKeeps
<1>8. UNCHANGED <<events, follows, due>> => NothingLostNothingTwice'
  BY DEF NothingLostNothingTwice, Active, Unseen
<1>9. UNCHANGED <<events, follows, clock>> => Ahead'
  BY DEF Ahead, Active, LastStamp, Last
<1>10. Tick => Ahead'
  <2> SUFFICES ASSUME Tick PROVE Ahead'
    OBVIOUS
  <2>1. clock \in Nat /\ clock' = clock + 1 /\ UNCHANGED <<events, follows>>
    BY DEF Tick, TypeOK
  <2>2. \A b \in Buyers, m \in Merchants : follows[b][m].seen \in Nat
    BY DEF TypeOK, Follows
  <2> QED
    BY <2>1, <2>2 DEF Ahead, Active, LastStamp, Last
<1>11. StepBack => Ahead'
  BY DEF StepBack, Ahead, Active, LastStamp, Last
<1> QED
  BY <1>3, <1>4, <1>5, <1>6, <1>7, <1>8, <1>9, <1>10, <1>11
  DEF Next, CreatePublication, FollowMerchant, SaveDraft, FollowKeeps, Tick, StepBack, vars

\* The types of all tables hold, whatever the clock does.
THEOREM FeedTypes == Spec => [](TypeOK /\ Stamps)
<1>1. Init => TypeOK /\ Stamps
  BY DEF Init, TypeOK, Stamps, Follows
<1> QED
  BY <1>1, StampStep, PTL DEF Spec

\* Under a steady clock a buyer's pulls return every event of a followed
\* merchant exactly once: fetch_updates advances the watermark over what it
\* read, and emit_public_event never stamps an event at or below it.
THEOREM PullsAreExact ==
  ASSUME SteadyClock
  PROVE  Spec => []NothingLostNothingTwice
<1>1. Init => FeedInv
  BY DEF Init, FeedInv, TypeOK, Stamps, Ahead, NothingLostNothingTwice, Active,
         Follows, Unseen
<1>2. FeedInv /\ [Next]_vars => FeedInv'
  BY FeedStep
<1>3. FeedInv => NothingLostNothingTwice
  BY DEF FeedInv
<1> QED
  BY <1>1, <1>2, <1>3, PTL DEF Spec

\* The look-up before a publication finds the row that already has the title.
LEMMA TitleStep ==
  TypeOK /\ OnePublishedPerTitle /\ [Next]_vars => OnePublishedPerTitle'
<1> SUFFICES ASSUME TypeOK, OnePublishedPerTitle, [Next]_vars
             PROVE  OnePublishedPerTitle'
  OBVIOUS
<1> DEFINE Key(r) == <<r.status, r.merchant, r.title>>
           Published(r) == r.status = "published"
\* no row becomes published, or changes its key
<1>1. ASSUME \A p \in Ids : Published(pubs'[p]) => Key(pubs'[p]) = Key(pubs[p])
      PROVE  OnePublishedPerTitle'
  BY <1>1 DEF OnePublishedPerTitle
<1>2. ASSUME NEW p \in Ids, NEW r, pubs' = [pubs EXCEPT ![p] = r],
             Published(r) => Key(r) = Key(pubs[p])
      PROVE  OnePublishedPerTitle'
  <2>1. pubs'[p] = r /\ \A q \in Ids : q # p => pubs'[q] = pubs[q]
    BY <1>2 DEF TypeOK
  <2> QED
    BY <1>1, <1>2, <2>1
<1>3. ASSUME NEW m \in Merchants, NEW title, NEW content, SaveDraft(m, title, content)
      PROVE  OnePublishedPerTitle'
  <2>1. ASSUME NEW p \in Ids,
               pubs' = [pubs EXCEPT ![p] =
                    [status |-> "draft", merchant |-> m, title |-> title,
                     content |-> content, version |-> 1, published |-> FALSE]]
        PROVE  OnePublishedPerTitle'
    BY <1>2, <2>1
  <2>2. ASSUME NEW p \in Find(m, title, "draft"),
               pubs' = [pubs EXCEPT ![p].content = content]
        PROVE  OnePublishedPerTitle'
    <3>1. p \in Ids /\ pubs[p] \in Rows
      BY DEF Find, TypeOK, NoRow
    <3>2. Key([pubs[p] EXCEPT !.content = content]) = Key(pubs[p])
      BY <3>1 DEF Rows
    <3>3. pubs' = [pubs EXCEPT ![p] = [pubs[p] EXCEPT !.content = content]]
      BY <2>2
    <3> QED
      BY <1>2, <3>1, <3>2, <3>3
  <2> QED
    BY <1>3, <2>1, <2>2 DEF SaveDraft
<1>4. ASSUME NEW m \in Merchants, NEW title, NEW content, PublishNew(m, title, content)
      PROVE  OnePublishedPerTitle'
  <2>1. PICK p \in Ids : pubs' = [pubs EXCEPT ![p] =
                [status |-> "published", merchant |-> m, title |-> title,
                 content |-> content, version |-> 1, published |-> TRUE]]
    BY <1>4 DEF PublishNew
  <2>2. /\ pubs'[p].merchant = m /\ pubs'[p].title = title
        /\ \A q \in Ids : q # p => pubs'[q] = pubs[q]
    BY <2>1 DEF TypeOK
  <2>3. \A q \in Ids : Published(pubs[q]) =>
                         pubs[q].merchant # m \/ pubs[q].title # title
    BY <1>4 DEF PublishNew, Find
  <2> QED
    BY <2>2, <2>3 DEF OnePublishedPerTitle
<1>5. ASSUME NEW m \in Merchants, NEW title, NEW content, PublishAgain(m, title, content)
      PROVE  OnePublishedPerTitle'
  <2>1. PICK p \in Find(m, title, "published") : pubs' = [pubs EXCEPT ![p] =
                [pubs[p] EXCEPT !.content = content, !.version = @ + 1]]
    BY <1>5 DEF PublishAgain
  <2>2. p \in Ids /\ pubs[p] \in Rows
    BY DEF Find, TypeOK, NoRow
  <2>3. Key([pubs[p] EXCEPT !.content = content, !.version = @ + 1]) = Key(pubs[p])
    BY <2>2 DEF Rows
  <2> QED
    BY <1>2, <2>1, <2>2, <2>3
<1>6. ASSUME NEW m \in Merchants, NEW p \in Ids, Withdraw(m, p)
      PROVE  OnePublishedPerTitle'
  <2>1. pubs' = [pubs EXCEPT ![p] = [pubs[p] EXCEPT !.status = "withdrawn"]]
        /\ pubs[p] \in Rows
    BY <1>6 DEF Withdraw, TypeOK
  <2>2. ~Published([pubs[p] EXCEPT !.status = "withdrawn"])
    BY <2>1 DEF Rows
  <2> QED
    BY <1>2, <2>1, <2>2
<1>7. UNCHANGED pubs => OnePublishedPerTitle'
  BY DEF OnePublishedPerTitle
<1> QED
  BY <1>3, <1>4, <1>5, <1>6, <1>7
  DEF Next, CreatePublication, FollowMerchant, FollowStarts, FollowKeeps,
      Unfollow, Pull, Tick, StepBack, vars

\* A merchant never has two published rows of one title, so that publishing
\* never fails on the unique index, whatever the clock does.
THEOREM TitlesAreUnique == Spec => []OnePublishedPerTitle
<1>1. Init => OnePublishedPerTitle
  BY DEF Init, OnePublishedPerTitle, NoRow
<1>2. TypeOK /\ OnePublishedPerTitle /\ [Next]_vars => OnePublishedPerTitle'
  BY TitleStep
<1> QED
  BY <1>1, <1>2, FeedTypes, PTL DEF Spec

(***************************************************************************)
(* The stream as a copy of the directory.                                  *)
(***************************************************************************)
\* v is the last event about row p, and carries it as it is.
Carries(p, v) ==
    LET m == pubs[p].merchant IN
    /\ v \in DOMAIN events[m]
    /\ events[m][v].pub = p /\ events[m][v].row = pubs[p]
    /\ \A w \in DOMAIN events[m] : events[m][w].pub = p => w <= v

\* Drafts were never published; what was published has its last event.
MirrorInv ==
    /\ \A p \in Ids : pubs[p].status = "draft" => ~pubs[p].published
    /\ \A p \in Ids : pubs[p] # NoRow /\ pubs[p].published => \E v \in Nat : Carries(p, v)

\* A request that writes a row and emits it: its event is the last about the
\* row, and those about other rows stay the last ones.
LEMMA EmitMirrors ==
  ASSUME TypeOK, MirrorInv, TypeOK', NEW m \in Merchants, NEW p \in Ids, NEW row \in Rows,
         NEW type, row.merchant = m, row.status # "draft",
         pubs' = [pubs EXCEPT ![p] = row], Emit(m, p, row, type)
  PROVE  MirrorInv'
<1>0. PICK n \in Nat : n = Len(events[m])
  BY EventFacts
<1> DEFINE e == [at |-> NextStamp(m), type |-> type, pub |-> p, row |-> row]
<1>1. events[m] \in Seq(Events) /\ DOMAIN events[m] = 1 .. n
  BY <1>0, EventFacts DEF TypeOK
<1>2. events' = [events EXCEPT ![m] = Append(events[m], e)]
  BY DEF Emit
<1>3. events'[m] = Append(events[m], e) /\ events'[m] \in Seq(Events)
  BY <1>2 DEF TypeOK
<1>4. /\ DOMAIN events'[m] = 1 .. (n + 1)
      /\ events'[m][n + 1].pub = p /\ events'[m][n + 1].row = row
      /\ \A v \in 1 .. n : events'[m][v] = events[m][v]
  <2>1. Len(events'[m]) = n + 1 /\ DOMAIN events'[m] = 1 .. Len(events'[m])
    BY <1>0, <1>1, <1>3
  <2>2. events'[m][n + 1] = e
    BY <1>0, <1>1, <1>3
  <2>3. \A v \in 1 .. n : events'[m][v] = events[m][v]
    BY <1>0, <1>1, <1>3
  <2> QED
    BY <2>1, <2>2, <2>3
<1>5. /\ pubs'[p] = row
      /\ \A q \in Ids : q # p => pubs'[q] = pubs[q]
      /\ \A k \in Merchants : k # m => events'[k] = events[k]
  BY <1>2 DEF TypeOK
<1> HIDE DEF e
<1>6. Carries(p, n + 1)'
  <2>1. pubs'[p].merchant = m
    BY <1>5
  <2>2. n + 1 \in DOMAIN events'[m] /\ \A w \in DOMAIN events'[m] : w <= n + 1
    BY <1>1, <1>4
  <2>3. events'[m][n + 1].pub = p /\ events'[m][n + 1].row = pubs'[p]
    BY <1>4, <1>5
  <2> QED
    BY <2>1, <2>2, <2>3 DEF Carries
<1>7. ASSUME NEW q \in Ids, q # p, pubs'[q] # NoRow, pubs'[q].published
      PROVE  \E v \in Nat : Carries(q, v)'
  <2>1. pubs[q] = pubs'[q] /\ pubs[q] \in Rows
    BY <1>5, <1>7 DEF TypeOK
  <2>2. PICK v \in Nat : Carries(q, v)
    BY <1>7, <2>1 DEF MirrorInv
  <2>3. pubs[q].merchant \in Merchants
    BY <2>1 DEF Rows
  <2>4. CASE pubs[q].merchant # m
    <3>1. Carries(q, v)'
      BY <1>5, <2>1, <2>2, <2>3, <2>4 DEF Carries
    <3> QED
      BY <3>1
  <2>5. CASE pubs[q].merchant = m
    <3>1. /\ v \in 1 .. n /\ events[m][v].pub = q /\ events[m][v].row = pubs[q]
          /\ \A w \in 1 .. n : events[m][w].pub = q => w <= v
      BY <1>1, <2>2, <2>5 DEF Carries
    <3>2. /\ v \in 1 .. (n + 1) /\ events'[m][v].pub = q /\ events'[m][v].row = pubs'[q]
      BY <1>1, <1>4, <2>1, <3>1
    <3>3. ASSUME NEW w \in 1 .. (n + 1), events'[m][w].pub = q PROVE w <= v
      <4>1. w # n + 1
        BY <1>4, <1>7, <3>3
      <4> QED
        BY <1>1, <1>4, <3>1, <3>3, <4>1
    <3>4. Carries(q, v)'
      BY <1>4, <2>1, <2>5, <3>2, <3>3 DEF Carries
    <3> QED
      BY <3>4
  <2> QED
    BY <2>4, <2>5
<1>8. \A q \in Ids : pubs'[q] # NoRow /\ pubs'[q].published => \E v \in Nat : Carries(q, v)'
  <2>1. n + 1 \in Nat
    BY <1>1
  <2> QED
    BY <1>6, <1>7, <2>1
<1> QED
  BY <1>5, <1>8 DEF MirrorInv

\* Every request keeps the last events; only those that write a row touch them.
LEMMA MirrorStep == TypeOK /\ Stamps /\ MirrorInv /\ [Next]_vars => MirrorInv'
<1> SUFFICES ASSUME TypeOK, Stamps, MirrorInv, [Next]_vars PROVE MirrorInv'
  OBVIOUS
<1>0. TypeOK'
  BY TypeStep
<1>1. ASSUME NEW m \in Merchants, NEW title \in Titles, NEW content \in Contents,
             SaveDraft(m, title, content)
      PROVE  MirrorInv'
  <2>1. PICK p \in Ids : /\ pubs[p] = NoRow \/ pubs[p].status = "draft"
                         /\ \A q \in Ids : q # p => pubs'[q] = pubs[q]
                         /\ pubs'[p].published = FALSE
    <3>1. ASSUME NEW p \in Ids, FreshId(p),
                 pubs' = [pubs EXCEPT ![p] =
                    [status |-> "draft", merchant |-> m, title |-> title,
                     content |-> content, version |-> 1, published |-> FALSE]]
          PROVE  /\ pubs[p] = NoRow
                 /\ \A q \in Ids : q # p => pubs'[q] = pubs[q]
                 /\ pubs'[p].published = FALSE
      BY <3>1 DEF FreshId, TypeOK
    <3>2. ASSUME NEW p \in Find(m, title, "draft"), pubs' = [pubs EXCEPT ![p].content = content]
          PROVE  /\ p \in Ids /\ pubs[p].status = "draft"
                 /\ \A q \in Ids : q # p => pubs'[q] = pubs[q]
                 /\ pubs'[p].published = FALSE
      <4>1. p \in Ids /\ pubs[p].status = "draft"
        BY <3>2 DEF Find
      <4>2. pubs[p] \in Rows /\ ~pubs[p].published
        BY <4>1 DEF TypeOK, NoRow, MirrorInv
      <4>3. pubs'[p] = [pubs[p] EXCEPT !.content = content]
        BY <3>2, <4>1 DEF TypeOK
      <4>4. pubs'[p].published = FALSE
        BY <4>2, <4>3 DEF Rows
      <4> QED
        BY <3>2, <4>1, <4>4 DEF TypeOK
    <3> QED
      BY <1>1, <3>1, <3>2 DEF SaveDraft
  <2>2. events' = events
    BY <1>1 DEF SaveDraft
  <2>3. \A q \in Ids : q # p => \A v \in Nat : Carries(q, v)' <=> Carries(q, v)
    BY <2>1, <2>2 DEF Carries
  <2> QED
    BY <2>1, <2>3 DEF MirrorInv
<1>2. ASSUME NEW m \in Merchants, NEW title \in Titles, NEW content \in Contents,
             PublishNew(m, title, content)
      PROVE  MirrorInv'
  <2> DEFINE row == [status |-> "published", merchant |-> m, title |-> title,
                     content |-> content, version |-> 1, published |-> TRUE]
  <2>1. PICK p \in Ids : pubs' = [pubs EXCEPT ![p] = row] /\ Emit(m, p, row, "product_added")
    BY <1>2 DEF PublishNew
  <2>2. row \in Rows /\ row.merchant = m /\ row.status # "draft"
    BY DEF Rows
  <2> HIDE DEF row
  <2> QED
    BY <1>0, <2>1, <2>2, EmitMirrors
<1>3. ASSUME NEW m \in Merchants, NEW title \in Titles, NEW content \in Contents,
             PublishAgain(m, title, content)
      PROVE  MirrorInv'
  <2>1. PICK p \in Find(m, title, "published") :
            LET row == [pubs[p] EXCEPT !.content = content, !.version = @ + 1]
            IN pubs' = [pubs EXCEPT ![p] = row] /\ Emit(m, p, row, "product_updated")
    BY <1>3 DEF PublishAgain
  <2> DEFINE row == [pubs[p] EXCEPT !.content = content, !.version = @ + 1]
  <2>2. p \in Ids /\ pubs[p] \in Rows /\ pubs[p].merchant = m /\ pubs[p].status = "published"
    BY DEF Find, TypeOK, NoRow
  <2>3. row \in Rows /\ row.merchant = m /\ row.status # "draft"
    BY <2>2, RowTypes DEF Rows
  <2>4. pubs' = [pubs EXCEPT ![p] = row] /\ Emit(m, p, row, "product_updated")
    BY <2>1
  <2> HIDE DEF row
  <2> QED
    BY <1>0, <2>2, <2>3, <2>4, EmitMirrors
<1>4. ASSUME NEW m \in Merchants, NEW p \in Ids, Withdraw(m, p) PROVE MirrorInv'
  <2> DEFINE row == [pubs[p] EXCEPT !.status = "withdrawn"]
  <2>1. pubs[p] \in Rows /\ pubs[p].merchant = m
    BY <1>4 DEF Withdraw, TypeOK
  <2>2. row \in Rows /\ row.merchant = m /\ row.status # "draft"
    BY <2>1 DEF Rows
  <2>3. pubs' = [pubs EXCEPT ![p] = row] /\ Emit(m, p, row, "publication_withdrawn")
    BY <1>4 DEF Withdraw
  <2> HIDE DEF row
  <2> QED
    BY <1>0, <2>2, <2>3, EmitMirrors
<1>5. CASE UNCHANGED <<pubs, events>>
  BY <1>5 DEF MirrorInv, Carries
<1> QED
  <2>1. ASSUME NEW b \in Buyers, NEW m \in Merchants,
               FollowMerchant(b, m) \/ Unfollow(b, m)
        PROVE  MirrorInv'
    BY <2>1, <1>5 DEF FollowMerchant, FollowStarts, FollowKeeps, Unfollow, vars
  <2>2. ASSUME NEW b \in Buyers, Pull(b) PROVE MirrorInv'
    BY <2>2, <1>5 DEF Pull
  <2>3. CASE Tick \/ StepBack \/ UNCHANGED vars
    BY <2>3, <1>5 DEF Tick, StepBack, vars
  <2> QED
    BY <1>1, <1>2, <1>3, <1>4, <2>1, <2>2, <2>3 DEF Next, CreatePublication

\* A subscriber that keeps the last event about every row has the public
\* directory as it is, withdrawn rows included.
THEOREM StreamMirrorsDirectory == Spec => []FeedMirrorsDirectory
<1>1. Init => MirrorInv
  BY DEF Init, MirrorInv, NoRow
<1>2. TypeOK /\ MirrorInv => FeedMirrorsDirectory
  <2> SUFFICES ASSUME TypeOK, MirrorInv, NEW p \in Ids, pubs[p] # NoRow, pubs[p].published
               PROVE  /\ \E v \in DOMAIN events[pubs[p].merchant] :
                            events[pubs[p].merchant][v].pub = p
                      /\ LastEventAbout(p).row = pubs[p]
    BY DEF FeedMirrorsDirectory
  <2>0. pubs[p].merchant \in Merchants
    <3>1. pubs[p] \in Rows
      BY DEF TypeOK
    <3> QED
      BY <3>1 DEF Rows
  <2> DEFINE m == pubs[p].merchant
             about == {v \in DOMAIN events[m] : events[m][v].pub = p}
             last == CHOOSE u \in about : \A w \in about : w <= u
  <2>1. PICK v \in Nat : Carries(p, v)
    BY DEF MirrorInv
  <2>2. v \in about /\ \A w \in about : w <= v
    BY <2>1 DEF Carries
  <2>3. about \subseteq Nat
    BY <2>0, EventFacts
  <2>4. last = v
    <3> HIDE DEF about
    <3>1. last \in about /\ \A w \in about : w <= last
      BY <2>2
    <3> HIDE DEF last
    <3>2. last <= v /\ v <= last /\ last \in Nat
      BY <2>2, <2>3, <3>1
    <3> QED
      BY <3>2
  <2>5. LastEventAbout(p) = events[m][v]
    BY <2>4 DEF LastEventAbout
  <2> QED
    BY <2>1, <2>2, <2>5 DEF Carries
<1> QED
  BY <1>1, <1>2, MirrorStep, FeedTypes, PTL DEF Spec

===============================================================================

------------------------------ MODULE SearchPages ------------------------------
(***************************************************************************)
(* Walking the pages of a public search by the cursor each response hands  *)
(* out, while others write the rows: listings (listings/search.py),        *)
(* publications (services/merchant_publications.py), agents                *)
(* (agent_catalog/pagination.py, catalog_query.py) and the list an owner   *)
(* reads of its own listings (listings/sqlite_repository.py).              *)
(*                                                                         *)
(* A page is one transaction.  A listings page and an owner's page first   *)
(* mark as stale what has passed its fresh_until, and thereby stamp it     *)
(* anew: reading moves rows.  Rows that carry a share code are read and    *)
(* passed over, so that a listings page scans a bounded number of rows and *)
(* may come back empty with a cursor.  The batches of that scan lie in one *)
(* transaction and are taken together.  A row is known by its place in the *)
(* order of ids; which rows match the filters is part of "public".         *)
(***************************************************************************)
EXTENDS Naturals, FiniteSets

CONSTANTS
    Rows,       \* ids, numbers
    Surfaces,   \* searches to walk: listings, publications, agents, owner
    PageSize,   \* limit of the query
    Budget,     \* MAX_LISTING_SCAN_ROWS
    MaxClock    \* bound of the runs

ASSUME SearchAssumption ==
    /\ Rows \subseteq Nat /\ IsFiniteSet(Rows)
    /\ Surfaces \subseteq {"listings", "publications", "agents", "owner"}
    /\ PageSize \in Nat \ {0} /\ Budget \in Nat \ {0} /\ MaxClock \in Nat \ {0}

VARIABLES
    surface,   \* the search this behaviour walks
    clock,     \* now_iso, in seconds
    rows,      \* what decides on a row: rank, updated_at, its visibility
    walk,      \* what the client holds: nothing yet, a cursor, the last page
    given,     \* history: how often the client was given a row, 0, 1, or 2 for more
    steady,    \* history: rows visible since the first page and written by nobody
    still      \* history: those of them no page has marked as stale

walkVars == <<surface, clock, rows, walk, given, steady, still>>

Ranks == {0, 1}                    \* FRESH and STALE; good and bad agents
Row   == [rank : Ranks, stamp : 1 .. MaxClock, public : BOOLEAN, clean : BOOLEAN]

Ages  == surface \in {"listings", "owner"}   \* expire_stale_listings comes first

WalkInit ==
    /\ surface \in Surfaces
    /\ clock = 1
    /\ rows \in [Rows -> {r \in Row : /\ r.stamp = 1
                                      /\ surface # "listings" => r.clean
                                      /\ surface = "publications" => r.rank = 0}]
    /\ walk = [at |-> "new"]
    /\ given = [r \in Rows |-> 0] /\ steady = {} /\ still = {}

(***************************************************************************)
(* The order of a search, and what lies behind a cursor.                   *)
(***************************************************************************)
\* An owner's list and publications go by updated_at and id alone.
Key(rs, r) == [rank  |-> IF surface \in {"listings", "agents"} THEN rs[r].rank ELSE 0,
               stamp |-> rs[r].stamp, id |-> r]

Precedes(j, k) ==
    \/ j.rank < k.rank
    \/ j.rank = k.rank /\ j.stamp > k.stamp
    \/ j.rank = k.rank /\ j.stamp = k.stamp /\ j.id > k.id

\* Variant with a plausible bug: the rank is left out of the cursor.
BugBehind(rs, r) ==
    \/ walk.at = "new"
    \/ walk.at = "open" /\ Precedes([walk.cursor EXCEPT !.rank = Key(rs, r).rank], Key(rs, r))

Behind(rs, r) ==
    \/ walk.at = "new"
    \/ walk.at = "open" /\ Precedes(walk.cursor, Key(rs, r))

Shown(rs, r) == surface = "owner" \/ rs[r].public
Safe(rs, r)  == rs[r].clean

Found(rs) == {r \in Rows : Shown(rs, r) /\ Behind(rs, r)}

First(rs, n, S) ==
    {r \in S : Cardinality({q \in S : Precedes(Key(rs, q), Key(rs, r))}) < n}
LastKey(rs, S) ==
    Key(rs, CHOOSE r \in S : \A q \in S \ {r} : Precedes(Key(rs, q), Key(rs, r)))

(***************************************************************************)
(* A page: the rows it returns and what the client holds afterwards.       *)
(***************************************************************************)
\* Variant with a plausible bug: a used up budget leaves the client with the
\* last row returned.
BugNextCursor(rs, found, scanned, visible, page) ==
    IF Cardinality(visible) > PageSize
      THEN [at |-> "open", cursor |-> LastKey(rs, page)]
    ELSE IF surface = "listings" /\ Cardinality(found) >= Budget
      THEN IF page = {} THEN walk ELSE [at |-> "open", cursor |-> LastKey(rs, page)]
    ELSE [at |-> "done"]

\* The next page begins behind the last row returned, or, when the budget is
\* used up, behind the last one read.
NextCursor(rs, found, scanned, visible, page) ==
    IF Cardinality(visible) > PageSize
      THEN [at |-> "open", cursor |-> LastKey(rs, page)]
    ELSE IF surface = "listings" /\ Cardinality(found) >= Budget
      THEN [at |-> "open", cursor |-> LastKey(rs, scanned)]
    ELSE [at |-> "done"]

Scanned(rs, found) == IF surface = "listings" THEN First(rs, Budget, found) ELSE found

\* Fresh rows, any of which may have passed its fresh_until.
Fresh == IF Ages THEN {r \in Rows : rows[r].rank = 0} ELSE {}

\* expire_stale_listings
Expired(late) == [r \in Rows |-> IF r \in late THEN [rows[r] EXCEPT !.rank = 1, !.stamp = clock]
                                 ELSE rows[r]]

Counted(n) == IF n = 2 THEN 2 ELSE n + 1

\* The client is given a page, the rows being rs.  (Each \E names one value.)
Give(rs) ==
    \E found \in {Found(rs)} :
    \E scanned \in {Scanned(rs, found)} :
    \E visible \in {{r \in scanned : Safe(rs, r)}} :
    \E page \in {First(rs, PageSize, visible)} :
       /\ walk' = NextCursor(rs, found, scanned, visible, page)
       /\ given' = [r \in Rows |-> IF r \in page THEN Counted(given[r]) ELSE given[r]]

\* What the histories say after a page, or another read, that has marked late.
Watch(rs, late, begins) ==
    LET begun == {r \in Rows : Shown(rs, r) /\ Safe(rs, r)}
    IN /\ steady' = IF begins THEN begun ELSE steady
       /\ still'  = IF begins THEN begun ELSE still \ late
       /\ UNCHANGED <<surface, clock>>

AgedPage(late) ==
    /\ walk.at # "done"
    /\ \E rs \in {Expired(late)} : rows' = rs /\ Give(rs) /\ Watch(rs, late, walk.at = "new")

PlainPage ==
    /\ walk.at # "done" /\ Give(rows) /\ Watch(rows, {}, walk.at = "new")
    /\ UNCHANGED rows

SearchListings(late) == surface = "listings" /\ AgedPage(late)
ListOwn(late)        == surface = "owner" /\ AgedPage(late)
SearchPublications   == surface = "publications" /\ PlainPage
SearchAgents         == surface = "agents" /\ PlainPage

\* Somebody looks at a listing, or the response to the client is lost and it
\* will ask again.
ReadElsewhere(late) ==
    /\ late # {}
    /\ rows' = Expired(late)
    /\ Watch(rows, late, FALSE)
    /\ UNCHANGED <<walk, given>>

(***************************************************************************)
(* Writers.                                                                *)
(***************************************************************************)
Write(r, row) ==
    /\ rows' = [rows EXCEPT ![r] = row]
    /\ steady' = steady \ {r} /\ still' = still \ {r}
    /\ UNCHANGED <<surface, clock, walk, given>>

\* upsert_listing, upsert_publication; their content has been checked.
Publish(r) ==
    /\ surface # "agents"
    /\ Write(r, [rank |-> 0, stamp |-> clock, public |-> TRUE, clean |-> TRUE])

\* A withdrawal stamps the row; a suspension of its owner, an expires_at that
\* passes or a change of what a filter looks at may not.
Hide(r) ==
    /\ rows[r].public
    /\ \E stamp \in {rows[r].stamp, clock} :
          Write(r, [rows[r] EXCEPT !.public = FALSE, !.stamp = stamp])

Reinstate(r) ==
    /\ surface # "publications" /\ ~rows[r].public
    /\ \E stamp \in {rows[r].stamp, clock} :
          Write(r, [rows[r] EXCEPT !.public = TRUE, !.stamp = stamp])

\* The ladder moves an agent; only a success stamps last_verified_at.
Verify(r) ==
    /\ surface = "agents"
    /\ \E rank \in Ranks, stamp \in {rows[r].stamp, clock} :
          Write(r, [rows[r] EXCEPT !.rank = rank, !.stamp = stamp])

Tick ==
    /\ clock < MaxClock /\ clock' = clock + 1
    /\ UNCHANGED <<surface, rows, walk, given, steady, still>>

GetPage ==
    \/ \E late \in SUBSET Fresh : SearchListings(late) \/ ListOwn(late)
    \/ SearchPublications \/ SearchAgents

WalkNext ==
    \/ GetPage
    \/ \E late \in SUBSET Fresh : ReadElsewhere(late)
    \/ \E r \in Rows : Publish(r) \/ Hide(r) \/ Reinstate(r) \/ Verify(r)
    \/ Tick

\* The client asks until it has the last page.
WalkSpec == WalkInit /\ [][WalkNext]_walkVars /\ WF_walkVars(GetPage)

(***************************************************************************)
(* Properties.                                                             *)
(***************************************************************************)
\* Variables have their kinds.
WalkTypeOK ==
    /\ surface \in Surfaces /\ clock \in 1 .. MaxClock
    /\ rows \in [Rows -> Row]
    /\ walk \in [at : {"new", "done"}]
             \cup [at : {"open"},
                   cursor : [rank : Ranks, stamp : 1 .. MaxClock, id : Rows]]
    /\ given \in [Rows -> 0 .. 2]
    /\ still \subseteq steady /\ steady \subseteq Rows

\* Who walks to the last page has been given once every row that was visible
\* all along, that nobody wrote and no reader moved meanwhile; and of a public
\* search also those that readers have moved (search_listings: the cursor
\* "越过这批危险行；不静默丢掉后续正常商品", gets past hidden rows and silently
\* drops no normal one).
AllGiven == \A r \in steady : given[r] > 0
EveryRowOnce ==
    walk.at = "done" => /\ \A r \in still : given[r] = 1
                        /\ surface # "owner" => AllGiven

\* The same of the list an owner reads, which fails: a listing marked as stale
\* between two pages is stamped anew and comes to lie before the cursor.
OwnListIsComplete == walk.at = "done" /\ surface = "owner" => AllGiven

\* A walk ends, though rows are written all the time, and though pages come
\* back empty because everything in them is hidden.
WalkEnds == <>(walk.at = "done")
=============================================================================

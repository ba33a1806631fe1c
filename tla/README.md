# A verification project for kiwi-catalog

kiwi-catalog is a catalog of shopping agents: merchants register agents, the
catalog verifies them over the network on a ladder of stages, publishes what
merchants offer, and lets buyers search and follow. It is one Python process
(optionally several) over one SQLite database. This directory models the parts of
it whose correctness depends on order: threads, transactions, the clock, crashes.

| module | what it is | runs | proofs |
| --- | --- | --- | --- |
| `VerificationQueue` | the in-process verification queue and its durable ledger | `queue_sched`, `queue_crash`, `queue_live` | `VerificationQueueProofs` |
| `VerificationContract` | what the queue promises: an abstract specification | `queue_crash` | |
| `PublicFeed` | publications, public events, follows and pulls | `feed` | `PublicFeedProofs` |
| `CatalogAgents` | agents: registration, claims, moderation, the verification ladder | `catalog` | `CatalogAgentsProofs` |
| `RuntimeBinding` | runtimes: binding, rotation, enrolment, cards, endpoints | `binding` | `RuntimeBindingProofs` |
| `BindingContract` | what a binding promises: an abstract specification | `binding` | `RuntimeBindingProofs` |
| `RuntimeAccess` | access configurations, keepalive wakes, public inquiries | `access` | `RuntimeAccessProofs` |
| `SchemaChain`, `Migrations` | the 49 migrations as data; opening and migrating the database | `migrations` | `DirectoryProofs` |
| `WriteIdempotency`, `Listings` | the write template of the handlers; commerce listings over it | `listings` | `ListingsProofs` |
| `Accounts`, `Credentials` | e-mail accounts and their budgets; tokens, applications and connectors over them | `accounts` | `CredentialsProofs` |
| `ProfileFetcher` | fetching a profile: deadline, timer thread, resolver pool | `fetch` | `DirectoryProofs` |
| `SearchPages` | walking the pages of a search by cursor | `search` | `DirectoryProofs` |

`MC...` modules hold the instances for TLC. Run `tlc -config queue_crash.cfg
MCVerificationQueue` and the like; `tlapm VerificationQueueProofs.tla` checks the
proofs. `PROJECT.json` holds the map from definitions to source lines, the hazards, the
mutants and the theorems.

## 1. Inventory

Paths are under `src/kiwi_catalog/`.

**Verification queue** (`services/agent_verification.py` from line 1104,
`services/verification_queue_ledger.py`). State: in memory a task table, results,
a bounded FIFO, per-agent serial slots with deferred lists, a set of fenced agents;
in the database one ledger row per task. Operations: `enqueue`, the worker loop, the
runner threads and their commit permission, deadlines, `shutdown`, recovery at
construction. Hard: three kinds of threads, a commit that races a deadline, a
crash between any two ledger writes, a write that raises. Correct when nothing
accepted is lost, nothing runs twice, an outcome that was reported is true, and an
agent in doubt is fenced.

**Publications, events, follows** (`services/merchant_publications.py`,
`merchant_public_events.py`, `buyer_follows.py` and their handlers). State: a table of
drafts and published rows, an append-only event stream per merchant with versions
and stamps, a watermark per follow. Operations: save a draft, publish, publish
again, withdraw; follow, unfollow, pull. Hard: stamps are wall-clock readings and
watermarks compare with them. Correct when a follower gets every event exactly once and
the stream tells what the directory holds.

**Agent catalog and verification ladder** (`services/agent_verification.py` up to
line 1100, `agent_catalog_writes.py`, `agent_catalog/`, `state_domains.py`,
`api/handlers/agent_catalog.py`). State: one row per agent (domain, owner, trust
level, review and runtime status), history of the stages. Operations: register, claim,
verify, refresh, heartbeat, suspend, reinstate. Hard: each ladder reads the
agent, talks to the network for seconds without a transaction, and writes what it
concluded. Correct when no conclusion is stored about an agent that changed
meanwhile and administrative decisions are not undone by a ladder in flight.

**Write idempotency and rate limits** (`api/idempotency.py`,
`services/rate_limit.py`). State: one row per endpoint, actor and key, processing or
completed; one counter per subject and window. Operations: replay, claim, complete,
clear, prune; consume. Hard: the claim and the work are one, two or three
transactions, depending on the handler, and each may be the last. Correct when a
request's effect happens once per key and the limit is not exceeded.

**Runtime binding and cards** (`api/handlers/cloud_binding.py`, `cloud_card.py`,
`services/binding_requests.py`, `enrollments.py`, `agent_endpoints.py`,
`a2a/card_store.py`). State: binding requests, enrolments, bindings by version, card
revisions with one active, a publication, the endpoints the directory hands out. Hard:
a grant is authorised, challenged over the network and used later; rotation,
revocation, moderation and the runtime's own signed requests overlap. Correct when an
agent has at most one active binding, an old one never returns, and what the directory
shows follows binding, card and publication.

**Access configuration, keepalive, inquiries** (`services/runtime_access.py`,
`runtime_keepalive*.py`, `public_inquiry_consent.py` and handlers). State: versions of
an access configuration with a secret share code, three consents, a claimed attempt.
Hard: a PUT is two transactions around a challenge, a wake uses what a tick read.
Correct when a share code is in service only under the merchant's consent.

**Accounts, sessions, tokens, connector identity** (`services/accounts.py`,
`merchant_tokens.py`, `connector_identity.py`, handlers, the command line). State: account,
registration row with its code and ticket, sessions, budgets, the merchant token,
applications, connector requests and their credential. Hard: every request charges its
budget in a transaction of its own and reads outside the transaction it writes in.
Correct when budgets bound the attempts, a merchant keeps one identity, a request is
exchanged once.

**Commerce listings and entitlements** (`listings/`,
`services/listing_entitlements.py`). State: listings with a governance hold, a plan.
Correct when the plan bounds what is active and a moderator's hold is kept.

**Public search** (`listings/search.py`, `agent_catalog/pagination.py`,
`catalog_query.py`, `merchant_publications.py`). No state but the cursor the client
keeps. Hard: rows move while somebody walks the pages, and reading moves them too.
Correct when a walk misses no row that stayed and ends.

**Discovery** (`discovery/fetcher.py`, `_bounded_dns.py`). State: per fetch a
deadline, a timer thread, a socket; a pool of resolver threads with slots. Hard: a
blocked read or resolution can not be interrupted from its own thread. Correct when a
fetch ends at its deadline, leaves nothing open, and never returns what its deadline
cut short.

**Schema** (`db/migrations.py`, `models.py`, `session.py`). State: the schema, two version
numbers, the write lock. Hard: processes that start together, crashes, statements that
commit one by one before a chain that commits as a whole. Correct when whoever gets a
connection finds the whole schema and every migration took effect once.

**Transport** (`api/`) routes, limits and renders; **metrics, logs, CLI, scripts**
observe and drive the rest. They keep no state other parts decide on.

How they interact: handlers call services inside `db_session` transactions; register
and refresh enqueue a task in the queue after they commit; the queue's runner calls the
ladder, which fetches profiles and asks the queue for the commit permission before
its last transaction; publishing emits an event in the same transaction; suspending an
agent reaches its listings, its publication and its endpoints; an access
configuration belongs to a binding, of which `RuntimeAccess` uses only what
`BindingContract` promises.

### Transactions

Python's `sqlite3` opens a transaction at the first data-changing statement, not at the
first read. Reads before it are therefore separate from it: another request may commit in
between. A handler whose first database statement writes holds the write lock for
everything after and is one atomic step. Session authentication (`resolve_session`
inserts a merchant id with `insert or ignore`, `services/accounts.py:711-746`)
and connector authentication (`verify_merchant_token` stamps `last_used_at`,
`services/connector_identity.py:366-391`) do write first, hence the one-step requests
of `PublicFeed`. A request that raises is rolled back as a whole
(`db/session.py`). A handler that reads first is a reading and a committing action, with
a control point in between that holds what it read.

## 2. The queue

`VerificationQueue` has one action per critical section (a block under `_results_cv`,
`_agent_running_lock`, `_enqueue_lock` or a permission's lock) and one per ledger
transaction. Callers, workers and tasks carry a control point (`cpc`, `wpc`, `rpc`).

| code | model |
| --- | --- |
| `enqueue` | `EnqueueCheck` ... `EnqueueRollbackFails`, in the order of the code: checks, look-up, registration, row, admission, roll-back |
| `_worker_loop`, `_run_task_with_timeout` | `Worker...` actions: take, defer or claim, mark running, wait for a runner slot, join, publish, record, release or hand over, put back |
| runner thread, `_CommitPermission` | `Runner...`, `DeadlinePasses` |
| `shutdown`, process death, `__init__` | `ShutdownBegin`, `CloseLedger`, `CrashRestart` |
| ledger helpers | `InsertRow`, `MarkRunning`, `FinishRow`, `MarkUnknown`, `DeleteRow` |

Abstractions. A service call is what the queue can see of it: it fails, asks to
commit, or never returns. `wait()` and `drain()` are left out (they only read results
and ledger), as are result texts and the clean-up that drops terminal rows seven days
after their end. A write that raises leaves its row as it was.
`put_nowait` and the check before it, both under `_enqueue_lock`, are one step.
The look-up for a reusable task may pick any matching one, recovery may re-queue in any
order: each allows more than the code does. Identifiers are never reused
(UUIDs in the code).

### Runs

| run | bounds | shows |
| --- | --- | --- |
| `queue_sched` | 3 tasks of 2 kinds, 1 agent, 2 workers, FIFO of 1, no crash (3.0M states) | scheduling: `NoOverlappingCommit`, `InOnePlace`, `DeferredHasWaker`, `ExitLeavesNothing`; no deadlock |
| `queue_crash` | 2 tasks, 2 callers, 2 workers, 1 crash (673,000 states) | `VerdictTruthful`, `StartedAtMostOnce`, `AcceptedNeverLost`, `NoLateCommit`, and the refinement `ImplementsContract` |
| `queue_live` | 2 tasks, 1 caller, 2 workers, 1 crash (655,000 states) | `AcceptedGetsOutcome`, `ShutdownReturns` |

Three tasks of one agent are the fewest that fill the running slot, a hand-over
and a full FIFO at once, which is what the put-back path needs; a second worker
is needed for every race between workers. In the crash run two tasks suffice: what the
properties compare is two runs of one agent. One crash before, during and after each
ledger write is every crash there is; a second one finds the same rows.
`queue_crash` does not check deadlock because a failed roll-back leaves a
task in `_tasks` that nobody will run, and workers then wait for ever. For the same reason `"delete"` does not fail in `queue_live` and
`queue_sched`; `"running"` does not fail in `queue_crash`, because its purge
loses the row before the failure is recorded, and `"purge"` fails nowhere, because
recovery then runs a task already reported as failed (lines 1550, 1817 and 1770).

Fairness (`FairSpec`): weak fairness of every caller's steps, every worker and every
deadline: the process schedules its threads, and time passes. None for runners (a service
call may hang for ever, which is why deadlines exist), for new calls, `shutdown` or crashes.

### Proofs

`VerificationQueueProofs` proves for every number of agents, workers, callers,
tasks and crashes every safety property of the runs above, and four the runs leave to it:

| theorem | property | besides `~JoinTimeout` and a purge that works |
| --- | --- | --- |
| `TypeCorrect` | `TypeOK` | (needs `~JoinTimeout` only) |
| `VerdictsAreTrue`, `RunsAtMostOnce` | `VerdictTruthful`, `StartedAtMostOnce` | |
| `UnsettledRunsAreFenced`, `FencedAgentsStartNothing` | `UnsettledRunIsFenced`, `FenceHolds` | |
| `RunsAreSerial`, `CommitsNeverOverlap`, `LateRunnersCommitNothing` | `SerialPerAgent`, `NoOverlappingCommit`, `NoLateCommit` | |
| `DeferredTasksAreWoken`, `WorkersDrain` | `DeferredHasWaker`, `ExitLeavesNothing` | |
| `QueueImplementsContract` | `ImplementsContract` | |
| `NothingIsMislaid` | `InOnePlace` | the DELETE of a roll-back works |
| `AcceptedTasksAreKept` | `AcceptedNeverLost` | the running mark can be written |

Hypotheses of all of them: `~JoinTimeout` and `"purge" \notin FailableOps`. Without either
most are false: see "Known disagreements" and what is said of `"purge"` above. The last
two need what their column says for the reasons given under Runs. Every other write
may fail.

The argument. No property here is inductive: that "failed" is true depends on no
second runner existing, that on no second supervision, that on the agent's slot having
one owner, and that on the task being in one place. The invariant `QueueInv` says it in
layers, each with one lemma for all of `Next` that uses the layers before it:

* `IInv` is about one task at a time: `Control` (what a control point says about the
  task in hand), `Unique` (no task in two places), `Stages` (per stage, from
  before its run to after its verdict, how row, permission, runner and history agree);
* `SchedInv` is about tasks that meet. `Waits`: what is queued has no result, and the
  slot is handed to a queued task. `Slots`: unless the agent is fenced, its slot has one
  owner, and whoever is deferred behind it has one. (A fenced agent's slot is claimed by
  anybody, as in the code; that is harmless because such a claim starts nothing, which is
  `Slots`, too.) `Runs`: a run that may still commit is supervised or its agent is fenced;
* `Doubt`: who says "unknown" has fenced the agent, and each fenced agent has a row that
  makes recovery fence it again. `Settling`: a run begun is settled, in doubt or in the
  hands of its worker, and what the worker is about to record is what the row says.

`CrashRestart` has its own lemmas: recovery is proved from the ledger part of `Stages`
and from `Doubt`, since memory is gone. `Kept` and `Placed` are two more layers, for the
two theorems with more hypotheses.

The refinement. A verdict is anything `_results` said or the row says (`Verdicts`).
`EnqueueRegister` is `Submit`, `StartRunner` is `Begin` (its guard is what `Slots`, `Doubt`
and `Settling` give), a commit is `TakeEffect`, the first of `Publish`, `WorkerError` and
`Record` to say a verdict is `Settle`, an outcome "unknown" and the fence set up by
recovery are `RaiseDoubt`; everything else is a stutter of the contract.

Only model-checked: liveness, which the prover cannot treat.

## 3. The public feed

`PublicFeed` has one action per request and two for the clock; `CreatePublication` and
`FollowMerchant` are the two handlers that branch. `pubs` is
`merchant_publications`, `events` is `merchant_public_events` in the order of versions,
`follows` is `buyer_follows`; `due` is history: what a follow should still get.

The content of a publication is one value; whether an update concerns the FAQ or the
product is one event type; the category filter narrows only the answer. Search,
expiry, projections, redaction, view counts and rate limits are left out. The unique index
on published titles is left out on purpose: `OnePublishedPerTitle` shows that the
look-up alone keeps titles unique, so that no publisher ever meets the
index's error.

The clock may stand still between requests and step back. With `SteadyClock` a follow
starts above every stamp of its merchant, and the clock does not step back to an
active watermark unless an event above it exists. Otherwise it is free, so that the
correction of colliding stamps is exercised. Without `SteadyClock` the property is
false: an event stamped after a step back at or below a follower's watermark is never
delivered (`buyer_follows.py:77`).

| run | bounds | shows |
| --- | --- | --- |
| `feed` | 1 merchant, 1 buyer, 1 title, 2 contents, 3 rows, 4 events, pages of 2, 5 ticks | `NothingLostNothingTwice`, `OnePublishedPerTitle`, `FeedMirrorsDirectory` |

One merchant suffices because merchants share nothing but a buyer's pull, which treats
each apart; four events against pages of two give a cut page with a rest, and
a follow taken up again in the middle. Three rows of one title hold a draft, a
published and a withdrawn one at once. Clock and table bounds cap the instance, they
are in the guards.

`PublicFeedProofs` proves for every value of the constants: `FeedTypes` (types, and
stamps increase strictly whatever the clock does), `PullsAreExact`
(`NothingLostNothingTwice`, assuming `SteadyClock`) and `TitlesAreUnique`. The
invariant of the second adds that every watermark in use is below the clock or reached by
a stamp, and that what is due are versions of the stream. For any clock it
proves `FeedMirrorsDirectory` (`StreamMirrorsDirectory`), from `MirrorInv`: a draft
has never been published, and the last event about a row that ever was carries it as it is.

## 4. The catalog's agents

`CatalogAgents` keeps one record per agent: the row of `catalog_agents` (owner, domain,
level, freshness, administration) with what hangs on it, endpoints, snapshots and index,
and the latest passed evidence per rung.

| code | model |
| --- | --- |
| `register_catalog_agent` (handler and service), `_purge_*` | `Register`, `RegisterAnonymous`; `Target`, `Upserted`, `Purged`, `Reopened` |
| `ensure_my_catalog_agent` | `CreateAccess` |
| `claim_catalog_agent` | `ClaimBegin`, `ClaimFinish`, `ClaimEnds` |
| `suspend`, `reinstate`, `touch_catalog_agent` | `Suspend`, `Reinstate`, `Heartbeat` |
| `verify`, `refresh`: freshness gate | `VerifyBegin` |
| `_load_profiles` | `LoadProfiles`, `FetchFails`, `IndexProfiles` |
| `_begin_verified_persistence`, the stages | `UnchangedSince`, `Persist` |
| `_handle_profile_failure`, `set_state_domains` | `FailAtOnce`, or `FailRead` and `FailWrite` |
| `highest_supported_level` | `Supported` |
| close without commit, exceptions, process death | `RunAbandoned` |

Transactions. Registration, moderation and heartbeats spend the rate limit with their
first write and hold the lock from there: one action each. `verify` commits before it
talks to the network and reads the agent without a transaction; profiles are committed
after the fetch; the final transaction begins with `BEGIN IMMEDIATE` and compares the
agent with what was read. A ladder therefore has the control points `load`, `fetch`, `prove`
and, if its profiles fail, `fail`. The final commit under the queue's permission is
`Persist`; a refused one is `RunAbandoned`.

`_handle_profile_failure` is different: it reads the agent, recomputes and calls
`set_state_domains`, which reads again and writes all three domains, and only
that UPDATE opens the transaction. Under `AtomicDomainWrites` nobody commits between
those reads and that UPDATE; without it the reads are `FailRead` and the UPDATE is
`FailWrite`. A run that owes an audit entry for an expired snapshot has written it
before and holds the lock anyway. The window is a few statements wide, but nothing closes it, so
the assumption is stated, what needs it says so, and section 12 says what
happens without it.

Abstractions. Both profiles of an agent are one; a URL counts by its domain. An
evidence row counts by its rung, its domain and whether it expired, which may happen at any
time. Stale and unreachable are both not fresh, suspended stands for every governed state
(nothing sets rejected). What a ladder proves is a choice of `k`: the rungs passed before
the first failure. Endpoints and domain are read by `LoadProfiles` in one step; reading them
apart only adds failures that `FetchFails` has. Who may make a request, rate
limits and idempotency rows are left out: an action stands for an authorised request.

| run | bounds | shows |
| --- | --- | --- |
| `catalog` | 2 agents, 1 merchant, 2 domains, 2 rungs, 1 ladder, 1 claim (2.6M states) | `EvidenceIsOwn`, `LevelsAreEarned`, `DecisionsHold`, `OneAgentPerMerchant`, `ChangedLevelsAreBacked`; no deadlock |

Two domains are what a change of domain needs, two agents what a second agent of one
owner needs. Two rungs have a level between the ground and the top to fall back to, with a
rung above it; the code's third adds a second such level. One ladder meets every
other request; what two ladders do to each other is left to the proofs, which hold for
any number of them. All constants are interchangeable, hence the symmetry.

`CatalogAgentsProofs` proves, for every value of the constants, all properties
of the run and two more: `TypeCorrect`, `EvidenceAlwaysOwn` and `OneAgentEach` without hypothesis,
`LevelsAlwaysEarned`, `DecisionsAlwaysHold`, `SuspendedAreNotPromoted` and
`ChangesAreBacked` under `AtomicDomainWrites`. `LevelsAreEarned` is not
inductive: a ladder that fails falls back on evidence somebody else recorded. `IInv` adds
what this needs: evidence is about the agent's own domain, whoever proved a rung
proved those below it (`Gapless`), the rung of a level is proved (`LevelsAreBacked`), and
a ladder with profiles in hand is about an agent with a domain
(`LaddersHaveAgents`). That agents keep a domain once they have one makes this stable.
`SupportedLevel` states what the recomputation returns, from a greatest-element
lemma; `LevelStep` says once how a step may change a level, and both action properties
follow from it.

## 5. The runtime binding

`RuntimeBinding` is about one agent: no statement of this code names two.

| code | model |
| --- | --- |
| `request_binding`, `confirm`, `reject`, lazy expiry | `RequestBinding`, `Confirm`, `Reject`, `Lapse` |
| signed rotation, administrator's binding | `Rotate`, `AdminBind` after `FirstReads`, `AdminReads` |
| revocation: signed, by the administrator | `RevokeSigned`, `AdminRevoke` |
| device enrolment, authorisation, use of the grant | `CreateDevice`, `AuthorizeReads`, `Authorize`, `EnrollReads`, `Enroll`, `Expire`, `Cancel` |
| `create_card_version`, `activate_card_version`, publication | `CreateCard`, `ActivateCard`, `RuntimeStops`, `MerchantStops`, `MerchantResumes` |
| moderation | `Suspend`, `Reinstate` |
| `sync_agent_endpoints` | `Sync`, called where the code calls it |

A session writes before it reads (see "Transactions"): one action. A signed request
reads its binding first and takes the lock with its nonce, a grant is authorised and
used the same way: those have a control point in `calls` and work with what they
read. `End` is a request that is refused, fails or dies before its commit. A runtime
stands for its key, origin and endpoint; a card for what its publisher signs, the
runtime it advertises and a text. A deadline is part of the status it leads to.

`BindingContract` is what the rest of the system may rely on: versions grow by one, at
most one binding is active, it is the newest, and a revoked one never returns.
`ImplementsContract` is the refinement, with the head mapped to the number of
bindings and the active set to `Live`. `RuntimeAccess` is built on this contract only.

| run | bounds | shows |
| --- | --- | --- |
| `binding` | 2 runtimes, 2 texts, 1 enrolment, 1 request, 1 call in flight, 3 bindings, 2 revisions | `EndpointsMirror`, `GrantBindsOnce`, `ApprovedWhileGoverned`, `StopHolds`, the refinement `ImplementsContract` |

Two runtimes are what a takeover needs, three versions a rotation, a revocation and a
binding after it, two texts an approved card and another one. One call in flight meets
every one-step request; the proofs hold for any number of calls. Two histories delimit
what the card properties promise: `stopped` (the merchant stopped this binding's
card, cleared by any new binding) and `overtaken` (a signed request committed after its
binding had been revoked, which the code's order allows). A runtime bound by
rotation has no enrolment: neither the freeze of its card nor the merchant's stop
applies to it, and the properties say so in their premises. A suspension between the
reads of an authorisation and its UPDATE leaves an authorised enrolment; the check at
use refuses it.

`RuntimeBindingProofs` proves all five for every value of the constants
(`EndpointsFollow`, `GrantsBindOnce`, `ApprovedCardStays`, `StoppedCardStays`,
`BindingsImplementContract`, and `TypeCorrect`). The refinement is a step simulation on
top of the type invariant; the other four are made inductive by what a call in flight
knows of the rows it has read.

## 6. Access, keepalive and inquiries

`RuntimeAccess` keeps the versions of one agent's access configuration. A PUT stages a
pending version (`PutReads`, `Stage`), challenges the runtime over the network and
activates it (`Recheck`, `Activate`, or `Fail`, `Invalidate`); a withdrawal reads, then
erases (`WithdrawReads`, `Withdraw`). A binding request may carry a configuration
(`BindWithConfig`, `RequestStages`, `ConfirmLinked`, `RejectLinked`, `LapseLinked`).
The keepalive looks up candidates (`Candidate`), claims one (`Claim`), wakes it
(`Wake`); an inquiry is checked (`Ask`) and forwarded (`Forward`). `Restart` is a
restart with another setting of custody. Time is left out: an attempt after the cooldown
is one that may happen, an expired signature is a refusal.

| run | bounds | shows |
| --- | --- | --- |
| `access` | 2 calls in flight, 2 bindings, 3 versions | `CustodyEndsWithConsent`, `ServedMovesOn` |

Two calls are two overlapping PUTs, or a PUT and a withdrawal; three versions are one
in service, one pending and one staged meanwhile. The run does not check deadlock: at
the bound of versions nothing is left to do.

`RuntimeAccessProofs` proves both (`CustodyEnds`, `VersionsMoveOn`, and `TypeCorrect`)
for any number of calls, bindings and versions. The invariant relates every call between
its reads and its write to the version it staged: it is pending only if nothing newer
is, and nothing withdrawn keeps its secret.

## 7. The schema

`SchemaChain` is the schema as data: `Schema` (what `models.SCHEMA` creates), and
`M001` to `M049`, each a sequence of statements over tables, columns with a history,
indexes with a history and marks of data fills. `Executed` says what a statement
does, `Raises` when it is refused. `Complete` is the schema the code expects.
`Migrations` is `open_connection`: create what is missing statement by statement, each
committed; `begin immediate`, read the version, apply the chain, commit; write
`meta`. A process may crash or be refused at every step. Initially the database has any
version from 0 (empty) to 50 (newer than the code), possibly with duplicate rows some
migration refuses.

| run | bounds | shows |
| --- | --- | --- |
| `migrations` | 3 processes, the whole chain of 49, every initial version | `OpenedIsComplete`, `OnceInOrder` |

Three processes are one in the chain, one waiting for the lock with an old version in
hand, and one that starts after a crash. The list `INDEXES` of the code is empty and
nothing reads `meta`, so neither is a step of interest. That an upgrade from every
version ends with the same schema was also checked by running the code's own chain.

`DirectoryProofs` proves both, for any set of processes. `OnceInOrder` (`EachOnce`) and
the mutual exclusion it rests on (`OneMigrates`) hold whatever the chain is: the argument
uses the lock and that the version is read again under it (`IInv`).

`OpenedIsComplete` (`OpenedOnComplete`) splits in two. What the statements add up to is
data: `SchemaAssumption` (SCHEMA only adds, no two statements the same, the whole schema
is what this release leaves) and `ChainAssumption` (from whatever a release has left,
SCHEMA and then the chain, migration by migration, make the whole schema) are closed
formulas over the 49 migrations, which TLC evaluates at the start of `migrations`; a
migration that forgets a column makes it refuse to start. What processes and
crashes make of these statements is proved: `ChainInv` says that the committed schema is
always what some release has left plus statements of SCHEMA that found nothing
(`Grown`), that who has gone on to the lock has seen that nothing is missing, and that
the work under the lock is what the chain makes of the committed schema
(`WorkMigrates`). None of the three is inductive alone: a commit keeps `Grown` only because
of `WorkMigrates`, which stays true only because nobody who still executes SCHEMA changes
a schema in which nothing is missing.

## 8. Writes and listings

`WriteIdempotency` is the template the write handlers of the catalog and of the listings
follow: look for an answer to replay, authenticate, consume a write of the budget, claim
the key, work, complete. A request `Enter`s when there is nothing to replay; the
handlers differ in where they commit, and so does the template: `Together` (claim,
work and completion are one transaction: publish), `CommitClaim` and later `Answer`
(the claim is committed before the network: verify), `CommitAnswer` and later
`Enqueue`, `Reword` or `QueueFull` (the answer is committed before the queue is asked:
refresh). `ClaimMeetsRow`, `RolledBack` and `Fail` are its ends without work, `Crash` is
the process's. Rows past their time (`Prunable`) go with the next claim.

`Listings` puts publish, withdraw and reinstate on it, with the governance hold
(0 none, 1 suspended with the agent, 2 quarantined by an older release), the plan that
bounds what is active, suspension and reinstatement of the agent, rebinding, and the
legacy mode without an account. A listing is its upsert key; content, digests and
freshness decide nothing here. Hold 2 is only ever left, never set, by this code.

| run | bounds | shows |
| --- | --- | --- |
| `listings` | 2 listings, 1 binding, 1 key, 2 requests in flight, 2 writes, limits 0 and 1 (698,000 states) | `AppliedOnce`, `GroundedStaysDown`, `WithinPlan` |

Two requests with one key are every overlap of a retry; two listings compete for one
place. The run does not check deadlock: the bound on writes ends it.

`ListingsProofs` proves the three (`WorkAppliedOnce`, `HoldIsKept`, `PlanIsKept`) and
`TypeCorrect` for any number of keys, requests, listings and actors. `AppliedOnce`
rests on `WriteInv`: a request with a claimed row owes it, alone, and its row counts no
work yet. `GroundedStaysDown` rests on a grounded listing having the governance hold,
`WithinPlan` on a lemma that one more active listing adds one to the count.

## 9. Accounts and credentials

`Accounts` is one e-mail address: the account, the registration row, the sessions, and
two budgets (sending codes, trying them). A request `Charge`s its budget in a
transaction of its own, is admitted or refused by what it reads outside a transaction
(`Admit`, `Refuse`), and writes and commits, or is rolled back (`RollBack`). A code or
a password presented is right or not; a wrong one, a late one and a replaced one are
refused alike. `Credentials` adds the merchant token, its applications, decided at the
command line, and one connector request, created, decided under a session and exchanged
in two steps (`ExchangeBegin`, `Exchange`). In `Init` an account of an older release may
lack its merchant id, which exercises lazy assignment (`EnsureId`) and `Backfill`.

| run | bounds | shows |
| --- | --- | --- |
| `accounts` | 2 requests in flight, a limit of 1, 2 windows, 3 requests in all, at most 2 of them public and 2 not (398,000 states) | `AttemptsBounded`, `OneIdentity`, `GrantedOnce` |

Two requests in flight are every race these handlers have, as each reads once and
writes once; two windows are the change of window and its pruning. A limit of one is met
by the second request. The wider budgets per IP address and overall are the same counter
under another key. The run does not check deadlock: the bounds on requests end it.

`CredentialsProofs` proves the three (`BudgetsHold`, `IdentityIsKept`, `OneGrant`) and
`TypeCorrect` for any finite set of requests. `BudgetInv` counts places: requests that
were charged and not yet judged; attempts plus places never exceed what was spent while
the window can still be charged, nor the limit afterwards. `OneIdentity` is about
registered accounts, whose id exists from the start; it is false of old ones, see below.

## 10. Fetching a profile

`ProfileFetcher` has the caller's thread, its timer thread (`_RequestLifecycle`) and the
workers of `BoundedResolver`. A fetch runs from admission to the resolver (`Admit`,
`Take`, `Resolve`, `Release`, with `Cancel` for a caller that gives up), through
`Connect`, `Wrap`, handshake and response, over `Redirected`, to `Check`. The timer
(`Expire`, `Abort`) shuts down what is registered; `Register` finds out if it came too
late. External, as the code uses them: `urllib`'s opener, `http.client`,
`threading.Timer`, sockets and `getaddrinfo`. Validation of URLs, addresses and documents
is a nondeterministic refusal.

| run | bounds | shows |
| --- | --- | --- |
| `fetch` | 2 fetches, 1 worker, 2 slots, 2 redirects (151,000 states) | `NoTruncatedResult`, `NothingLeft`, `SlotsAreConserved`, `FetchEnds` |

Fetches share only the resolver: two of them with one worker fill queue and slots, with
a fetch waiting behind a resolution whose caller has left. Fairness: the clock passes the
deadline, a fetch's own thread takes the steps that are not blocked, the timer thread
runs. None for peers, `getaddrinfo` and workers: a peer may never answer. The run does not
check deadlock: fetches end. Left out: detaching a socket while it is wrapped is one
step; starting the timer thread does not fail; a body that a peer ends early
and whose length nobody compares.

`DirectoryProofs` proves the three safety properties (`SlotsStayConserved`,
`FetchLeavesNothing`, `ResultIsWhole`) and `FetchTypes` for any number of fetches,
redirects and slots, and any finite set of workers. Two invariants: `SlotInv` counts the
resolver's slots over `free`, the queue and the workers that have taken an item, and
does not look at fetches at all, which is why a caller may leave at any time. `RowOK` says
of one fetch how its phase, timer and socket belong together: there is no socket before
the timer runs; a socket that is cut, or a body read from one, means the deadline has
passed (`late`); an open socket is held by the lifecycle, or about to be registered, or on
the list of a timer that is just shutting it; who has left has no timer that may still
fire; and what is returned is not torn.

## 11. Walking the pages of a search

`SearchPages` keeps rows with the columns that order and hide them, and a walk: a client
that asks for page after page with the cursor of the last. A page is one transaction:
`SearchListings` (mark as stale, scan a bounded number of rows, skip hidden ones),
`SearchPublications`, `SearchAgents`, `ListOwn`. Meanwhile rows are published, hidden,
reinstated, verified and read elsewhere, which marks them as stale and stamps them
anew. `surface` chooses at the start which search a behaviour walks.

| run | bounds | shows |
| --- | --- | --- |
| `search` | 3 rows, pages of 1, a scan of 2 rows, 3 instants (415,000 states) | `EveryRowOnce`, `WalkEnds` |

Three rows are one behind the cursor, one at it and one before it; a scan shorter than
the table makes empty pages with a cursor. `WalkEnds` assumes only that the client keeps
asking (`WF` of `GetPage`), and that writes are finite, by the bound on the clock. With a
fourth instant `EveryRowOnce` still holds (1.8M states for the three public surfaces).

`DirectoryProofs` proves `EveryRowOnce` (`WalkGivesEveryRow`, with `WalkTypes`) for any
finite set of rows, any page size, any budget of the scan and any bound of the clock. It
begins with the order: keys are strictly ordered (`KeyOrder`), a finite set of
rows has a last one (`LeastElement`, from well-foundedness of the strict subsets), `First` takes
an initial piece of what it is given (`Firsts`) and `LastKey` is the key of its last row
(`Lasts`). `PageStep` then says what a page does: of the safe rows behind the old
cursor it returns those that are not behind the new one, whether it is cut by its size, by the
budget or by the end. The invariant `WalkInv` is about each row owed to the
client: it has been given or lies behind the cursor, and exactly one of the two, on every
surface, if no reader has moved it. Marking as stale keeps the first half because it moves
a row back in the order of listings (`AgedRows`); of an owner's list, which goes by
`updated_at` alone, this is false, and so is `OwnListIsComplete`: there only the rows that
nobody marked are sure to come, and once.

## 12. Known disagreements

What a comment, a docstring or a document says and the code does not do, found while
modelling. Each is a definition that TLC finds violated; none is in a run of
`PROJECT.json`. The run's configuration is used with this property (and the constants
named) in place of its own.

| property | module, configuration | what happens |
| --- | --- | --- |
| `AnsweredNeverLost` | `VerificationQueue`, `queue_sched` with 2 agents, 1 kind, 2 callers, `MaxTasks = 4`, `FailableOps = {}` | a caller merged into a task whose creator is then rolled back (full queue, shutdown) never gets an outcome (`agent_verification.py:1493`, against the comment at 1529) |
| `StartedAtMostOnce` | `VerificationQueue`, `queue_crash` with 1 task, `JoinTimeout = TRUE` | `shutdown(timeout=...)` closes the ledger under a working worker; its task is run again after a restart (line 1643, against 1644 and 1701) |
| `DraftsStayPrivate` | `PublicFeed`, `feed` | withdrawing a draft emits its content as an event (`merchant_publications.py:888`, against `docs/accounts.md:261`) |
| `NothingLostNothingTwice` | `PublicFeed`, `feed` with `SteadyClock = FALSE` | a clock stepped back hides events from followers (`services/buyer_follows.py:77`) |
| `IndexedUnderOwnDomain` | `CatalogAgents`, `catalog` with 1 agent | a ladder in flight indexes profiles of a domain its agent has left |
| `OwnerIsKept` | `CatalogAgents`, `catalog` with 1 agent, 2 merchants, 2 claims | of two merchants who claim one agent the second takes it over |
| `DecisionsHold` | `CatalogAgents`, `catalog` with `AtomicDomainWrites = FALSE` | a failing ladder undoes a suspension committed between its reads and its UPDATE |
| `GrantIsUsable` | `RuntimeBinding`, `binding` | bind, revoke, bind again: an insert without an active binding computes version 1, which exists (`cloud_binding.py:365`) |
| `WakeIsCurrent` | `RuntimeAccess`, `access` | a wake sends what its tick captured: after a rotation the old share code goes to the old origin (`runtime_keepalive.py:379`) |
| `ForwardIsOptedIn` | `RuntimeAccess`, `access` | the opt-in is checked for one binding, the message goes to the next (`public_inquiry.py:97`) |
| `FailedKeyIsFree` | `Listings`, `listings` | verify and claim commit the claim before the network; if they fail, the clear of the key is rolled back with the exception it is raised under: the key stays processing (`agent_catalog.py:743`, against `agent_catalog_writes.py:463`) |
| `ReplayIsTruthful` | `Listings`, `listings` | refresh stores that it enqueued before it asks the queue (`agent_catalog.py:611`) |
| `HeldIsReleasable` | `Listings`, `listings` | suspend, withdraw, reinstate: the held listing can neither be published nor reinstated, against `listings/service.py:248` |
| `ResetEndsSessions` | `Accounts`, `accounts` | a login that compared the old password before a reset opens its session after it (`accounts.py:694`) |
| `CodesAreOneTime` | `Accounts`, `accounts` | two requests compare a code before either erases it |
| `NeverSecondId` | `Credentials`, `accounts` | two requests of an old account both read that it has no id; one goes on with an id that is not the account's |
| `OnePendingApplication`, `DecidedOnce` | `Credentials`, `accounts` | the number and the status of an application are read before the lock |
| `OwnListIsComplete` | `SearchPages`, `search` | an owner's list is ordered by `updated_at`, which marking as stale rewrites: a listing that expires between two pages is skipped (`sqlite_repository.py:279`) |

Without a definition: two concurrent `enqueue` calls create two tasks for one job
(`agent_verification.py:1482`, against the comment at 1474), harmless to the properties
since tasks are serialised by agent; refused exchanges of a connector code roll
back their own count, so that they never meet the limit.

## 13. Proved, and only model-checked

Eight modules hold theorems. They are for every value of the constants, from the
assumptions the modules name (finite sets where something is counted, distinct values)
and the hypotheses said above: `~JoinTimeout`, no failing `"purge"` (for two theorems no
failing `"delete"` or `"running"` either), `SteadyClock`,
`AtomicDomainWrites`. Type invariants are proved there and for that reason left
out of most configurations.

Every safety property and action property of the runs, and both refinements, is stated by
a theorem. Two assumptions are about data, not about constants: `SchemaAssumption` and
`ChainAssumption` of `SchemaChain`, evaluated by TLC (section 7).

Only model-checked: liveness (`AcceptedGetsOutcome`, `ShutdownReturns`, `FetchEnds`,
`WalkEnds`), which the prover does not treat; and what the two assumptions say of the 49
migrations, since `ExecutedAll` is a recursive function over sequences of
statements, about which nothing can be proved without induction over data.

## 14. Not modelled

* Schedule and thread of the keepalive (`runtime_keepalive.py:235`, `_lifecycle.py`).
  Reading them: with the default cooldown equal to the interval and a bound on agents
  taken oldest first, agents that never answer can starve others; `stop` joins for
  five seconds and `start` clears the same event, so that an old thread may survive
  beside a new one, which its lock keeps out of the tick.
* The transport, metrics, logs, command line and scripts: stateless per request, or
  counters nothing decides on.
* Parsing and validation of profiles, cards, evidence, addresses and listings: pure
  functions, of which the models take the outcome.
* The hand-out of a share code to a buyer (`get_merchant_access`): a reader. Its
  reads are not one transaction, so that it may pair the origin of a revoked binding
  with the code of its successor, as `Forward` and `Wake` may.
* The queue's clean-up of old terminal rows; the ladder's short cut for agents with a
  cloud binding; signatures and nonces themselves; mails; the content checks of
  listings and cards; pages of the home page by number.
* Several processes over one ledger of the queue: recovery takes every pending row for
  its own.

## 15. Conventions

A definition whose name starts with `Bug` is a variant of the definition after it with a
plausible bug; nothing uses it but the mutant that `PROJECT.json` pairs with
a property, and each property is violated by its mutant. Bounds on counters are
constants called `Max...` and stand in guards. `job`, `started`, `reported`,
`accepted`, `answered`, `due`, `decision`, `stopped`, `overtaken`, `newest`,
`withdrawn`, `birth`, `ran`, `applied` and their like are declared as history: no
guard of a step the code takes reads them, except for `job`, which carries a task's
immutable fields.

## 16. Plan

1. The ladder's short cut for bound agents, composed over `BindingContract`; the
   keepalive's schedule; `get_merchant_access`.
2. Proofs with fewer hypotheses: what remains of the queue's properties when `"purge"`
   or `"delete"` fails, of the feed when the clock steps back.
3. The safety half of the liveness properties: that a worker, a fetch and a walk are
   never without a next step.

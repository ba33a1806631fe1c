----------------------------- MODULE SchemaChain -----------------------------
(***************************************************************************)
(* The schema of the directory's database: what db/models.py creates in a  *)
(* database that lacks it, and what each of the 49 migrations of           *)
(* db/migrations.py adds, drops or refuses.                                *)
(*                                                                         *)
(* An object is a table, a column that some migration adds or drops, an    *)
(* index with a history of its own, or the mark a data migration leaves    *)
(* behind.  Columns and indexes that come with their table and stay with   *)
(* it are part of the table.                                               *)
(***************************************************************************)
EXTENDS Naturals, Sequences

(***************************************************************************)
(* Statements.                                                             *)
(***************************************************************************)
\* create table if not exists: nothing happens to a table that is there.
Table(t, columns) == [op |-> "table", on |-> t, adds |-> {t} \cup columns]
Plain(ts)         == [i \in DOMAIN ts |-> Table(ts[i], {})]
\* _column_exists, alter table add column: an error without the table.
Columns(t, cs)    == [op |-> "column", on |-> t, adds |-> cs]
\* The same behind a look at sqlite_master: nothing without the table.
Extend(t, cs)     == [op |-> "extend", on |-> t, adds |-> cs]
Index(i)          == [op |-> "index", on |-> i, adds |-> {i}]
Fill(mark)        == [op |-> "index", on |-> mark, adds |-> {mark}]
Drop(x)           == [op |-> "drop", on |-> x, adds |-> {}]
\* A look for duplicate rows before a unique index over them.
Refuse(key)       == [op |-> "refuse", on |-> key, adds |-> {}]

Raises(objects, duplicates, s) ==
    \/ s.op = "column" /\ s.on \notin objects
    \/ s.op = "refuse" /\ s.on \in duplicates

Executed(objects, s) ==
    CASE s.op = "table"              -> IF s.on \in objects THEN objects ELSE objects \cup s.adds
      [] s.op \in {"column", "index"} -> objects \cup s.adds
      [] s.op = "extend"             -> IF s.on \in objects THEN objects \cup s.adds ELSE objects
      [] s.op = "drop"               -> objects \ {s.on}
      [] s.op = "refuse"             -> objects

ExecutedAll(objects, statements) ==
    LET after[i \in 0 .. Len(statements)] ==
          IF i = 0 THEN objects ELSE Executed(after[i - 1], statements[i])
    IN  after[Len(statements)]

\* Whether a migration gets to its end; what it has done is rolled back if not.
Succeeds(objects, duplicates, statements) ==
    \A i \in DOMAIN statements :
        ~Raises(ExecutedAll(objects, SubSeq(statements, 1, i - 1)), duplicates, statements[i])

(***************************************************************************)
(* The columns that came after their tables.                               *)
(***************************************************************************)
DomainColumns ==
    {"agents.verification_level", "agents.freshness_state", "agents.administrative_state",
     "agents.handoff_types", "agents.last_refresh_attempt_at", "agents.last_refresh_result"}
CodeColumns    == {"accounts.email_verified", "accounts.verification_code", "accounts.verification_expires"}
ProfileColumns == {"accounts.merchant_name", "accounts.phone"}
ResetColumns   == {"accounts.reset_code", "accounts.reset_expires"}
Declared       == {"bindings.management_base_path", "bindings.management_api_major", "bindings.mcp_path"}

(***************************************************************************)
(* db/models.py, SCHEMA.                                                   *)
(***************************************************************************)
SchemaAgents ==
    <<Table("catalog_agents", DomainColumns)>> \o
    Plain(<<"agent_endpoints", "agent_capabilities", "agent_skills", "agent_profile_snapshots",
            "agent_verifications", "register_limits", "write_idempotency", "write_rate_limits">>)
SchemaMerchants ==
    Plain(<<"trust_observations", "merchants">>) \o
    <<Table("merchant_tokens", {"tokens.token_encrypted"}),
      Table("merchant_applications",
            {"applications.account_id", "applications.phone", "applications.agent_id"}),
      Table("application_limits", {}), Table("usage_metrics", {}),
      Table("merchant_accounts",
            CodeColumns \cup ProfileColumns \cup ResetColumns \cup {"accounts.wechat"}),
      Table("registration_verifications", {}), Table("account_sessions", {}),
      Table("audit_events", {}), Table("meta", {})>>
SchemaListings ==
    <<Table("commerce_listings", {"listings.handoff_ref", "listings.governance_hold"}),
      Index("listings_fresh_until"),
      Table("buyer_search_events", {}), Table("discovery_entries", {}),
      Table("buyer_search_daily", {}), Table("buyer_keyword_daily", {})>>
SchemaFeed ==
    <<Table("access_log", {}), Table("merchant_publications", {"publications.view_count"}),
      Index("published_title_unique"),
      Table("merchant_public_events", {}), Table("buyer_follows", {})>>
SchemaRuntime ==
    Plain(<<"connector_identity_requests", "connector_merchant_tokens",
            "agent_card_versions", "card_publications">>) \o
    <<Table("runtime_bindings", Declared),
      Table("control_plane_nonces", {}), Table("admin_credentials", {}),
      Table("binding_requests", {"requests.access_config_version"})>>
SchemaAccess ==
    Plain(<<"listing_plans", "listing_entitlements", "listing_entitlement_audit">>) \o
    <<Table("access_configs", {"configs.revoked_reason"}),
      Table("access_faults", {}), Table("access_consents", {}),
      Table("keepalive_consents", {"keepalive.last_attempt_at"}),
      Table("keepalive_state", {})>>
Schema == SchemaAgents \o SchemaMerchants \o SchemaListings \o SchemaFeed
            \o SchemaRuntime \o SchemaAccess

(***************************************************************************)
(* db/migrations.py, in the order of their versions.                       *)
(***************************************************************************)
M001 == <<Table("catalog_agents", {})>> \o
        Plain(<<"agent_endpoints", "agent_capabilities", "agent_skills",
                "agent_profile_snapshots", "agent_verifications">>)
M002 == Plain(<<"register_limits">>)
M003 == Plain(<<"write_idempotency", "write_rate_limits">>)
M004 == Plain(<<"trust_observations">>)
M005 == Plain(<<"a2a_inbound_idempotency">>)
M006 == Plain(<<"verification_queue_tasks">>)
M007 == <<Refuse("merchant"), Index("merchant_unique")>>
M008 == <<Columns("catalog_agents", DomainColumns), Fill("domains_backfilled")>>
M009 == Plain(<<"merchants", "audit_events", "meta">>)
M010 == <<Table("commerce_listings", {})>>
M011 == <<Index("listings_fresh_until"), Refuse("domain"), Index("domain_unique")>>
M012 == <<Table("merchant_tokens", {"tokens.token_encrypted"}),
          Table("merchant_applications", {"applications.account_id", "applications.phone"}),
          Table("application_limits", {}), Table("usage_metrics", {})>>
M013 == Plain(<<"usage_metrics">>)

AccountsDDL  == Plain(<<"merchant_accounts", "account_sessions">>)
TokenColumns == <<Columns("merchant_tokens", {"tokens.token_encrypted"}),
                  Columns("merchant_applications", {"applications.account_id"})>>
M014 == TokenColumns \o AccountsDDL
M015 == <<Columns("merchant_accounts", CodeColumns)>>
M016 == <<Columns("merchant_accounts", ProfileColumns), Columns("merchant_applications", {"applications.phone"})>>
           \o TokenColumns \o AccountsDDL
M017 == <<Drop("domain_unique")>>
M018 == Plain(<<"buyer_search_events">>)
M019 == <<Columns("commerce_listings", {"listings.handoff_ref"})>>
M020 == <<Columns("merchant_tokens", {"tokens.shopping_token"})>>
M021 == <<Columns("merchant_applications", {"applications.agent_id"})>>
M022 == Plain(<<"discovery_entries">>)
M023 == <<Drop("tokens.shopping_token")>>

M024 == <<Columns("merchant_accounts", ResetColumns)>>
M025 == <<Columns("merchant_accounts", {"accounts.wechat"})>>
M026 == Plain(<<"buyer_search_daily">>)
M027 == Plain(<<"buyer_keyword_daily">>)
M028 == Plain(<<"access_log">>)
M029 == <<Table("merchant_publications", {}), Index("title_unique")>>
M030 == <<Columns("merchant_publications", {"publications.view_count"})>> \o
        Plain(<<"merchant_public_events", "buyer_follows">>)
M031 == Plain(<<"connector_identity_requests">>)
M032 == Plain(<<"connector_merchant_tokens">>)
M033 == Plain(<<"agent_card_versions", "card_publications", "runtime_bindings">>)
M034 == Plain(<<"control_plane_nonces">>)
M035 == <<Columns("runtime_bindings", Declared)>>
M036 == <<Drop("title_unique"), Index("published_title_unique")>>
M037 == Plain(<<"admin_credentials">>)
M038 == Plain(<<"binding_requests">>)
M039 == Plain(<<"enrollments">>)
M040 == Plain(<<"listing_plans", "listing_entitlements", "listing_entitlement_audit">>) \o
        <<Columns("commerce_listings", {"listings.governance_hold"}),
          Fill("holds_backfilled"), Fill("entitlements_granted")>>
M041 == <<Fill("free_limit_raised")>>
M042 == Plain(<<"registration_verifications">>)
M043 == <<Table("access_configs", {}),
          Extend("binding_requests", {"requests.access_config_version"})>>
M044 == Plain(<<"access_consents">>)
M045 == <<Extend("access_configs", {"configs.revoked_reason"})>>
M046 == Plain(<<"access_faults">>)
M047 == Plain(<<"public_inquiry_consents">>)
M048 == Plain(<<"keepalive_consents">>)
M049 == <<Extend("keepalive_consents", {"keepalive.last_attempt_at"}), Table("keepalive_state", {}),
          Fill("keepalive_row")>>

Chain ==
    <<M001, M002, M003, M004, M005, M006, M007, M008, M009, M010, M011, M012, M013, M014,
      M015, M016, M017, M018, M019, M020, M021, M022, M023, M024, M025, M026, M027, M028,
      M029, M030, M031, M032, M033, M034, M035, M036, M037, M038, M039, M040, M041, M042,
      M043, M044, M045, M046, M047, M048, M049>>

Current == Len(Chain)                                  \* CURRENT_SCHEMA_VERSION

\* What sequences of statements leave behind, when none brings back what an
\* earlier one has dropped.
Elements(ss)   == {ss[i] : i \in DOMAIN ss}
Added(ss)   == UNION {s.adds : s \in Elements(ss)}
Dropped(ss) == {s.on : s \in {r \in Elements(ss) : r.op = "drop"}}

\* The whole schema of this release.
Complete ==
    (Added(Schema) \cup UNION {Added(Chain[v]) : v \in 1 .. Current})
      \ UNION {Dropped(Chain[v]) : v \in 1 .. Current}

(***************************************************************************)
(* What releases of the past have left: the chain up to their version, but *)
(* for what a migration of that time did not do yet (M004 was empty, the   *)
(* tables of M012 had fewer columns: their comments and those of M014).    *)
(***************************************************************************)
NotYet(v) ==
    (IF v \in 4 .. Current - 1 THEN {{"trust_observations"}} ELSE {})
      \cup (IF v \in 12 .. 13 THEN {{"tokens.token_encrypted", "applications.account_id"}} ELSE {})
      \cup (IF v \in 12 .. 15 THEN {{"applications.phone"}} ELSE {})
      \cup {{}}

Left(v) ==
    {(UNION {Added(Chain[u]) : u \in 1 .. v} \ UNION {Dropped(Chain[u]) : u \in 1 .. v})
        \ missing : missing \in NotYet(v)}

(***************************************************************************)
(* What is true of these statements whoever executes them, which TLC       *)
(* evaluates and proofs build on: SCHEMA only adds, no two of its          *)
(* statements the same; and after it the chain makes the whole schema of   *)
(* whatever a release has left.                                            *)
(***************************************************************************)
\* The statements of SCHEMA that find nothing, and what some of them make.
Lacking(left) == {i \in DOMAIN Schema : Schema[i].on \notin left}
With(left, I) == left \cup UNION {Schema[i].adds : i \in I}

\* What the migrations after version v have made of it by version u.
Migrated(start, v, u) ==
    (start \cup UNION {Added(Chain[w]) : w \in v + 1 .. u})
      \ UNION {Dropped(Chain[w]) : w \in v + 1 .. u}

ASSUME SchemaAssumption ==
    /\ DOMAIN Schema \subseteq Nat
    /\ \A i \in DOMAIN Schema : Schema[i].op \in {"table", "index"}
    /\ \A i, j \in DOMAIN Schema : Schema[i].on \in Schema[j].adds <=> i = j
    /\ Left(Current) = {Complete} /\ Lacking(Complete) = {}

ASSUME ChainAssumption ==
    \A v \in 0 .. Current : \A left \in Left(v) :
       \E start \in {With(left, Lacking(left))} :
          /\ \A u \in v + 1 .. Current :
                Migrated(start, v, u) = ExecutedAll(Migrated(start, v, u - 1), Chain[u])
          /\ Migrated(start, v, Current) = Complete
=============================================================================

-------------------------- MODULE ProviderGovernance --------------------------
(***************************************************************************)
(* The governance rows of one Provider and the decisions taken on them:    *)
(* definition, capability, policy and licence rows, the gates that allow   *)
(* or refuse a sync, and the readiness that a health snapshot records.     *)
(*                                                                         *)
(* Rows are records without their identifiers: the identity of a row is    *)
(* the part of it that its unique constraint names, and its checksum is    *)
(* the row itself.  Every decision is the set of its reasons to refuse.    *)
(***************************************************************************)
EXTENDS Naturals, FiniteSets

CONSTANTS
  NoRow,         \* the absence of a row, of an optional value
  Versions,      \* the versions rows can have
  Amounts,       \* the values of limits and budgets
  Times          \* the readings of the clock

Optional(S) == S \cup {NoRow}

DefinitionStatus == {"DRAFT", "ACTIVE", "SUSPENDED", "RETIRED", "BLOCKED"}

ProductionStatus == {"ENABLED", "CONDITIONAL", "BLOCKED", "TEST_ONLY"}

CapabilityStatus == {"IMPLEMENTED_OFFLINE", "ENABLED", "BLOCKED", "RETIRED"}

LicenseStatus ==
  {"APPROVED", "RESTRICTED_REVIEW_REQUIRED", "BLOCKED", "UNKNOWN_REQUIRES_REVIEW"}

LicensePermission ==
  {"ALLOWED", "PROHIBITED", "UNKNOWN_REQUIRES_REVIEW", "NOT_APPLICABLE"}

ConfigurationStatus == {"VALID", "INVALID", "BLOCKED"}

LicensedUses == {"acquisition", "raw_storage", "cache", "derived_use", "redistribution"}

---------------------------------------------------------------------------
(* The rows, as the tables declare them. *)

ProviderDefinition ==
  [definition_status : DefinitionStatus, production_status : ProductionStatus,
   policy_version : Versions, license_policy_version : Versions]

ProviderCapability == [capability_version : Versions, status : CapabilityStatus]

ProviderPolicy ==
  [policy_version : Versions, network_enabled : BOOLEAN, max_requests : Amounts,
   max_total_bytes : Amounts, max_duration_seconds : Amounts, max_attempts : Amounts,
   cache_ttl_seconds : Optional(Amounts), retention_days : Optional(Amounts)]

ProviderLicensePolicy ==
  [policy_version : Versions, status : LicenseStatus,
   permissions : [LicensedUses -> LicensePermission],
   retention_days : Optional(Amounts), reviewed_at : Times,
   expires_at : Optional(Times)]

ProviderHealthSnapshot ==
  [status : {"READY", "BLOCKED"}, configuration_status : ConfigurationStatus,
   license_status : LicenseStatus, live_validation_passed : BOOLEAN,
   limiting_reasons : SUBSET {"DEFINITION", "PRODUCTION", "CAPABILITY", "LICENSE",
                              "CONFIGURATION", "CIRCUIT", "LIVE_VALIDATION",
                              "LAST_VALIDATION"},
   observed_at : Times]

---------------------------------------------------------------------------
(* What the check constraints of the tables and the row contracts demand. *)

AcceptsPolicy(row) ==
  /\ row.max_requests >= 1
  /\ row.max_total_bytes >= 1
  /\ row.max_duration_seconds >= 1
  /\ row.max_attempts \in 1 .. 3
  /\ row.cache_ttl_seconds # NoRow => row.cache_ttl_seconds >= 1
  /\ row.retention_days # NoRow => row.retention_days >= 1

PolicyContract(row) ==
  /\ row.max_requests \in 1 .. 10000
  /\ row.max_attempts \in 1 .. 3
  /\ row.max_duration_seconds \in 1 .. 86400

AcceptsLicense(row) ==
  /\ row.retention_days # NoRow => row.retention_days \in 1 .. 36500
  /\ row.expires_at # NoRow => row.expires_at > row.reviewed_at

LicenseContract(row) == row.expires_at # NoRow => row.expires_at > row.reviewed_at

---------------------------------------------------------------------------
(* Versioned rows are added once: the same content again is reused, other  *)
(* content under the same identity is a conflict.                          *)

(* The rows with the identity of a new one.  All definitions of the model *)
(* have one code and one definition_version.                              *)
SameDefinition(table) == table

SameCapability(table, row) ==
  {r \in table : r.capability_version = row.capability_version}

SamePolicy(table, row) == {r \in table : r.policy_version = row.policy_version}

(* _idempotent_add, with the rows found under the same identity: the table *)
(* after the call, or {NoRow} for a conflict.                              *)
IdempotentAdd(table, existing, row) ==
  IF existing = {} THEN table \cup {row}
  ELSE IF existing = {row} THEN table
  ELSE {NoRow}

AddDefinition(table, row) == IdempotentAdd(table, SameDefinition(table), row)

AddCapability(table, row) == IdempotentAdd(table, SameCapability(table, row), row)

AddPolicy(table, row) ==
  IF PolicyContract(row) /\ AcceptsPolicy(row)
  THEN IdempotentAdd(table, SamePolicy(table, row), row) ELSE {NoRow}

AddLicensePolicy(table, row) ==
  IF LicenseContract(row) /\ AcceptsLicense(row)
  THEN IdempotentAdd(table, SamePolicy(table, row), row) ELSE {NoRow}

Stored(table) == NoRow \notin table

TheRow(found) == IF found = {} THEN NoRow ELSE CHOOSE r \in found : TRUE

GetDefinition(definitions) == TheRow(definitions)

GetCapability(capabilities, version) ==
  TheRow({c \in capabilities : c.capability_version = version})

GetPolicy(policies, version) == TheRow({p \in policies : p.policy_version = version})

GetLicensePolicy(licenses, version) ==
  TheRow({l \in licenses : l.policy_version = version})

---------------------------------------------------------------------------
(* The gates.  Each is the set of reasons it gives. *)

CapabilityGate(definition, capability) ==
  IF definition.definition_status # "ACTIVE" THEN {"PROVIDER_DEFINITION_NOT_ACTIVE"}
  ELSE IF capability = NoRow THEN {"CAPABILITY_NOT_ALLOWLISTED"}
  ELSE IF capability.status \in {"BLOCKED", "RETIRED"} THEN {"CAPABILITY_NOT_AVAILABLE"}
  ELSE {}

(* A use is [uses, retention_days]: what is requested of the licence. *)
SourceLicenseGate(license, use, evaluatedAt) ==
  IF license.status # "APPROVED" THEN {"LICENSE_STATUS"}
  ELSE IF license.expires_at # NoRow /\ evaluatedAt >= license.expires_at
       THEN {"LICENSE_POLICY_EXPIRED"}
  ELSE {u \in use.uses : license.permissions[u] # "ALLOWED"}
         \cup IF /\ use.retention_days # NoRow
                 /\ license.retention_days # NoRow
                 /\ use.retention_days > license.retention_days
              THEN {"LICENSE_RETENTION_EXCEEDED"} ELSE {}

ExceedsOptional(requested, limit) ==
  requested # NoRow /\ limit # NoRow /\ requested > limit

PolicyGate(policy, budget, use) ==
  {f \in {"max_requests", "max_attempts", "max_duration_seconds"} :
     budget[f] > policy[f]}
  \cup (IF budget.max_bytes > policy.max_total_bytes THEN {"TOTAL_BYTES"} ELSE {})
  \cup (IF use.network /\ ~policy.network_enabled THEN {"NETWORK_DISABLED"} ELSE {})
  \cup (IF "cache" \in use.uses /\ policy.cache_ttl_seconds = NoRow
        THEN {"CACHE_DISABLED"} ELSE {})
  \cup (IF ExceedsOptional(use.retention_days, policy.retention_days)
        THEN {"RETENTION_EXCEEDED"} ELSE {})

ConfigurationGate(definition, capability, policy, license, use) ==
  (IF definition.definition_status # "ACTIVE" THEN {"DEFINITION_NOT_ACTIVE"} ELSE {})
  \cup (IF definition.production_status = "BLOCKED" THEN {"PROVIDER_BLOCKED"} ELSE {})
  \cup (IF capability.status \in {"BLOCKED", "RETIRED"}
        THEN {"CAPABILITY_NOT_AVAILABLE"} ELSE {})
  \cup (IF policy.policy_version # definition.policy_version
        THEN {"POLICY_VERSION_MISMATCH"} ELSE {})
  \cup (IF license.policy_version # definition.license_policy_version
        THEN {"LICENSE_POLICY_VERSION_MISMATCH"} ELSE {})
  \cup (IF license.status # "APPROVED" THEN {"LICENSE_NOT_APPROVED"} ELSE {})
  \cup (IF use.network /\ ~policy.network_enabled THEN {"NETWORK_DISABLED"} ELSE {})
  \cup (IF ExceedsOptional(use.retention_days, policy.retention_days)
        THEN {"POLICY_RETENTION_EXCEEDED"} ELSE {})
  \cup (IF ExceedsOptional(use.retention_days, license.retention_days)
        THEN {"LICENSE_RETENTION_EXCEEDED"} ELSE {})

ConfigurationDecision(reasons) ==
  IF reasons = {} THEN "VALID"
  ELSE IF "PROVIDER_BLOCKED" \in reasons THEN "BLOCKED" ELSE "INVALID"

\* Mutant: the gate looks at the licence's status only.
OfflineGateFailuresUnread(definition, capability, policy, license) ==
  (IF definition.definition_status # "ACTIVE" THEN {"DEFINITION_NOT_ACTIVE"} ELSE {})
  \cup (IF capability.status # "IMPLEMENTED_OFFLINE"
        THEN {"CAPABILITY_NOT_OFFLINE_READY"} ELSE {})
  \cup (IF policy = NoRow THEN {"POLICY_NOT_FOUND"} ELSE {})
  \cup (IF license = NoRow \/ license.status # "APPROVED"
        THEN {"LICENSE_NOT_APPROVED"} ELSE {})

(* The gates of the sync-plan and sync-run commands.  They look at the     *)
(* rows of the versions the operator names, and at fewer of their fields   *)
(* than the gates above.                                                   *)
OfflineGateFailures(definition, capability, policy, license) ==
  (IF definition.definition_status # "ACTIVE" THEN {"DEFINITION_NOT_ACTIVE"} ELSE {})
  \cup (IF capability.status # "IMPLEMENTED_OFFLINE"
        THEN {"CAPABILITY_NOT_OFFLINE_READY"} ELSE {})
  \cup (IF policy = NoRow THEN {"POLICY_NOT_FOUND"}
        ELSE IF policy.network_enabled THEN {"OFFLINE_POLICY_REQUIRES_NETWORK"} ELSE {})
  \cup (IF license = NoRow THEN {"LICENSE_NOT_FOUND"}
        ELSE IF \/ license.status # "APPROVED"
                \/ license.permissions["acquisition"] # "ALLOWED"
             THEN {"LICENSE_NOT_APPROVED"} ELSE {})

---------------------------------------------------------------------------
(* ProviderReadinessService.evaluate and build_health_snapshot.  A context *)
(* is what the caller knows beside the rows: the circuit, whether a live   *)
(* validation passed, and when.                                            *)

LimitingReasons(definition, capability, license, configuration, context, now) ==
  {reason \in {"DEFINITION", "PRODUCTION", "CAPABILITY", "LICENSE", "CONFIGURATION",
               "CIRCUIT", "LIVE_VALIDATION", "LAST_VALIDATION"} :
     CASE reason = "DEFINITION" -> definition.definition_status # "ACTIVE"
       [] reason = "PRODUCTION" -> definition.production_status # "ENABLED"
       [] reason = "CAPABILITY" -> capability.status # "ENABLED"
       [] reason = "LICENSE" -> license.status # "APPROVED"
       [] reason = "CONFIGURATION" -> configuration # "VALID"
       [] reason = "CIRCUIT" -> context.circuit_status # "CLOSED"
       [] reason = "LIVE_VALIDATION" -> ~context.live_validation_passed
       [] reason = "LAST_VALIDATION" -> \/ context.last_validation_at = NoRow
                                        \/ context.last_validation_at > now}

HealthSnapshot(definition, capability, license, configuration, context, now) ==
  LET reasons == LimitingReasons(definition, capability, license, configuration,
                                 context, now)
  IN  [status |-> IF reasons = {} THEN "READY" ELSE "BLOCKED",
       configuration_status |-> configuration,
       license_status |-> license.status,
       live_validation_passed |-> context.live_validation_passed,
       limiting_reasons |-> reasons,
       observed_at |-> now]
=============================================================================

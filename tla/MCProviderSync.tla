---------------------------- MODULE MCProviderSync ----------------------------
(* One Provider with an offline policy and a manifest that asks for the    *)
(* network, a request of two sends at most, and three sessions.            *)
EXTENDS ProviderSync, TLC

MCManifest ==
  [definition |-> [definition_status |-> "ACTIVE", production_status |-> "CONDITIONAL",
                   policy_version |-> 1, license_policy_version |-> 1],
   capability |-> [capability_version |-> 1, status |-> "IMPLEMENTED_OFFLINE"],
   policy |-> [policy_version |-> 1, network_enabled |-> TRUE, max_requests |-> 3,
               max_total_bytes |-> 3, max_duration_seconds |-> 3, max_attempts |-> 3,
               cache_ttl_seconds |-> NoRow, retention_days |-> 3]]

MCRegistrations ==
  {[MCManifest.policy EXCEPT !.network_enabled = FALSE, !.cache_ttl_seconds = 1]}

Approved == [u \in LicensedUses |-> "ALLOWED"]

MCLicenseRows ==
  {[policy_version |-> 1, status |-> "APPROVED", permissions |-> Approved,
    retention_days |-> NoRow, reviewed_at |-> 0, expires_at |-> NoRow],
   [policy_version |-> 1, status |-> "RESTRICTED_REVIEW_REQUIRED", permissions |-> Approved,
    retention_days |-> 1, reviewed_at |-> 0, expires_at |-> 1]}

MCRequests ==
  {[policy |-> 1, license |-> 1, range_start |-> 0, range_end |-> 0,
    research_as_of_time |-> 0, security |-> "ACME", universe |-> NoRow,
    budget |-> [max_requests |-> 2, max_bytes |-> 3, max_attempts |-> 2,
                max_duration_seconds |-> 1],
    use |-> [uses |-> {"acquisition", "cache"}, network |-> FALSE, retention_days |-> 1]]}

MCDrafts ==
  {<<[id |-> "A", depends_on |-> {}], [id |-> "B", depends_on |-> {"A"}]>>,
   <<[id |-> "A", depends_on |-> {"B"}], [id |-> "B", depends_on |-> {}]>>}

MCResponses ==
  {[checksum |-> "c1", bytes |-> 1, published |-> NoRow, records |-> 2, defects |-> {}],
   [checksum |-> "c2", bytes |-> 2, published |-> 0, records |-> 1,
    defects |-> {"DECIMAL"}]}

MCHealthContexts ==
  {[circuit_status |-> "CLOSED", live_validation_passed |-> TRUE, last_validation_at |-> 0],
   [circuit_status |-> "OPEN", live_validation_passed |-> FALSE,
    last_validation_at |-> NoRow]}

MCTimes == 0 .. 1

MCVersions == {1}

MCAmounts == 1 .. 3

Symmetry == Permutations(Sessions)
=============================================================================

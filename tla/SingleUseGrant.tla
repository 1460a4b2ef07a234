--------------------------- MODULE SingleUseGrant ---------------------------
(***************************************************************************)
(* What a live authorization grant promises, with no process, no table and *)
(* no network: it can be withdrawn until it is used, it is used once, use  *)
(* costs at most Budget requests, and a verdict ends it for good.          *)
(***************************************************************************)
EXTENDS Naturals

CONSTANT Budget     \* requests one use may cost

VARIABLES phase, requests, verdict
grant == <<phase, requests, verdict>>

GrantInit ==
    /\ phase = "available"
    /\ requests = 0
    /\ verdict = "none"

Withdraw ==
    /\ phase = "available"
    /\ phase' = "withdrawn"
    /\ UNCHANGED <<requests, verdict>>

\* Use and the first request are one event: no use without a request.
Use ==
    /\ phase = "available"
    /\ phase' = "used"
    /\ requests' = 1
    /\ UNCHANGED verdict

Request ==
    /\ phase = "used" /\ verdict = "none"
    /\ requests < Budget
    /\ requests' = requests + 1
    /\ UNCHANGED <<phase, verdict>>

\* A positive verdict needs one request per planned resource.
Conclude ==
    /\ phase = "used" /\ verdict = "none"
    /\ verdict' \in {"PASSED", "BLOCKED"}
    /\ verdict' = "PASSED" => requests >= 3
    /\ UNCHANGED <<phase, requests>>

GrantNext == Withdraw \/ Use \/ Request \/ Conclude

GrantSpec == GrantInit /\ [][GrantNext]_grant
=============================================================================

---------------------------- MODULE ReportsProofs ----------------------------
(***************************************************************************)
(* The safety properties of Reports for any number of processes, any       *)
(* packages and any length of the version chains.  Every row an invocation *)
(* will insert is lawful from the moment it is computed, against committed *)
(* rows that are never changed or removed; the uniqueness constraints of   *)
(* the schema decide the rest when it commits.  ReleaseInv says what a     *)
(* published report rests on, LineageInv what a successor takes over from  *)
(* its predecessor, BodyInv what revisions can do to a body.               *)
(***************************************************************************)
EXTENDS Reports, FiniteSetTheorems, WellFoundedInduction, TLAPS

(***************************************************************************)
(* What every row says, committed or not.  Every part is stated of the     *)
(* rows a transaction would leave behind: the committed ones and its own.  *)
(***************************************************************************)

\* Requests seal the one package; a run is of the request with its key.
RequestsOK(reqs) == \A q \in reqs : q.manifest = Manifest(package)

RunsOK(reqs, gens) == \A g \in gens : g.request = g.key /\ \E q \in reqs : q.key = g.key

OwnersOK(gens, reps) == \A r \in reps : \E g \in gens : g.key = r.run

ReflectionsOK(refls) == \A x \in refls : x.status = "FINDINGS" \/ x.findings = {}

\* Why a published report may be published, given the committed reflections.
Examined(s, gs) ==
  /\ package.status = "COMPLETE" /\ ProvenanceConsistent(Manifest(package))
  /\ \E x \in reflections : x.report = s.prev /\ x.round = 2 /\ x.seen = s.content /\ x.findings = {}
  /\ \E g \in gs : g.candidate = s.prev /\ g.sealed = s.id

ExaminedOK(reps, gs) == \A s \in reps : s.status = "PUBLISHABLE" => Examined(s, gs)

SoundEvidence(e) ==
  /\ EvidenceInfo[e].own /\ EvidenceInfo[e].published # "FUTURE"
  /\ package.mode = "REAL_RESEARCH" => EvidenceInfo[e].synthetic \in {"REAL_VERIFIED", "FIXTURE_REAL_EXCERPT"}
  /\ EvidenceInfo[e].cited => EvidenceInfo[e].status = "VALID"

EvidenceOK(reps) == \A r \in reps : \A eb \in r.evB : SoundEvidence(eb[2])

\* The rows of one transaction, on top of the committed ones.
RowsLawful(rows) ==
  /\ RequestsOK(rows.requests)
  /\ RunsOK(rows.requests, rows.runs)
  /\ OwnersOK(runs \cup rows.runs, rows.reports)
  /\ ReflectionsOK(rows.reflections)
  /\ ExaminedOK(rows.reports, rows.gates)
  /\ EvidenceOK(rows.reports)

ReleaseInv ==
  /\ package \in Packages /\ DOMAIN tx = Procs
  /\ RequestsOK(requests)
  /\ RunsOK(requests, runs)
  /\ OwnersOK(runs, reports)
  /\ ReflectionsOK(reflections)
  /\ ExaminedOK(reports, gates)
  /\ EvidenceOK(reports)
  /\ \A p \in Procs : tx[p] # NoId => RowsLawful(tx[p])

LEMMA ReleaseInit == Init => ReleaseInv
BY DEF Init, ReleaseInv, RequestsOK, RunsOK, OwnersOK, ReflectionsOK, ExaminedOK, EvidenceOK

\* The request of a committed report seals the package.
LEMMA RequestSealed ==
  ASSUME ReleaseInv, NEW r \in reports PROVE RequestOf(r).manifest = Manifest(package)
<1>1. PICK g0 \in runs : g0.key = r.run
    BY DEF ReleaseInv, OwnersOK
<1>2. PICK g : g = CHOOSE h \in runs : h.key = r.run
    OBVIOUS
<1>3. g \in runs /\ g.key = r.run
    BY <1>1, <1>2
<1>4. \E q \in requests : q.key = g.request
    BY <1>3 DEF ReleaseInv, RunsOK
<1>5. PICK q : q = CHOOSE o \in requests : o.key = g.request
    OBVIOUS
<1>6. q \in requests
    BY <1>4, <1>5
<1>7. RequestOf(r) = q
    BY <1>2, <1>5 DEF RequestOf
<1> QED
    BY <1>6, <1>7 DEF ReleaseInv, RequestsOK

\* A step that only inserts rows keeps lawful rows lawful.
LEMMA RowsStayLawful ==
  ASSUME NEW rows, RowsLawful(rows), package' = package,
         runs \subseteq runs', reflections \subseteq reflections'
  PROVE  RowsLawful(rows)'
<1>1. PICK m : m = Manifest(package)
    OBVIOUS
<1>2. Manifest(package)' = m
    BY <1>1 DEF Manifest, AggregateSynthetic
<1> QED
  <2>1. RequestsOK(rows.requests)'
      BY <1>1, <1>2 DEF RowsLawful, RequestsOK
  <2>2. RunsOK(rows.requests, rows.runs)'
      BY DEF RowsLawful, RunsOK
  <2>3. OwnersOK(runs \cup rows.runs, rows.reports)'
      BY DEF RowsLawful, OwnersOK
  <2>4. ReflectionsOK(rows.reflections)'
      BY DEF RowsLawful, ReflectionsOK
  <2>5. ExaminedOK(rows.reports, rows.gates)'
      BY <1>1, <1>2 DEF RowsLawful, ExaminedOK, Examined
  <2>6. EvidenceOK(rows.reports)'
      BY DEF RowsLawful, EvidenceOK, SoundEvidence
  <2> QED
      BY <2>1, <2>2, <2>3, <2>4, <2>5, <2>6 DEF RowsLawful

\* An invocation that computes lawful rows.
LEMMA BeginLawful ==
  ASSUME ReleaseInv, NEW p \in Procs, NEW rows, Begin(p, rows), RowsLawful(rows)
  PROVE  ReleaseInv'
<1>1. package' = package /\ requests' = requests /\ runs' = runs /\ reports' = reports
      /\ reflections' = reflections /\ gates' = gates /\ tx' = [tx EXCEPT ![p] = rows]
    BY DEF Begin, tables
<1>2. RowsLawful(rows)'
    BY <1>1, RowsStayLawful
<1>3. ASSUME NEW q \in Procs, tx'[q] # NoId PROVE RowsLawful(tx[q])'
  <2>1. CASE q = p
      BY <1>1, <1>2, <2>1 DEF ReleaseInv
  <2>2. CASE q # p
    <3>1. PICK old : old = tx[q]
        OBVIOUS
    <3>2. tx'[q] = old
        BY <1>1, <2>2, <3>1 DEF ReleaseInv
    <3>3. RowsLawful(old)
        BY <1>3, <3>1, <3>2 DEF ReleaseInv
    <3>4. RowsLawful(old)'
        BY <1>1, <3>3, RowsStayLawful
    <3> QED
        BY <3>2, <3>4
  <2> QED
      BY <2>1, <2>2
<1>4. PICK m : m = Manifest(package)
    OBVIOUS
<1>5. Manifest(package)' = m
    BY <1>1, <1>4 DEF Manifest, AggregateSynthetic
<1>6. RequestsOK(requests)' /\ ExaminedOK(reports, gates)'
    BY <1>1, <1>4, <1>5 DEF ReleaseInv, RequestsOK, ExaminedOK, Examined
<1>7. RunsOK(requests, runs)' /\ OwnersOK(runs, reports)' /\ ReflectionsOK(reflections)' /\ EvidenceOK(reports)'
    BY <1>1 DEF ReleaseInv, RunsOK, OwnersOK, ReflectionsOK, EvidenceOK, SoundEvidence
<1>8. package' \in Packages /\ DOMAIN tx' = Procs
    BY <1>1 DEF ReleaseInv
<1> QED
    BY <1>3, <1>6, <1>7, <1>8 DEF ReleaseInv

\* The rows of one kind when no other row is inserted.
LEMMA NoRowsLawful == RowsLawful(NoRows)
BY DEF RowsLawful, NoRows, RequestsOK, RunsOK, OwnersOK, ReflectionsOK, ExaminedOK, EvidenceOK

\* Composition binds a claim to evidence that the input verification accepted.
LEMMA ComposedEvidenceSound ==
  ASSUME package \in Packages, InputValid(package),
         NEW eb \in ComposedEvidence(Manifest(package))
  PROVE  SoundEvidence(eb[2])
<1>1. Manifest(package).claims = package.claims
    BY DEF Manifest
<1>2. PICK c \in Range(package.claims) : ~IsLimitation(c) /\ eb = << c, ClaimInfo[c].links[1] >>
    BY <1>1 DEF ComposedEvidence
<1>3. c \in Claims
    BY PackagesAssumption DEF Range
<1>4. ClaimInfo[c].support \in Supports /\ ClaimInfo[c].links \in Seq(Evidence)
    BY <1>3, ClaimInfoAssumption
<1>5. ClaimInfo[c].support \in {"SUPPORTED", "PARTIALLY_SUPPORTED", "CONFLICTING"}
    BY <1>2, <1>4 DEF IsLimitation, Supports
<1>6. ClaimInfo[c].links # << >> /\ Range(ClaimInfo[c].links) \subseteq package.evidence
    BY <1>2, <1>5 DEF InputValid, LinksValid
<1>7. PICK e : e = ClaimInfo[c].links[1]
    OBVIOUS
<1>8. e \in Evidence /\ e \in Range(ClaimInfo[c].links)
    BY <1>4, <1>6, <1>7 DEF Range
<1>9. e \in package.evidence /\ eb[2] = e
    BY <1>2, <1>6, <1>7, <1>8
<1> QED
    BY <1>8, <1>9, EvidenceInfoAssumption DEF InputValid, EvidenceValid, CitationsValid, SoundEvidence

LEMMA GenerateLawful ==
  ASSUME ReleaseInv, NEW p \in Procs, NEW t \in ReportTypes, BeginGenerate(p, t)
  PROVE  ReleaseInv'
<1>1. PICK m : m = Manifest(package)
    OBVIOUS
<1>2. PICK report : report = ComposedReport(m, t)
    OBVIOUS
<1>3. PICK outcome : outcome = GenerationOutcome(report.status)
    OBVIOUS
<1>4. PICK rows : rows = [NoRows EXCEPT !.requests = {[key |-> t, manifest |-> m]},
                                        !.runs = {[key |-> t, request |-> t, status |-> outcome]},
                                        !.reports = {report}]
    OBVIOUS
<1>5. InputValid(package) /\ Begin(p, rows)
    BY <1>1, <1>2, <1>3, <1>4 DEF BeginGenerate
<1>6. /\ rows.requests = {[key |-> t, manifest |-> m]}
      /\ rows.runs = {[key |-> t, request |-> t, status |-> outcome]}
      /\ rows.reports = {report} /\ rows.reflections = {} /\ rows.gates = {}
    BY <1>4 DEF NoRows
<1>7. report.run = t /\ report.evB = ComposedEvidence(m) /\ report.status = ComposedStatus(m)
    BY <1>2 DEF ComposedReport
<1>8. SealedPackage(package)
    BY <1>5 DEF InputValid
<1>9. EvidenceOK(rows.reports)
    BY <1>1, <1>5, <1>6, <1>7, ComposedEvidenceSound DEF EvidenceOK, ReleaseInv
<1>10. report.status # "PUBLISHABLE"
  <2>1. outcome # "INVALID"
      BY <1>1, <1>2, <1>3 DEF BeginGenerate, GenerationTransition
  <2>2. report.status = "PUBLISHABLE" => GenerationOutcome(report.status) = "INVALID"
    <3> SUFFICES ASSUME NEW s, s = "PUBLISHABLE" PROVE GenerationOutcome(s) = "INVALID"
        OBVIOUS
    <3>1. s # "DRAFT" /\ s \notin {"PARTIAL", "BLOCKED"}
        OBVIOUS
    <3> QED
        BY <3>1 DEF GenerationOutcome
  <2> QED
      BY <1>3, <2>1, <2>2
<1>11. RequestsOK(rows.requests) /\ ReflectionsOK(rows.reflections)
    BY <1>1, <1>6 DEF RequestsOK, ReflectionsOK
<1>12. RunsOK(rows.requests, rows.runs)
    BY <1>6 DEF RunsOK
<1>13. OwnersOK(runs \cup rows.runs, rows.reports) /\ ExaminedOK(rows.reports, rows.gates)
  <2>1. \E g \in rows.runs : g.key = t
      BY <1>6
  <2> QED
      BY <1>6, <1>7, <1>10, <2>1 DEF OwnersOK, ExaminedOK
<1>14. RowsLawful(rows)
    BY <1>9, <1>11, <1>12, <1>13 DEF RowsLawful
<1> QED
    BY <1>5, <1>14, BeginLawful

LEMMA ReflectLawful ==
  ASSUME ReleaseInv, NEW p \in Procs, NEW r \in reports, NEW round \in 1..2, BeginReflect(p, r, round)
  PROVE  ReleaseInv'
<1>1. PICK findings : findings = ReflectionFindings(r, RequestOf(r).manifest)
    OBVIOUS
<1>2. PICK status : status = ReflectionOutcome(findings)
    OBVIOUS
<1>3. PICK rows : rows = [NoRows EXCEPT !.reflections =
                            {[report |-> r.id, round |-> round, seen |-> r.content, findings |-> findings,
                              status |-> status]}]
    OBVIOUS
<1>4. Begin(p, rows)
    BY <1>1, <1>2, <1>3 DEF BeginReflect
<1>5. status = "FINDINGS" \/ findings = {}
    BY <1>2 DEF ReflectionOutcome
<1>6. /\ rows.requests = {} /\ rows.runs = {} /\ rows.reports = {} /\ rows.gates = {}
      /\ rows.reflections = {[report |-> r.id, round |-> round, seen |-> r.content, findings |-> findings,
                              status |-> status]}
    BY <1>3 DEF NoRows
<1>7. RowsLawful(rows)
    BY <1>5, <1>6 DEF RowsLawful, RequestsOK, RunsOK, OwnersOK, ReflectionsOK, ExaminedOK, EvidenceOK
<1> QED
    BY <1>4, <1>7, BeginLawful

LEMMA ReviseLawful ==
  ASSUME ReleaseInv, NEW p \in Procs, NEW r \in reports, NEW x \in reflections, BeginRevise(p, r, x)
  PROVE  ReleaseInv'
<1>1. PICK revised \in {ReviseContent(r.content, order) : order \in SetToSeqs(Handled(x.findings))} :
         LET target == RevisionTarget(r, revised.content)
             left   == x.findings \ revised.applied
         IN  Begin(p, [NoRows EXCEPT
                !.reports = {target},
                !.revisions = {[source |-> r.id, target |-> target.id, applied |-> revised.applied,
                                unresolved |-> left, status |-> RevisionOutcome(left)]}])
    BY DEF BeginRevise
<1>2. PICK target : target = RevisionTarget(r, revised.content)
    OBVIOUS
<1>3. PICK vs : vs = {[source |-> r.id, target |-> target.id, applied |-> revised.applied,
                       unresolved |-> x.findings \ revised.applied,
                       status |-> RevisionOutcome(x.findings \ revised.applied)]}
    OBVIOUS
<1>4. PICK rows : rows = [NoRows EXCEPT !.reports = {target}, !.revisions = vs]
    OBVIOUS
<1>5. Begin(p, rows)
    BY <1>1, <1>2, <1>3, <1>4
<1>6. /\ rows.requests = {} /\ rows.runs = {} /\ rows.reports = {target} /\ rows.reflections = {} /\ rows.gates = {}
    BY <1>4 DEF NoRows
<1>7. target.run = r.run /\ target.evB \subseteq r.evB /\ target.status = "REVISED"
    BY <1>2 DEF RevisionTarget, RebaseEvidence
<1>8. RowsLawful(rows)
    BY <1>6, <1>7 DEF ReleaseInv, RowsLawful, RequestsOK, RunsOK, OwnersOK, ReflectionsOK, ExaminedOK, EvidenceOK
<1> QED
    BY <1>5, <1>8, BeginLawful

LEMMA ReleaseLawful ==
  ASSUME ReleaseInv, NEW p \in Procs, NEW r \in reports, NEW x \in reflections, BeginRelease(p, r, x)
  PROVE  ReleaseInv'
<1>1. PICK m : m = RequestOf(r).manifest
    OBVIOUS
<1>2. PICK decision : decision = Decision(m, r, x)
    OBVIOUS
<1>3. PICK sealed : sealed = SealedReport(r)
    OBVIOUS
<1>4. PICK reps : reps = IF decision = "PUBLISHABLE" THEN {sealed} ELSE {}
    OBVIOUS
<1>5. PICK gs : gs = {[candidate |-> r.id, reflection |-> << x.report, x.round >>, decision |-> decision,
                       sealed |-> IF decision = "PUBLISHABLE" THEN sealed.id ELSE NoId]}
    OBVIOUS
<1>6. PICK rows : rows = [NoRows EXCEPT !.reports = reps, !.gates = gs]
    OBVIOUS
<1>7. Begin(p, rows)
    BY <1>1, <1>2, <1>3, <1>4, <1>5, <1>6 DEF BeginRelease
<1>8. /\ rows.requests = {} /\ rows.runs = {} /\ rows.reports = reps /\ rows.reflections = {} /\ rows.gates = gs
    BY <1>6 DEF NoRows
<1>9. /\ sealed.run = r.run /\ sealed.evB \subseteq r.evB /\ sealed.content = r.content
    BY <1>3 DEF SealedReport, RebaseEvidence
<1>10. decision = "PUBLISHABLE" => sealed.prev = r.id
    BY <1>1, <1>2, <1>3 DEF BeginRelease, ValidSuccessor
<1>11. ASSUME decision = "PUBLISHABLE" PROVE Examined(sealed, gs)
  <2>1. m.status = "COMPLETE" /\ ProvenanceConsistent(m) /\ RoundTwoCompleted(r, x) /\ x.status # "FINDINGS"
      BY <1>2, <1>11 DEF Decision, RequirementsMet
  <2>2. m = Manifest(package) /\ m.status = package.status
      BY <1>1, RequestSealed DEF Manifest
  <2>3. x.report = sealed.prev /\ x.round = 2 /\ x.seen = sealed.content /\ x.findings = {}
      BY <1>9, <1>10, <1>11, <2>1 DEF RoundTwoCompleted, ReleaseInv, ReflectionsOK
  <2>4. \E g \in gs : g.candidate = sealed.prev /\ g.sealed = sealed.id
      BY <1>5, <1>10, <1>11
  <2> QED
      BY <2>1, <2>2, <2>3, <2>4 DEF Examined
<1>12. EvidenceOK(reps) /\ OwnersOK(runs, reps) /\ ExaminedOK(reps, gs)
    BY <1>4, <1>9, <1>11 DEF ReleaseInv, EvidenceOK, OwnersOK, ExaminedOK
<1>13. RowsLawful(rows)
    BY <1>8, <1>12 DEF RowsLawful, RequestsOK, RunsOK, OwnersOK, ReflectionsOK
<1> QED
    BY <1>7, <1>13, BeginLawful

\* Committing lawful rows.
LEMMA CommitLawful ==
  ASSUME ReleaseInv, NEW p \in Procs, Commit(p) PROVE ReleaseInv'
<1>1. PICK rows : rows = tx[p]
    OBVIOUS
<1>2. /\ package' = package /\ requests' = requests \cup rows.requests /\ runs' = runs \cup rows.runs
      /\ reports' = reports \cup rows.reports /\ reflections' = reflections \cup rows.reflections
      /\ gates' = gates \cup rows.gates /\ tx' = [tx EXCEPT ![p] = NoId]
    BY <1>1 DEF Commit
<1>3. RowsLawful(rows)
    BY <1>1 DEF Commit, ReleaseInv
<1>4. ASSUME NEW q \in Procs, tx'[q] # NoId PROVE RowsLawful(tx[q])'
  <2>1. q # p
      BY <1>2, <1>4 DEF ReleaseInv
  <2>2. PICK old : old = tx[q]
      OBVIOUS
  <2>3. tx'[q] = old
      BY <1>2, <2>1, <2>2 DEF ReleaseInv
  <2>4. RowsLawful(old)
      BY <1>4, <2>2, <2>3 DEF ReleaseInv
  <2>5. RowsLawful(old)'
      BY <1>2, <2>4, RowsStayLawful
  <2> QED
      BY <2>3, <2>5
<1>5. PICK m : m = Manifest(package)
    OBVIOUS
<1>6. Manifest(package)' = m
    BY <1>2, <1>5 DEF Manifest, AggregateSynthetic
<1>7. RequestsOK(requests)'
    BY <1>2, <1>3, <1>5, <1>6 DEF ReleaseInv, RowsLawful, RequestsOK
<1>8. RunsOK(requests, runs)' /\ ReflectionsOK(reflections)'
    BY <1>2, <1>3 DEF ReleaseInv, RowsLawful, RunsOK, ReflectionsOK
<1>9. OwnersOK(runs, reports)'
    BY <1>2, <1>3 DEF ReleaseInv, RowsLawful, OwnersOK
<1>10. EvidenceOK(reports)'
    BY <1>2, <1>3 DEF ReleaseInv, RowsLawful, EvidenceOK, SoundEvidence
<1>11. ExaminedOK(reports, gates)'
    BY <1>2, <1>3, <1>5, <1>6 DEF ReleaseInv, RowsLawful, ExaminedOK, Examined
<1>12. package' \in Packages /\ DOMAIN tx' = Procs
    BY <1>2 DEF ReleaseInv
<1> QED
    BY <1>4, <1>7, <1>8, <1>9, <1>10, <1>11, <1>12 DEF ReleaseInv

\* A step that changes no table and drops transactions at most.
LEMMA QuietLawful ==
  ASSUME ReleaseInv, package' = package, UNCHANGED tables, DOMAIN tx' = Procs,
         \A q \in Procs : tx'[q] = NoId \/ tx'[q] = tx[q]
  PROVE  ReleaseInv'
<1>1. /\ package' = package /\ requests' = requests /\ runs' = runs /\ reports' = reports
      /\ reflections' = reflections /\ gates' = gates
    BY DEF tables
<1>2. ASSUME NEW q \in Procs, tx'[q] # NoId PROVE RowsLawful(tx[q])'
  <2>1. PICK old : old = tx[q]
      OBVIOUS
  <2>2. tx'[q] = old
      BY <1>2, <2>1
  <2>3. RowsLawful(old)
      BY <1>2, <2>1, <2>2 DEF ReleaseInv
  <2>4. RowsLawful(old)'
      BY <1>1, <2>3, RowsStayLawful
  <2> QED
      BY <2>2, <2>4
<1>3. PICK m : m = Manifest(package)
    OBVIOUS
<1>4. Manifest(package)' = m
    BY <1>1, <1>3 DEF Manifest, AggregateSynthetic
<1>5. RequestsOK(requests)' /\ ExaminedOK(reports, gates)'
    BY <1>1, <1>3, <1>4 DEF ReleaseInv, RequestsOK, ExaminedOK, Examined
<1>6. RunsOK(requests, runs)' /\ OwnersOK(runs, reports)' /\ ReflectionsOK(reflections)' /\ EvidenceOK(reports)'
    BY <1>1 DEF ReleaseInv, RunsOK, OwnersOK, ReflectionsOK, EvidenceOK, SoundEvidence
<1> QED
    BY <1>1, <1>2, <1>5, <1>6 DEF ReleaseInv

LEMMA ReleaseStep == ReleaseInv /\ [Next]_vars => ReleaseInv'
<1> SUFFICES ASSUME ReleaseInv, [Next]_vars PROVE ReleaseInv'
    OBVIOUS
<1>1. CASE UNCHANGED vars \/ SeedPolicy \/ SeedReflectionPolicy \/ SeedTemplates
    BY <1>1, QuietLawful DEF vars, SeedPolicy, SeedReflectionPolicy, SeedTemplates, Seed, ReleaseInv
<1>2. ASSUME NEW p \in Procs, Abort(p) PROVE ReleaseInv'
  <2>1. \A q \in Procs : tx'[q] = NoId \/ tx'[q] = tx[q]
      BY <1>2 DEF Abort, ReleaseInv
  <2> QED
      BY <1>2, <2>1, QuietLawful DEF Abort, ReleaseInv
<1> QED
    BY <1>1, <1>2, GenerateLawful, ReflectLawful, ReviseLawful, ReleaseLawful, CommitLawful DEF Next

\* A report is published only in the form a second reflection round examined
\* and found nothing in, for a complete package of consistent provenance, and
\* with its gate on record (ReportReleaseGate.evaluate).
THEOREM PublicationExamined == Spec => []SealedIsExamined
<1>1. ReleaseInv => SealedIsExamined
    BY DEF ReleaseInv, ExaminedOK, Examined, SealedIsExamined, Published
<1> QED
    BY <1>1, ReleaseInit, ReleaseStep, PTL DEF Spec

\* The evidence a published report is bound to is evidence that the input
\* verification of its generation accepted (input_verification.py).
THEOREM PublicationSound == Spec => []PublishedEvidenceSound
<1>1. ReleaseInv => PublishedEvidenceSound
    BY DEF ReleaseInv, EvidenceOK, SoundEvidence, PublishedEvidenceSound, Published
<1> QED
    BY <1>1, ReleaseInit, ReleaseStep, PTL DEF Spec

(***************************************************************************)
(* The blocks of a report.  Induction over the natural numbers is stated   *)
(* with a set, which is how the recursive functions of Reports are shown   *)
(* to exist and to have the type they should.                              *)
(***************************************************************************)
LEMMA NatSetInduction ==
  ASSUME NEW S, 0 \in S, \A n \in Nat : n \in S => n + 1 \in S
  PROVE  Nat \subseteq S
<1> SUFFICES ASSUME ~ (Nat \subseteq S) PROVE FALSE
    OBVIOUS
<1> DEFINE T == {n \in Nat : n \notin S}
<1> DEFINE R == OpToRel(<, Nat)
<1>1. T # {} /\ T \subseteq Nat
    OBVIOUS
<1>2. IsWellFoundedOn(R, Nat)
    BY NatLessThanWellFounded
<1>3. PICK x \in T : \A y \in T : << y, x >> \notin R
  <2> HIDE DEF T, R
  <2> QED
      BY <1>1, <1>2, WFMin
<1>4. \A y \in T : ~(y < x)
    BY <1>1, <1>3 DEF OpToRel
<1>5. x \in Nat /\ x \notin S
    BY <1>3
<1>6. x # 0 /\ x - 1 \in Nat
    BY <1>5
<1>7. x - 1 \in S
    BY <1>4, <1>5, <1>6
<1> QED
    BY <1>5, <1>6, <1>7

\* The same below a bound.
LEMMA BoundedInduction ==
  ASSUME NEW N \in Nat, NEW S, 0 \in S, \A n \in 1..N : n - 1 \in S => n \in S
  PROVE  0..N \subseteq S
<1> DEFINE T == {n \in Nat : n <= N => n \in S}
<1>1. 0 \in T
    OBVIOUS
<1>2. ASSUME NEW n \in Nat, n \in T PROVE n + 1 \in T
  <2> SUFFICES ASSUME n + 1 <= N PROVE n + 1 \in S
      OBVIOUS
  <2>1. n + 1 \in 1..N /\ (n + 1) - 1 \in S
      BY <1>2
  <2> QED
      BY <2>1
<1>3. Nat \subseteq T
  <2> HIDE DEF T
  <2> QED
      BY <1>1, <1>2, NatSetInduction
<1> QED
    BY <1>3

\* f is the iteration of step on base.
Iterates(f, base, step, m) == f[0] = base /\ \A n \in 1..m : f[n] = step[<< f[n - 1], n >>]

\* A step can be iterated: what a definition by recursion needs to be one.
LEMMA Iteration ==
  ASSUME NEW T, NEW base \in T, NEW N \in Nat, NEW step \in [T \X (1..N) -> T]
  PROVE  \E f \in [0..N -> T] : Iterates(f, base, step, N)
<1> DEFINE G == {m \in 0..N : \E f \in [0..m -> T] : Iterates(f, base, step, m)}
<1>1. 0 \in G
  <2> DEFINE f == [n \in 0..0 |-> base]
  <2>1. f \in [0..0 -> T] /\ Iterates(f, base, step, 0)
      BY DEF Iterates
  <2> HIDE DEF f
  <2> QED
      BY <2>1
<1>2. ASSUME NEW m \in 1..N, m - 1 \in G PROVE m \in G
  <2>1. PICK f \in [0..m - 1 -> T] : Iterates(f, base, step, m - 1)
      BY <1>2
  <2>2. PICK last : last = step[<< f[m - 1], m >>]
      OBVIOUS
  <2>3. last \in T
    <3>1. f[m - 1] \in T
        OBVIOUS
    <3>2. << f[m - 1], m >> \in T \X (1..N)
        BY <3>1
    <3> QED
        BY <2>2, <3>2
  <2> DEFINE g == [n \in 0..m |-> IF n = m THEN last ELSE f[n]]
  <2>4. g \in [0..m -> T]
      BY <2>3
  <2>5. g[m] = last /\ \A n \in 0..m - 1 : g[n] = f[n]
      OBVIOUS
  <2> HIDE DEF g
  <2>6. g[0] = base
      BY <2>1, <2>5 DEF Iterates
  <2>7. ASSUME NEW n \in 1..m PROVE g[n] = step[<< g[n - 1], n >>]
    <3>1. CASE n = m
        BY <2>2, <2>5, <3>1
    <3>2. CASE n # m
      <4>1. n \in 1..m - 1 /\ n - 1 \in 0..m - 1 /\ n \in 0..m - 1
          BY <3>2
      <4>2. f[n] = step[<< f[n - 1], n >>]
          BY <2>1, <4>1 DEF Iterates
      <4> QED
          BY <2>5, <4>1, <4>2
    <3> QED
        BY <3>1, <3>2
  <2>8. Iterates(g, base, step, m)
      BY <2>6, <2>7 DEF Iterates
  <2> QED
      BY <2>4, <2>8
<1>3. N \in G
  <2> HIDE DEF G
  <2>1. 0..N \subseteq G
      BY <1>1, <1>2, BoundedInduction
  <2> QED
      BY <2>1
<1> QED
    BY <1>3

\* The function by which At is defined.
Keeps(f, s, I) ==
  f = [n \in 0..Len(s) |-> IF n = 0 THEN << >> ELSE IF n \in I THEN Append(f[n - 1], s[n]) ELSE f[n - 1]]

\* At computes what its recursion says.
LEMMA AtUnfolds ==
  ASSUME NEW S, NEW s \in Seq(S), NEW I
  PROVE  \E kept : /\ At(s, I) = kept[Len(s)]
                   /\ \A n \in 0..Len(s) :
                        /\ kept[n] \in Seq(S)
                        /\ kept[n] = IF n = 0 THEN << >>
                                     ELSE IF n \in I THEN Append(kept[n - 1], s[n]) ELSE kept[n - 1]
<1>1. PICK N \in Nat : N = Len(s)
    OBVIOUS
<1>2. \A n \in 1..N : s[n] \in S
    BY <1>1
<1> DEFINE step == [x \in Seq(S) \X (1..N) |-> IF x[2] \in I THEN Append(x[1], s[x[2]]) ELSE x[1]]
<1>3. step \in [Seq(S) \X (1..N) -> Seq(S)]
    BY <1>2
<1>4. \A a \in Seq(S), n \in 1..N : step[<< a, n >>] = IF n \in I THEN Append(a, s[n]) ELSE a
    OBVIOUS
<1> HIDE DEF step
<1>5. << >> \in Seq(S)
    OBVIOUS
<1>6. PICK f \in [0..N -> Seq(S)] : Iterates(f, << >>, step, N)
    BY <1>3, <1>5, Iteration
<1>7. \A n \in 0..N : f[n] = IF n = 0 THEN << >> ELSE IF n \in I THEN Append(f[n - 1], s[n]) ELSE f[n - 1]
  <2> TAKE n \in 0..N
  <2>1. CASE n = 0
      BY <1>6, <2>1 DEF Iterates
  <2>2. CASE n # 0
    <3>1. n \in 1..N /\ f[n - 1] \in Seq(S)
        BY <2>2
    <3>2. f[n] = step[<< f[n - 1], n >>]
        BY <1>6, <3>1 DEF Iterates
    <3> QED
        BY <1>4, <2>2, <3>1, <3>2
  <2> QED
      BY <2>1, <2>2
<1>8. Keeps(f, s, I)
    BY <1>1, <1>7 DEF Keeps
<1> DEFINE kept == CHOOSE g : Keeps(g, s, I)
<1>9. Keeps(kept, s, I)
    BY <1>8
<1>10. At(s, I) = kept[N]
    BY <1>1 DEF At, Keeps
<1> HIDE DEF kept
<1>11. \A n \in 0..N : kept[n] = IF n = 0 THEN << >> ELSE IF n \in I THEN Append(kept[n - 1], s[n]) ELSE kept[n - 1]
    BY <1>1, <1>9 DEF Keeps
<1> DEFINE Typed == {n \in 0..N : kept[n] \in Seq(S)}
<1>12. 0 \in Typed
  <2>1. kept[0] = << >>
      BY <1>11
  <2>2. kept[0] \in Seq(S)
      BY <1>5, <2>1, Zenon
  <2> QED
      BY <2>2
<1>13. ASSUME NEW n \in 1..N, n - 1 \in Typed PROVE n \in Typed
  <2>1. kept[n - 1] \in Seq(S)
      BY <1>13
  <2>2. kept[n] = IF n \in I THEN Append(kept[n - 1], s[n]) ELSE kept[n - 1]
      BY <1>11
  <2>3. PICK a \in Seq(S) : a = kept[n - 1]
      BY <2>1, Zenon
  <2>4. PICK b : b = IF n \in I THEN Append(a, s[n]) ELSE a
      OBVIOUS
  <2>5. b \in Seq(S)
      BY <1>2, <2>4
  <2>6. kept[n] = b
      BY <2>2, <2>3, <2>4, Zenon
  <2> QED
      BY <2>5, <2>6
<1>14. 0..N \subseteq Typed
  <2> HIDE DEF Typed
  <2> QED
      BY <1>12, <1>13, BoundedInduction
<1>15. \A n \in 0..N : kept[n] \in Seq(S)
    BY <1>14
<1> HIDE DEF Typed
<1> QED
    BY <1>1, <1>10, <1>11, <1>15

\* Choosing elements of a sequence invents none.
LEMMA AtType == ASSUME NEW S, NEW s \in Seq(S), NEW I PROVE At(s, I) \in Seq(S)
<1>1. PICK kept : At(s, I) = kept[Len(s)] /\ \A n \in 0..Len(s) : kept[n] \in Seq(S)
    BY AtUnfolds
<1>2. Len(s) \in 0..Len(s)
    OBVIOUS
<1> QED
    BY <1>1, <1>2

\* At keeps the places in I, each once.
LEMMA AtPlaces ==
  ASSUME NEW S, NEW s \in Seq(S), NEW I
  PROVE  \E e \in [DOMAIN At(s, I) -> DOMAIN s \cap I] :
           /\ \A k \in DOMAIN At(s, I) : At(s, I)[k] = s[e[k]]
           /\ \A k, l \in DOMAIN At(s, I) : e[k] = e[l] => k = l
           /\ \A n \in DOMAIN s \cap I : \E k \in DOMAIN At(s, I) : e[k] = n
<1>1. PICK N \in Nat : N = Len(s) /\ DOMAIN s = 1..N
    OBVIOUS
<1>2. PICK kept : /\ At(s, I) = kept[N]
                  /\ \A n \in 0..N : /\ kept[n] \in Seq(S)
                                     /\ kept[n] = IF n = 0 THEN << >>
                                                  ELSE IF n \in I THEN Append(kept[n - 1], s[n]) ELSE kept[n - 1]
    BY <1>1, AtUnfolds
<1> DEFINE Places(a, n, e) == /\ e \in [DOMAIN a -> (1..n) \cap I]
                              /\ \A k \in DOMAIN a : a[k] = s[e[k]]
                              /\ \A k, l \in DOMAIN a : e[k] = e[l] => k = l
                              /\ \A j \in (1..n) \cap I : \E k \in DOMAIN a : e[k] = j
           Placed == {n \in 0..N : \E e : Places(kept[n], n, e)}
<1>3. 0 \in Placed
  <2>1. kept[0] = << >>
      BY <1>2
  <2>2. PICK a : a = kept[0]
      OBVIOUS
  <2>3. DOMAIN a = {}
    <3>1. DOMAIN << >> = {}
        OBVIOUS
    <3> QED
        BY <2>1, <2>2, <3>1, Zenon
  <2>4. PICK e : e = [k \in {} |-> 0]
      OBVIOUS
  <2>5. Places(a, 0, e)
      BY <2>3, <2>4
  <2> HIDE DEF Places
  <2> QED
      BY <2>2, <2>5
<1>4. ASSUME NEW n \in 1..N, n - 1 \in Placed PROVE n \in Placed
  <2>1. PICK e : Places(kept[n - 1], n - 1, e)
      BY <1>4
  <2>2. PICK a \in Seq(S) : a = kept[n - 1]
      BY <1>2
  <2>3. Places(a, n - 1, e)
      BY <2>1, <2>2
  <2>4. CASE n \notin I
    <3>1. kept[n] = a
        BY <1>2, <2>2, <2>4
    <3>2. (1..n) \cap I = (1..n - 1) \cap I
        BY <2>4
    <3>3. Places(a, n, e)
        BY <2>3, <3>2
    <3> HIDE DEF Places
    <3> QED
        BY <3>1, <3>3
  <2>5. CASE n \in I
    <3>1. PICK b \in Seq(S) : b = kept[n]
        BY <1>2
    <3>2. b = Append(a, s[n])
      <4>1. n \in 0..N /\ n # 0
          OBVIOUS
      <4>2. kept[n] = IF n = 0 THEN << >> ELSE IF n \in I THEN Append(kept[n - 1], s[n]) ELSE kept[n - 1]
          BY <1>2, <4>1
      <4> QED
          BY <2>2, <2>5, <3>1, <4>1, <4>2, Zenon
    <3>3. PICK m \in Nat : m = Len(a) /\ DOMAIN a = 1..m
        OBVIOUS
    <3>4. s[n] \in S
        BY <1>1
    <3>5. DOMAIN b = 1..m + 1 /\ b[m + 1] = s[n] /\ \A k \in 1..m : b[k] = a[k]
        BY <3>2, <3>3, <3>4
    <3>6. PICK g : g = [k \in 1..m + 1 |-> IF k = m + 1 THEN n ELSE e[k]]
        OBVIOUS
    <3>7. \A k \in 1..m : g[k] = e[k] /\ e[k] \in (1..n - 1) \cap I /\ e[k] # n
        BY <2>3, <3>3, <3>6
    <3>8. g[m + 1] = n
        BY <3>6
    <3>a. \A k \in 1..m + 1 : k \in 1..m \/ k = m + 1
        OBVIOUS
    <3>b. \A k \in 1..m + 1 : g[k] \in (1..n) \cap I
        BY <2>5, <3>7, <3>8, <3>a
    <3>9. g \in [1..m + 1 -> (1..n) \cap I]
        BY <3>6, <3>b
    <3>10. \A k \in 1..m + 1 : b[k] = s[g[k]]
      <4>1. \A k \in 1..m : a[k] = s[e[k]]
          BY <2>3, <3>3
      <4> QED
          BY <3>5, <3>7, <3>8, <3>a, <4>1
    <3>11. \A k, l \in 1..m + 1 : g[k] = g[l] => k = l
      <4>1. \A k, l \in 1..m : e[k] = e[l] => k = l
          BY <2>3, <3>3
      <4> QED
          BY <3>7, <3>8, <3>a, <4>1
    <3>12. ASSUME NEW j \in (1..n) \cap I PROVE \E k \in 1..m + 1 : g[k] = j
      <4>1. CASE j = n
          BY <3>8, <4>1
      <4>2. CASE j # n
        <5>1. PICK k \in 1..m : e[k] = j
            BY <2>3, <3>3, <3>12, <4>2
        <5>2. k \in 1..m + 1
            OBVIOUS
        <5> QED
            BY <3>7, <5>1, <5>2
      <4> QED
          BY <4>1, <4>2
    <3>13. Places(b, n, g)
        BY <3>5, <3>9, <3>10, <3>11, <3>12
    <3> HIDE DEF Places
    <3> QED
        BY <3>1, <3>13
  <2> QED
      BY <2>4, <2>5
<1>5. 0..N \subseteq Placed
  <2> HIDE DEF Placed
  <2> QED
      BY <1>3, <1>4, BoundedInduction
<1>6. N \in Placed
    BY <1>5
<1>7. PICK e : Places(kept[N], N, e)
    BY <1>6
<1>8. PICK a : a = At(s, I)
    OBVIOUS
<1>9. Places(a, N, e)
    BY <1>2, <1>7, <1>8
<1> QED
    BY <1>1, <1>8, <1>9

\* Choosing what has a property.
LEMMA AtChosen ==
  ASSUME NEW S, NEW s \in Seq(S), NEW I, NEW P, \A n \in DOMAIN s \cap I : s[n] \in P
  PROVE  At(s, I) \in Seq(P)
<1>1. PICK a \in Seq(S) : a = At(s, I)
    BY AtType
<1>2. PICK e \in [DOMAIN a -> DOMAIN s \cap I] : \A k \in DOMAIN a : a[k] = s[e[k]]
    BY <1>1, AtPlaces
<1>3. \A k \in 1..Len(a) : a[k] \in P
    BY <1>2
<1> QED
    BY <1>1, <1>3

\* The function by which FlattenSeq is defined.
Flattens(f, seqs) == f = [i \in 1..Len(seqs) |-> IF i = 1 THEN seqs[i] ELSE f[i - 1] \o seqs[i]]

\* Concatenating sequences invents no element and loses none.
LEMMA FlattenElements ==
  ASSUME NEW S, NEW seqs \in Seq(Seq(S)), Len(seqs) # 0
  PROVE  /\ FlattenSeq(seqs) \in Seq(S)
         /\ \A i \in 1..Len(seqs) : Range(seqs[i]) \subseteq Range(FlattenSeq(seqs))
<1>1. PICK N \in Nat : Len(seqs) = N + 1
  <2>1. Len(seqs) - 1 \in Nat /\ Len(seqs) = (Len(seqs) - 1) + 1
      OBVIOUS
  <2> QED
      BY <2>1
<1>2. \A n \in 1..N + 1 : seqs[n] \in Seq(S)
    BY <1>1
<1> DEFINE step == [x \in Seq(S) \X (1..N) |-> x[1] \o seqs[x[2] + 1]]
<1>3. step \in [Seq(S) \X (1..N) -> Seq(S)]
    BY <1>2
<1>4. \A a \in Seq(S), n \in 1..N : step[<< a, n >>] = a \o seqs[n + 1]
    OBVIOUS
<1> HIDE DEF step
<1>5. PICK first \in Seq(S) : first = seqs[1]
    BY <1>2
<1>6. PICK f \in [0..N -> Seq(S)] : Iterates(f, first, step, N)
    BY <1>3, Iteration
<1> DEFINE h == [i \in 1..N + 1 |-> f[i - 1]]
<1>7. \A i \in 1..N + 1 : h[i] = IF i = 1 THEN seqs[i] ELSE h[i - 1] \o seqs[i]
  <2> TAKE i \in 1..N + 1
  <2>1. CASE i = 1
      BY <1>5, <1>6, <2>1 DEF Iterates
  <2>2. CASE i # 1
    <3>1. i - 1 \in 1..N /\ f[(i - 1) - 1] \in Seq(S)
        BY <2>2
    <3>2. PICK k \in 1..N : k = i - 1
        BY <3>1
    <3>3. f[k] = step[<< f[k - 1], k >>]
        BY <1>6 DEF Iterates
    <3>4. f[k] = f[k - 1] \o seqs[k + 1]
        BY <1>4, <3>1, <3>2, <3>3
    <3>5. h[i] = f[k] /\ h[i - 1] = f[k - 1] /\ i = k + 1
        BY <3>2, <2>2
    <3> QED
        BY <2>2, <3>4, <3>5
  <2> QED
      BY <2>1, <2>2
<1>8. Flattens(h, seqs)
    BY <1>1, <1>7 DEF Flattens
<1> HIDE DEF h
<1> DEFINE flatten == CHOOSE g : Flattens(g, seqs)
<1>9. Flattens(flatten, seqs)
    BY <1>8
<1>10. FlattenSeq(seqs) = flatten[N + 1]
    BY <1>1 DEF FlattenSeq, Flattens
<1> HIDE DEF flatten
<1>11. \A i \in 1..N + 1 : flatten[i] = IF i = 1 THEN seqs[i] ELSE flatten[i - 1] \o seqs[i]
    BY <1>1, <1>9 DEF Flattens
<1> DEFINE Held(a, n) == a \in Seq(S) /\ \A i \in 1..n : Range(seqs[i]) \subseteq Range(a)
           Typed == {n \in 0..N : Held(flatten[n + 1], n + 1)}
<1>12. 0 \in Typed
  <2>1. 1 \in 1..N + 1 /\ 0 + 1 = 1 /\ 1..1 = {1}
      OBVIOUS
  <2>2. flatten[1] = first
      BY <1>5, <1>11, <2>1, Zenon
  <2>3. Held(first, 1)
      BY <1>5, <2>1
  <2> HIDE DEF Held
  <2> QED
      BY <2>1, <2>2, <2>3
<1>13. ASSUME NEW n \in 1..N, n - 1 \in Typed PROVE n \in Typed
  <2>1. Held(flatten[(n - 1) + 1], (n - 1) + 1)
      BY <1>13
  <2>2. (n - 1) + 1 = n /\ (n + 1) - 1 = n /\ n + 1 \in 1..N + 1 /\ n + 1 # 1
      OBVIOUS
  <2>3. PICK a \in Seq(S) : a = flatten[n] /\ Held(a, n)
      BY <2>1, <2>2
  <2>4. PICK b \in Seq(S) : b = seqs[n + 1]
      BY <1>2, <2>2
  <2>5. flatten[n + 1] = flatten[n] \o seqs[n + 1]
    <3>1. PICK k \in 1..N + 1 : k = n + 1
        BY <2>2
    <3>2. k # 1 /\ k - 1 = n
        BY <3>1
    <3>3. flatten[k] = IF k = 1 THEN seqs[k] ELSE flatten[k - 1] \o seqs[k]
        BY <1>11
    <3> QED
        BY <3>1, <3>2, <3>3, Zenon
  <2>6. flatten[n + 1] = a \o b
      BY <2>3, <2>4, <2>5, Zenon
  <2>7. PICK c : c = a \o b
      OBVIOUS
  <2>c. c \in Seq(S)
      BY <2>7
  <2>8. /\ DOMAIN a = 1..Len(a) /\ DOMAIN b = 1..Len(b) /\ DOMAIN c = 1..Len(a) + Len(b)
        /\ \A k \in 1..Len(a) : c[k] = a[k]
        /\ \A k \in 1..Len(b) : c[Len(a) + k] = b[k]
      BY <2>7
  <2>9. Range(a) \subseteq Range(c) /\ Range(b) \subseteq Range(c)
    <3>1. \A k \in 1..Len(a) : k \in DOMAIN c
        BY <2>8
    <3>2. \A k \in 1..Len(b) : Len(a) + k \in DOMAIN c
        BY <2>8
    <3> QED
        BY <2>8, <3>1, <3>2 DEF Range
  <2>10. ASSUME NEW i \in 1..n + 1 PROVE Range(seqs[i]) \subseteq Range(c)
    <3>1. CASE i = n + 1
        BY <2>4, <2>9, <3>1
    <3>2. CASE i # n + 1
      <4>1. i \in 1..n
          BY <3>2
      <4> QED
          BY <2>3, <2>9, <4>1
    <3> QED
        BY <3>1, <3>2
  <2>11. Held(c, n + 1)
      BY <2>c, <2>10
  <2> HIDE DEF Held
  <2>12. n \in 0..N /\ Held(flatten[n + 1], n + 1)
      BY <2>6, <2>7, <2>11
  <2> QED
      BY <2>12
<1>14. 0..N \subseteq Typed
  <2> HIDE DEF Typed
  <2> QED
      BY <1>12, <1>13, BoundedInduction
<1>15. N \in 0..N
    OBVIOUS
<1>16. Held(flatten[N + 1], N + 1)
    BY <1>14, <1>15
<1> QED
    BY <1>1, <1>10, <1>16

LEMMA FlattenType == ASSUME NEW S, NEW seqs \in Seq(Seq(S)), Len(seqs) # 0 PROVE FlattenSeq(seqs) \in Seq(S)
BY FlattenElements

\* The blocks that show no claim outside of C.
BlocksOf(C) == {b \in BlockRows : b.claim \in C \cup {NoClaim}}

LEMMA ClaimsWithin ==
  ASSUME NEW C, NEW blocks \in Seq(BlocksOf(C)) PROVE ClaimsOf(blocks) \subseteq C
<1> SUFFICES ASSUME NEW i \in DOMAIN blocks, blocks[i].claim # NoClaim PROVE blocks[i].claim \in C
    BY DEF ClaimsOf, Factual
<1>1. blocks[i] \in BlocksOf(C)
    OBVIOUS
<1> QED
    BY <1>1 DEF BlocksOf

LEMMA OwnClaims ==
  ASSUME NEW blocks \in Seq(BlockRows) PROVE blocks \in Seq(BlocksOf(ClaimsOf(blocks)))
<1>1. ASSUME NEW i \in 1..Len(blocks) PROVE blocks[i] \in BlocksOf(ClaimsOf(blocks))
  <2>1. blocks[i] \in BlockRows /\ i \in DOMAIN blocks
      OBVIOUS
  <2>2. blocks[i].claim \in ClaimsOf(blocks) \cup {NoClaim}
      BY <2>1 DEF ClaimsOf, Factual
  <2> QED
      BY <2>1, <2>2 DEF BlocksOf
<1> HIDE DEF BlocksOf
<1> QED
    BY <1>1

LEMMA SectionCount == DOMAIN SectionOrder = 1..7 /\ Len(SectionOrder) = 7
BY DEF SectionOrder

LEMMA SectionNames ==
  /\ Sections = {"RESEARCH_SCOPE", "FINANCIAL_HEALTH", "DOCUMENT_EVIDENCE", "DATA_QUALITY", "CONFLICTS",
                 "UNSUPPORTED_CLAIMS", "LIMITATIONS"}
  /\ \A i \in 1..7 : SectionOrder[i] \in Sections
<1>1. \A i \in 1..7 : SectionOrder[i] \in Sections
    BY SectionCount DEF Sections, Range
<1>2. Sections = {SectionOrder[1], SectionOrder[2], SectionOrder[3], SectionOrder[4], SectionOrder[5],
                  SectionOrder[6], SectionOrder[7]}
    BY SectionCount DEF Sections, Range
<1> QED
    BY <1>1, <1>2 DEF SectionOrder

\* Grouping by section and deleting.
LEMMA BySectionType ==
  ASSUME NEW S, NEW blocks \in Seq(S) PROVE BySection(blocks) \in Seq(S)
<1> DEFINE seqs == [i \in DOMAIN SectionOrder |-> InSection(blocks, SectionOrder[i])]
<1>1. \A i \in 1..7 : InSection(blocks, SectionOrder[i]) \in Seq(S)
    BY AtType DEF InSection
<1>2. seqs = [i \in 1..7 |-> InSection(blocks, SectionOrder[i])]
    BY SectionCount
<1>3. seqs \in [1..7 -> Seq(S)]
    BY <1>1, <1>2
<1> HIDE DEF seqs
<1>4. seqs \in Seq(Seq(S)) /\ Len(seqs) # 0
  <2>1. PICK T : T = Seq(S)
      OBVIOUS
  <2>2. PICK N \in Nat : N = 7
      OBVIOUS
  <2>3. seqs \in [1..N -> T]
      BY <1>3, <2>1, <2>2
  <2>4. seqs \in Seq(T) /\ Len(seqs) = N
      BY <2>3
  <2> QED
      BY <2>1, <2>2, <2>4
<1>5. FlattenSeq(seqs) \in Seq(S)
    BY <1>4, FlattenType
<1> QED
    BY <1>5 DEF BySection, seqs

LEMMA DeleteType ==
  ASSUME NEW S, NEW blocks \in Seq(S), NEW key PROVE DeleteBlock(blocks, key) \in Seq(S)
BY AtType DEF DeleteBlock

LEMMA QualifyType ==
  ASSUME NEW C, NEW blocks \in Seq(BlocksOf(C)), NEW key
  PROVE  QualifyPartial(blocks, key) \in Seq(BlocksOf(C))
<1>1. ASSUME NEW b \in BlocksOf(C) PROVE [b EXCEPT !.text = "QUALIFIED"] \in BlocksOf(C)
    BY DEF BlocksOf, BlockRows
<1>2. DOMAIN blocks = 1..Len(blocks) /\ \A i \in DOMAIN blocks : blocks[i] \in BlocksOf(C)
    OBVIOUS
<1>3. \A i \in DOMAIN blocks :
        (IF blocks[i].key = key THEN [blocks[i] EXCEPT !.text = "QUALIFIED"] ELSE blocks[i]) \in BlocksOf(C)
    BY <1>1, <1>2
<1>4. PICK N \in Nat : N = Len(blocks)
    OBVIOUS
<1>5. QualifyPartial(blocks, key) \in [1..N -> BlocksOf(C)]
    BY <1>2, <1>3, <1>4 DEF QualifyPartial
<1> QED
    BY <1>5

LEMMA MoveType ==
  ASSUME NEW C, NEW blocks \in Seq(BlocksOf(C)), NEW key \in KeysOf(blocks), NEW s \in Sections
  PROVE  MoveBlock(blocks, key, s) \in Seq(BlocksOf(C))
<1>1. PICK i : i = CHOOSE j \in DOMAIN blocks : blocks[j].key = key
    OBVIOUS
<1>2. i \in DOMAIN blocks
    BY <1>1 DEF KeysOf
<1>3. PICK b : b = [blocks[i] EXCEPT !.sec = s]
    OBVIOUS
<1>4. b \in BlocksOf(C)
  <2>1. blocks[i] \in BlocksOf(C)
      BY <1>2
  <2> QED
      BY <1>3, <2>1 DEF BlocksOf, BlockRows
<1>5. PICK d \in Seq(BlocksOf(C)) : d = DeleteBlock(blocks, key)
    BY DeleteType
<1>6. Append(d, b) \in Seq(BlocksOf(C))
    BY <1>4
<1>7. MoveBlock(blocks, key, s) = BySection(Append(d, b))
    BY <1>1, <1>3, <1>5 DEF MoveBlock
<1> QED
    BY <1>6, <1>7, BySectionType

LEMMA DisclosureType ==
  ASSUME NEW C, NEW blocks \in Seq(BlocksOf(C)), NEW code \in CheckCodes, NEW s \in Sections
  PROVE  AppendDisclosure(blocks, code, s) \in Seq(BlocksOf(C))
<1>1. PICK b : b = [key |-> << "reflection", code >>, sec |-> s, claim |-> NoClaim, label |-> NoLabel, text |-> "PLAIN"]
    OBVIOUS
<1>2. b \in BlocksOf(C)
  <2>1. << "reflection", code >> \in BlockKeys /\ NoLabel \in Labels
      BY DEF BlockKeys, Labels
  <2> QED
      BY <1>1, <2>1 DEF BlocksOf, BlockRows
<1>3. Append(blocks, b) \in Seq(BlocksOf(C))
    BY <1>2
<1> QED
    BY <1>1, <1>3, BySectionType DEF AppendDisclosure

(***************************************************************************)
(* Allocating references.                                                  *)
(***************************************************************************)
LEMMA TargetKind == ASSUME NEW c PROVE ReferenceTarget(c)[1] \in {"EV", "LIM", "CON"}
<1>1. \/ ReferenceTarget(c) = << "CON", c >>
      \/ ReferenceTarget(c) = << "LIM", c >>
      \/ ReferenceTarget(c) = << "EV", Min(Range(ClaimInfo[c].links)) >>
    BY Zenon DEF ReferenceTarget
<1> QED
    BY <1>1

LEMMA TargetCount ==
  ASSUME NEW N \in Nat, NEW K \in SUBSET (1..N), NEW blocks
  PROVE  Cardinality({ReferenceTarget(blocks[j].claim) : j \in K}) \in Nat
<1>1. IsFiniteSet(1..N)
    BY FS_Interval
<1>2. IsFiniteSet(K)
    BY <1>1, FS_Subset
<1> DEFINE T == {ReferenceTarget(blocks[j].claim) : j \in K}
<1> DEFINE f == [j \in K |-> ReferenceTarget(blocks[j].claim)]
<1>3. f \in Surjection(K, T)
    BY DEF Surjection
<1>4. IsFiniteSet(T)
  <2> HIDE DEF f, T
  <2> QED
      BY <1>2, <1>3, FS_Surjection
<1> HIDE DEF T
<1>5. Cardinality(T) \in Nat
    BY <1>4, FS_CardinalityType
<1> QED
    BY <1>5 DEF T

\* Allocation changes labels only.
LEMMA AllocateType ==
  ASSUME NEW C, NEW blocks \in Seq(BlocksOf(C)) PROVE Allocate(blocks) \in Seq(BlocksOf(C))
<1>1. PICK N \in Nat : N = Len(blocks)
    OBVIOUS
<1>2. DOMAIN blocks = 1..N /\ \A i \in 1..N : blocks[i] \in BlocksOf(C)
    BY <1>1
<1> DEFINE factual   == Factual(blocks)
           target(i) == ReferenceTarget(blocks[i].claim)
           first(i)  == Min({j \in factual : j <= i /\ target(j) = target(i)})
           earlier(i) == {k \in factual : k <= first(i) /\ target(k)[1] = target(i)[1]}
           number(i) == Cardinality({target(j) : j \in earlier(i)})
           label(i)  == IF i \in factual THEN << target(i)[1], number(i) >> ELSE NoLabel
<1>3. Allocate(blocks) = [i \in 1..N |-> [blocks[i] EXCEPT !.label = label(i)]]
    BY <1>2 DEF Allocate
<1>4. ASSUME NEW i \in 1..N PROVE label(i) \in Labels
  <2>1. factual \subseteq 1..N
      BY <1>2 DEF Factual
  <2>2. earlier(i) \in SUBSET (1..N)
      BY <2>1
  <2>3. target(i)[1] \in {"EV", "LIM", "CON"}
      BY TargetKind
  <2>4. number(i) \in Nat
    <3> HIDE DEF earlier
    <3> QED
        BY <2>2, TargetCount
  <2> HIDE DEF target, number
  <2>5. << target(i)[1], number(i) >> \in Labels /\ NoLabel \in Labels
      BY <2>3, <2>4 DEF Labels
  <2> QED
      BY <2>5
<1> HIDE DEF label
<1>5. ASSUME NEW i \in 1..N PROVE [blocks[i] EXCEPT !.label = label(i)] \in BlocksOf(C)
  <2>1. blocks[i] \in BlocksOf(C) /\ label(i) \in Labels
      BY <1>2, <1>4
  <2> QED
      BY <2>1 DEF BlocksOf, BlockRows
<1>6. Allocate(blocks) \in [1..N -> BlocksOf(C)]
    BY <1>3, <1>5
<1> QED
    BY <1>6

(***************************************************************************)
(* Findings are finitely many, so that they come in some order.            *)
(***************************************************************************)
LEMMA FiniteImage == ASSUME NEW S, IsFiniteSet(S), NEW f PROVE IsFiniteSet({f[x] : x \in S})
<1> DEFINE g == [x \in S |-> f[x]]
           T == {f[x] : x \in S}
<1>1. g \in Surjection(S, T)
    BY DEF Surjection
<1> HIDE DEF g, T
<1>2. IsFiniteSet(T)
    BY <1>1, FS_Surjection
<1> QED
    BY <1>2 DEF T

LEMMA CodesFinite == IsFiniteSet(CheckCodes)
<1> DEFINE Q == << "PRIMARY_CLAIM_HAS_EVIDENCE", "DOCUMENT_CLAIM_HAS_VALID_CITATION", "STRUCTURED_CLAIM_HAS_LINEAGE",
                   "STRICT_DOCUMENT_PUBLISHED_AT_KNOWN", "CONFLICTING_CLAIMS_DISCLOSED", "PARTIAL_SUPPORT_QUALIFIED",
                   "UNSUPPORTED_CLAIMS_RESTRICTED", "SECURITY_MATCHES", "REPORT_INPUT_MANIFEST_UNCHANGED",
                   "REPORT_STRUCTURE_VERSION_CHAIN_VALID", "NO_REAL_RESEARCH_SYNTHETIC_EVIDENCE",
                   "SYNTHETIC_NOT_REAL_COMPANY_RESEARCH", "DATA_QUALITY_PRESENT", "LIMITATIONS_PRESENT",
                   "NO_ORPHAN_BODY_REFERENCE", "NO_UNUSED_APPENDIX_REFERENCE" >>
<1>1. CheckCodes = {Q[1], Q[2], Q[3], Q[4], Q[5], Q[6], Q[7], Q[8], Q[9], Q[10], Q[11], Q[12], Q[13], Q[14], Q[15], Q[16]}
    BY DEF CheckCodes
<1> HIDE DEF Q
<1>2. CheckCodes = {Q[i] : i \in 1..16}
  <2>1. ASSUME NEW c \in CheckCodes PROVE \E i \in 1..16 : c = Q[i]
      BY <1>1
  <2>2. ASSUME NEW i \in 1..16 PROVE Q[i] \in CheckCodes
      BY <1>1
  <2> QED
      BY <2>1, <2>2
<1>3. IsFiniteSet(1..16)
  <2>1. PICK N \in Int : N = 16
      OBVIOUS
  <2>2. IsFiniteSet(1..N)
      BY FS_Interval
  <2> QED
      BY <2>1, <2>2
<1>4. IsFiniteSet({Q[i] : i \in 1..16})
    BY <1>3, FiniteImage
<1> QED
    BY <1>2, <1>4

LEMMA FindingCodes ==
  ASSUME NEW r, NEW m, NEW b
  PROVE  ContextChecks(r, m) \cup ProvenanceChecks(r.content, m) \cup StructureChecks(r.content)
           \cup BlockChecks(b) \subseteq CheckCodes
<1>1. ContextChecks(r, m) \subseteq CheckCodes /\ ProvenanceChecks(r.content, m) \subseteq CheckCodes
    BY DEF Is, CheckCodes, ContextChecks, ProvenanceChecks
<1>2. StructureChecks(r.content) \subseteq CheckCodes
    BY DEF Is, CheckCodes, StructureChecks
<1>3. BindingChecks(b) \subseteq CheckCodes /\ TemporalChecks(b) \subseteq CheckCodes /\ DisclosureChecks(b) \subseteq CheckCodes
    BY DEF Is, CheckCodes, BindingChecks, TemporalChecks, DisclosureChecks
<1> QED
    BY <1>1, <1>2, <1>3 DEF BlockChecks

\* The findings that a report with these blocks can have.
PossibleFindings(blocks) == {[code |-> x[1], block |-> x[2]] : x \in CheckCodes \X (KeysOf(blocks) \cup {NoKey})}

LEMMA FindingsPossible ==
  ASSUME NEW r, NEW m PROVE ReflectionFindings(r, m) \subseteq PossibleFindings(r.content.blocks)
<1> SUFFICES ASSUME NEW f \in ReflectionFindings(r, m) PROVE f \in PossibleFindings(r.content.blocks)
    OBVIOUS
<1>1. CASE \E k \in ContextChecks(r, m) \cup ProvenanceChecks(r.content, m) \cup StructureChecks(r.content) :
             f = [code |-> k, block |-> NoKey]
  <2>1. PICK k \in CheckCodes : f = [code |-> k, block |-> NoKey]
      BY <1>1, FindingCodes
  <2>2. << k, NoKey >> \in CheckCodes \X (KeysOf(r.content.blocks) \cup {NoKey})
      OBVIOUS
  <2>3. f = [code |-> << k, NoKey >>[1], block |-> << k, NoKey >>[2]]
      BY <2>1
  <2> QED
      BY <2>2, <2>3 DEF PossibleFindings
<1>2. CASE \E i \in Factual(r.content.blocks) : \E k \in BlockChecks(r.content.blocks[i]) :
             f = [code |-> k, block |-> r.content.blocks[i].key]
  <2>1. PICK i \in Factual(r.content.blocks) : \E k \in BlockChecks(r.content.blocks[i]) :
          f = [code |-> k, block |-> r.content.blocks[i].key]
      BY <1>2
  <2>2. PICK k \in BlockChecks(r.content.blocks[i]) : f = [code |-> k, block |-> r.content.blocks[i].key]
      BY <2>1
  <2>3. PICK key : key = r.content.blocks[i].key
      OBVIOUS
  <2>4. k \in CheckCodes /\ key \in KeysOf(r.content.blocks)
      BY <2>3, FindingCodes DEF KeysOf, Factual
  <2>5. << k, key >> \in CheckCodes \X (KeysOf(r.content.blocks) \cup {NoKey})
      BY <2>4
  <2>6. f = [code |-> << k, key >>[1], block |-> << k, key >>[2]]
      BY <2>2, <2>3
  <2> QED
      BY <2>5, <2>6 DEF PossibleFindings
<1> QED
    BY <1>1, <1>2 DEF ReflectionFindings

LEMMA FindingsFinite ==
  ASSUME NEW r, r.content.blocks \in Seq(BlockRows), NEW m PROVE IsFiniteSet(ReflectionFindings(r, m))
<1>1. PICK blocks \in Seq(BlockRows) : blocks = r.content.blocks
    OBVIOUS
<1>2. IsFiniteSet(KeysOf(blocks))
  <2>1. PICK N \in Nat : N = Len(blocks)
      OBVIOUS
  <2>2. PICK f : f = [i \in 1..N |-> blocks[i].key]
      OBVIOUS
  <2>3. KeysOf(blocks) = {f[i] : i \in 1..N}
      BY <2>1, <2>2 DEF KeysOf
  <2>4. IsFiniteSet(1..N)
      BY FS_Interval
  <2> QED
      BY <2>3, <2>4, FiniteImage
<1>3. PICK P : P = CheckCodes \X (KeysOf(blocks) \cup {NoKey})
    OBVIOUS
<1>4. IsFiniteSet(P)
    BY <1>2, <1>3, CodesFinite, FS_AddElement, FS_Product
<1>5. PICK f : f = [x \in P |-> [code |-> x[1], block |-> x[2]]]
    OBVIOUS
<1>6. PossibleFindings(blocks) = {f[x] : x \in P}
    BY <1>3, <1>5 DEF PossibleFindings
<1>7. IsFiniteSet(PossibleFindings(blocks))
    BY <1>4, <1>6, FiniteImage
<1> QED
    BY <1>1, <1>7, FindingsPossible, FS_Subset

(***************************************************************************)
(* Revision only rearranges, removes and relabels blocks of claims.        *)
(***************************************************************************)
LEMMA DisclosureCodes ==
  ASSUME NEW code, Remediation(code) \in {"ADD_DATA_QUALITY", "ADD_LIMITATIONS"} PROVE code \in CheckCodes
<1>1. code \in {"DATA_QUALITY_PRESENT", "LIMITATIONS_PRESENT"}
    BY Zenon DEF Remediation
<1> QED
    BY <1>1 DEF CheckCodes

LEMMA ApplyType ==
  ASSUME NEW C, NEW blocks \in Seq(BlocksOf(C)), NEW f, CanApply(blocks, f)
  PROVE  ApplyFinding(blocks, f) \in Seq(BlocksOf(C))
<1>1. PICK rem : rem = Remediation(f.code)
    OBVIOUS
<1>2. rem \in {"DELETE", "QUALIFY", "MOVE_CONFLICT", "MOVE_UNSUPPORTED"} => f.block \in KeysOf(blocks)
    BY <1>1, Zenon DEF CanApply
<1>3. CASE rem = "DELETE"
    BY <1>1, <1>3, DeleteType, Zenon DEF ApplyFinding
<1>4. CASE rem = "QUALIFY"
    BY <1>1, <1>4, QualifyType, Zenon DEF ApplyFinding
<1>5. CASE rem = "MOVE_CONFLICT"
  <2>1. ApplyFinding(blocks, f) = MoveBlock(blocks, f.block, "CONFLICTS")
      BY <1>1, <1>5, Zenon DEF ApplyFinding
  <2> QED
      BY <1>2, <1>5, <2>1, MoveType, SectionNames
<1>6. CASE rem = "MOVE_UNSUPPORTED"
  <2>1. ApplyFinding(blocks, f) = MoveBlock(blocks, f.block, "UNSUPPORTED_CLAIMS")
      BY <1>1, <1>6, Zenon DEF ApplyFinding
  <2> QED
      BY <1>2, <1>6, <2>1, MoveType, SectionNames
<1>7. CASE rem = "ADD_DATA_QUALITY"
  <2>1. ApplyFinding(blocks, f) = AppendDisclosure(blocks, f.code, "DATA_QUALITY")
      BY <1>1, <1>7, Zenon DEF ApplyFinding
  <2>2. PICK code \in CheckCodes : code = f.code
    <3>1. PICK code : code = f.code
        OBVIOUS
    <3>2. Remediation(code) \in {"ADD_DATA_QUALITY", "ADD_LIMITATIONS"}
        BY <1>1, <1>7, <3>1
    <3> QED
        BY <3>1, <3>2, DisclosureCodes
  <2>3. PICK s \in Sections : s = "DATA_QUALITY"
      BY SectionNames
  <2> QED
      BY <2>1, <2>2, <2>3, DisclosureType
<1>8. CASE rem = "ADD_LIMITATIONS"
  <2>1. ApplyFinding(blocks, f) = AppendDisclosure(blocks, f.code, "LIMITATIONS")
      BY <1>1, <1>8, Zenon DEF ApplyFinding
  <2>2. PICK code \in CheckCodes : code = f.code
    <3>1. PICK code : code = f.code
        OBVIOUS
    <3>2. Remediation(code) \in {"ADD_DATA_QUALITY", "ADD_LIMITATIONS"}
        BY <1>1, <1>8, <3>1
    <3> QED
        BY <3>1, <3>2, DisclosureCodes
  <2>3. PICK s \in Sections : s = "LIMITATIONS"
      BY SectionNames
  <2> QED
      BY <2>1, <2>2, <2>3, DisclosureType
<1>9. CASE rem = "RENUMBER"
    BY <1>1, <1>9, AllocateType, Zenon DEF ApplyFinding
<1>10. CASE rem \notin {"DELETE", "QUALIFY", "MOVE_CONFLICT", "MOVE_UNSUPPORTED", "ADD_DATA_QUALITY",
                        "ADD_LIMITATIONS", "RENUMBER"}
    BY <1>1, <1>10, Zenon DEF ApplyFinding
<1> QED
    BY <1>3, <1>4, <1>5, <1>6, <1>7, <1>8, <1>9, <1>10

\* The function by which Revised is defined.
Revises(g, blocks, order) ==
  g = [n \in 0..Len(order) |-> IF n = 0 THEN [blocks |-> blocks, applied |-> {}] ELSE RevisionStep(g[n - 1], order[n])]

\* What holds of the blocks at first, and is kept by every finding, holds of the
\* revised blocks.
LEMMA RevisedWithin ==
  ASSUME NEW blocks, NEW F, NEW order \in Seq(F), NEW T, [blocks |-> blocks, applied |-> {}] \in T,
         \A acc \in T, f \in F : RevisionStep(acc, f) \in T
  PROVE  Revised(blocks, order) \in T
<1>1. PICK N \in Nat : N = Len(order)
    OBVIOUS
<1> DEFINE base == [blocks |-> blocks, applied |-> {}]
           step == [x \in T \X (1..N) |-> RevisionStep(x[1], order[x[2]])]
<1>2. base \in T
    OBVIOUS
<1>3. ASSUME NEW acc \in T, NEW n \in 1..N PROVE RevisionStep(acc, order[n]) \in T
  <2>1. order[n] \in F
      BY <1>1
  <2> QED
      BY <2>1
<1> HIDE DEF base
<1>4. step \in [T \X (1..N) -> T]
    BY <1>3
<1>5. \A acc \in T, n \in 1..N : step[<< acc, n >>] = RevisionStep(acc, order[n])
    OBVIOUS
<1> HIDE DEF step
<1>6. PICK h \in [0..N -> T] : Iterates(h, base, step, N)
    BY <1>2, <1>4, Iteration
<1>7. \A n \in 0..N : h[n] = IF n = 0 THEN base ELSE RevisionStep(h[n - 1], order[n])
  <2> TAKE n \in 0..N
  <2>1. CASE n = 0
      BY <1>6, <2>1 DEF Iterates
  <2>2. CASE n # 0
    <3>1. n \in 1..N /\ h[n - 1] \in T
        BY <2>2
    <3>2. h[n] = step[<< h[n - 1], n >>]
        BY <1>6, <3>1 DEF Iterates
    <3> QED
        BY <1>5, <2>2, <3>1, <3>2
  <2> QED
      BY <2>1, <2>2
<1>8. Revises(h, blocks, order)
    BY <1>1, <1>7 DEF Revises, base
<1> DEFINE done == CHOOSE g : Revises(g, blocks, order)
<1>9. Revises(done, blocks, order)
    BY <1>8
<1>10. Revised(blocks, order) = done[N]
    BY <1>1 DEF Revised, Revises
<1> HIDE DEF done
<1>11. \A n \in 0..N : done[n] = IF n = 0 THEN base ELSE RevisionStep(done[n - 1], order[n])
    BY <1>1, <1>9 DEF Revises, base
<1> DEFINE Typed == {n \in 0..N : done[n] \in T}
<1>12. 0 \in Typed
    BY <1>2, <1>11
<1>13. ASSUME NEW n \in 1..N, n - 1 \in Typed PROVE n \in Typed
  <2>1. done[n] = RevisionStep(done[n - 1], order[n])
      BY <1>11
  <2> QED
      BY <1>3, <1>13, <2>1
<1>14. 0..N \subseteq Typed
  <2> HIDE DEF Typed
  <2> QED
      BY <1>12, <1>13, BoundedInduction
<1> QED
    BY <1>10, <1>14

LEMMA RevisedType ==
  ASSUME NEW C, NEW blocks \in Seq(BlocksOf(C)), NEW F, NEW order \in Seq(F)
  PROVE  Revised(blocks, order).blocks \in Seq(BlocksOf(C))
<1> DEFINE T == [blocks : Seq(BlocksOf(C)), applied : SUBSET F]
<1>1. [blocks |-> blocks, applied |-> {}] \in T
    OBVIOUS
<1>2. ASSUME NEW acc \in T, NEW f \in F PROVE RevisionStep(acc, f) \in T
  <2>1. CASE ~CanApply(acc.blocks, f)
      BY <2>1 DEF RevisionStep
  <2>2. CASE CanApply(acc.blocks, f)
    <3>1. PICK next : next = ApplyFinding(acc.blocks, f)
        OBVIOUS
    <3>2. next \in Seq(BlocksOf(C))
        BY <2>2, <3>1, ApplyType
    <3>3. RevisionStep(acc, f) = [blocks |-> next, applied |-> acc.applied \cup {f}]
        BY <2>2, <3>1 DEF RevisionStep
    <3>4. acc.applied \cup {f} \in SUBSET F
        OBVIOUS
    <3> QED
        BY <3>2, <3>3, <3>4
  <2> QED
      BY <2>1, <2>2
<1> HIDE DEF T
<1>3. Revised(blocks, order) \in T
    BY <1>1, <1>2, RevisedWithin
<1> QED
    BY <1>3 DEF T

(***************************************************************************)
(* Composition shows the claims of the package and nothing else.           *)
(***************************************************************************)
LEMMA ClaimSectionType == ASSUME NEW c \in Claims PROVE ClaimSection(c) \in Sections
<1>1. PICK type : type = ClaimInfo[c].type
    OBVIOUS
<1>2. type \in {"FINANCIAL", "DOCUMENT", "DATA_QUALITY", "LIMITATION"}
    BY <1>1, ClaimInfoAssumption
<1>3. PICK t : t = [FINANCIAL |-> "FINANCIAL_HEALTH", DOCUMENT |-> "DOCUMENT_EVIDENCE",
                    DATA_QUALITY |-> "DATA_QUALITY", LIMITATION |-> "LIMITATIONS"][type]
    OBVIOUS
<1>4. t \in {"FINANCIAL_HEALTH", "DOCUMENT_EVIDENCE", "DATA_QUALITY", "LIMITATIONS"}
    BY <1>2, <1>3
<1>5. ClaimSection(c) \in {"CONFLICTS", "UNSUPPORTED_CLAIMS", "LIMITATIONS", t}
    BY <1>1, <1>3, Zenon DEF ClaimSection
<1> QED
    BY <1>4, <1>5, SectionNames

\* The blocks that composition makes.
LEMMA ComposedBlocks ==
  ASSUME NEW C \in SUBSET Claims
  PROVE  /\ \A c \in C : ClaimBlock(c) \in BlocksOf(C)
         /\ \A s \in Sections : EmptyStateBlock(s) \in BlocksOf(C)
<1>1. ASSUME NEW c \in C PROVE ClaimBlock(c) \in BlocksOf(C)
  <2>1. << "claim", c >> \in BlockKeys /\ NoLabel \in Labels /\ ClaimSection(c) \in Sections /\ c \in Claims
      BY ClaimSectionType DEF BlockKeys, Labels
  <2>2. PICK s \in Sections : s = ClaimSection(c)
      BY <2>1
  <2>3. ClaimBlock(c) = [key |-> << "claim", c >>, sec |-> s, claim |-> c, label |-> NoLabel, text |-> "PLAIN"]
      BY <2>2 DEF ClaimBlock
  <2>4. PICK b : b = [key |-> << "claim", c >>, sec |-> s, claim |-> c, label |-> NoLabel, text |-> "PLAIN"]
      OBVIOUS
  <2>5. b \in BlockRows /\ b.claim = c
      BY <2>1, <2>4 DEF BlockRows
  <2> QED
      BY <2>3, <2>4, <2>5 DEF BlocksOf
<1>2. ASSUME NEW s \in Sections PROVE EmptyStateBlock(s) \in BlocksOf(C)
  <2>1. << "empty", s >> \in BlockKeys /\ NoLabel \in Labels
      BY DEF BlockKeys, Labels
  <2> QED
      BY <2>1 DEF EmptyStateBlock, BlocksOf, BlockRows
<1> QED
    BY <1>1, <1>2

LEMMA RenderType ==
  ASSUME NEW p, p.claims \in Seq(Claims)
  PROVE  RenderBlocks(p) \in Seq(BlocksOf(Range(p.claims)))
<1>1. PICK claims \in Seq(Claims) : claims = p.claims
    OBVIOUS
<1>2. PICK C : C = Range(claims)
    OBVIOUS
<1>3. C \subseteq Claims /\ claims \in Seq(C)
  <2>1. \A i \in 1..Len(claims) : claims[i] \in C
      BY <1>2 DEF Range
  <2> QED
      BY <1>2, <2>1 DEF Range
<1>4. ASSUME NEW c \in C PROVE ClaimBlock(c) \in BlocksOf(C)
    BY <1>3, ComposedBlocks
<1>5. ASSUME NEW s \in Sections PROVE EmptyStateBlock(s) \in BlocksOf(C)
    BY <1>3, ComposedBlocks
<1> DEFINE mine(i) == At(claims, {k \in DOMAIN claims : ClaimSection(claims[k]) = SectionOrder[i]})
           part(i) == IF mine(i) = << >> THEN << EmptyStateBlock(SectionOrder[i]) >>
                      ELSE [k \in DOMAIN mine(i) |-> ClaimBlock(mine(i)[k])]
<1>6. ASSUME NEW i \in 1..7 PROVE part(i) \in Seq(BlocksOf(C))
  <2>1. PICK m : m = mine(i)
      OBVIOUS
  <2>2. m \in Seq(C)
      BY <1>3, <2>1, AtType
  <2>3. << EmptyStateBlock(SectionOrder[i]) >> \in Seq(BlocksOf(C))
      BY <1>5, SectionNames
  <2>4. [k \in DOMAIN m |-> ClaimBlock(m[k])] \in Seq(BlocksOf(C))
    <3>1. PICK N \in Nat : N = Len(m) /\ DOMAIN m = 1..N
        BY <2>2
    <3>2. \A k \in 1..N : ClaimBlock(m[k]) \in BlocksOf(C)
        BY <1>4, <2>2, <3>1
    <3>3. [k \in 1..N |-> ClaimBlock(m[k])] \in [1..N -> BlocksOf(C)]
        BY <3>2
    <3> QED
        BY <3>1, <3>3
  <2> HIDE DEF mine
  <2> QED
      BY <2>1, <2>3, <2>4
<1> HIDE DEF part
<1>7. PICK seqs : seqs = [i \in 1..7 |-> part(i)]
    OBVIOUS
<1>8. seqs \in Seq(Seq(BlocksOf(C))) /\ Len(seqs) # 0
  <2>1. PICK T : T = Seq(BlocksOf(C))
      OBVIOUS
  <2>2. PICK N \in Nat : N = 7
      OBVIOUS
  <2>3. seqs \in [1..N -> T]
      BY <1>6, <1>7, <2>1, <2>2
  <2>4. seqs \in Seq(T) /\ Len(seqs) = N
      BY <2>3
  <2> QED
      BY <2>1, <2>2, <2>4
<1>9. FlattenSeq(seqs) \in Seq(BlocksOf(C))
    BY <1>8, FlattenType
<1>10. RenderBlocks(p) = Allocate(FlattenSeq(seqs))
    BY <1>1, <1>7, SectionCount DEF RenderBlocks, part, mine
<1> QED
    BY <1>1, <1>2, <1>9, <1>10, AllocateType

(***************************************************************************)
(* Lineage.  A report in flight descends from a committed one, which stays *)
(* committed and which no other report can be mistaken for.                *)
(***************************************************************************)
LineageRow(r) ==
  /\ r.id \in Seq(ReportTypes \cup {"rev", "seal"})
  /\ "blocks" \in DOMAIN r.content /\ r.content.blocks \in Seq(BlockRows)
  /\ r.claimB = ClaimsOf(r.content.blocks)
  /\ \A c \in r.claimB : IsLimitation(c) \/ \E eb \in r.evB : eb[1] = c

Descends(r) ==
  r.prev # NoId => \E o \in reports : o.id = r.prev /\ r.claimB \subseteq o.claimB /\ r.evB \subseteq o.evB

RowsInherit(rows) ==
  /\ \A r \in rows.reports : LineageRow(r) /\ Descends(r)
  /\ \A r, o \in rows.reports : r = o
  /\ \A x \in rows.reflections : IsFiniteSet(x.findings)

LineageInv ==
  /\ package \in Packages /\ DOMAIN tx = Procs
  /\ \A r \in reports : LineageRow(r) /\ Descends(r)
  /\ \A r, o \in reports : r.id = o.id => r = o
  /\ \A x \in reflections : IsFiniteSet(x.findings)
  /\ \A p \in Procs : tx[p] # NoId => RowsInherit(tx[p])

LEMMA LineageInit == Init => LineageInv
BY DEF Init, LineageInv

LEMMA RowsStayInherited ==
  ASSUME NEW rows, RowsInherit(rows), reports \subseteq reports' PROVE RowsInherit(rows)'
BY DEF RowsInherit, Descends

\* A step that inserts no row.
LEMMA LineageUnmoved ==
  ASSUME LineageInv, package' = package, UNCHANGED tables, DOMAIN tx' = Procs,
         \A q \in Procs : tx'[q] = NoId \/ tx'[q] = tx[q] \/ RowsInherit(tx'[q])
  PROVE  LineageInv'
<1>1. reports' = reports /\ reflections' = reflections
    BY DEF tables
<1>2. ASSUME NEW q \in Procs, tx'[q] # NoId PROVE RowsInherit(tx[q])'
  <2>1. PICK rows : rows = tx'[q]
      OBVIOUS
  <2>2. RowsInherit(rows)
      BY <1>2, <2>1 DEF LineageInv
  <2>3. RowsInherit(rows)'
      BY <1>1, <2>2, RowsStayInherited
  <2> QED
      BY <2>1, <2>3
<1>3. \A r \in reports' : LineageRow(r) /\ Descends(r)'
    BY <1>1 DEF LineageInv, Descends
<1> QED
    BY <1>1, <1>2, <1>3 DEF LineageInv

LEMMA BeginInherits ==
  ASSUME LineageInv, NEW p \in Procs, NEW rows, Begin(p, rows), RowsInherit(rows) PROVE LineageInv'
<1>1. \A q \in Procs : tx'[q] = tx[q] \/ tx'[q] = rows
    BY DEF Begin, LineageInv
<1>2. \A q \in Procs : tx'[q] = NoId \/ tx'[q] = tx[q] \/ RowsInherit(tx'[q])
    BY <1>1
<1>3. package' = package /\ UNCHANGED tables /\ DOMAIN tx' = Procs
    BY DEF Begin, LineageInv, tables
<1> QED
    BY <1>2, <1>3, LineageUnmoved

LEMMA GenerateInherits ==
  ASSUME LineageInv, NEW p \in Procs, NEW t \in ReportTypes, BeginGenerate(p, t) PROVE LineageInv'
<1>1. PICK m : m = Manifest(package)
    OBVIOUS
<1>2. PICK report : report = ComposedReport(m, t)
    OBVIOUS
<1>3. PICK reqs, gens : Begin(p, [NoRows EXCEPT !.requests = reqs, !.runs = gens, !.reports = {report}])
    BY <1>1, <1>2 DEF BeginGenerate
<1>4. PICK rows : rows = [NoRows EXCEPT !.requests = reqs, !.runs = gens, !.reports = {report}]
    OBVIOUS
<1>5. Begin(p, rows) /\ rows.reports = {report} /\ rows.reflections = {}
    BY <1>3, <1>4 DEF NoRows
<1>6. CompleteBindingGraph(report.content.blocks, report.claimB, report.evB)
    BY <1>1, <1>2 DEF BeginGenerate
<1>7. m.claims \in Seq(Claims)
    BY <1>1, PackagesAssumption DEF Manifest, LineageInv
<1>8. report.id = << t >> /\ report.prev = NoId /\ report.claimB = Range(m.claims) /\ report.content = ComposedContent(m)
    BY <1>2 DEF ComposedReport
<1>9. PICK blocks : blocks = report.content.blocks
    OBVIOUS
<1>10. blocks \in Seq(BlocksOf(report.claimB))
  <2>1. blocks = RenderBlocks(m)
      BY <1>8, <1>9 DEF ComposedContent
  <2> QED
      BY <1>7, <1>8, <2>1, RenderType
<1>11. blocks \in Seq(BlockRows)
    BY <1>10 DEF BlocksOf
<1>12. ClaimsOf(blocks) \subseteq report.claimB
    BY <1>10, ClaimsWithin
<1>13. report.claimB = ClaimsOf(blocks) /\ \A c \in report.claimB : IsLimitation(c) \/ \E eb \in report.evB : eb[1] = c
    BY <1>6, <1>9, <1>12 DEF CompleteBindingGraph
<1>14. << t >> \in Seq(ReportTypes \cup {"rev", "seal"})
    OBVIOUS
<1>15. "blocks" \in DOMAIN report.content
    BY <1>8 DEF ComposedContent
<1>16. LineageRow(report) /\ Descends(report)
    BY <1>8, <1>9, <1>11, <1>13, <1>14, <1>15 DEF LineageRow, Descends
<1>17. RowsInherit(rows)
    BY <1>5, <1>16 DEF RowsInherit
<1> QED
    BY <1>5, <1>17, BeginInherits

LEMMA ReflectInherits ==
  ASSUME LineageInv, NEW p \in Procs, NEW r \in reports, NEW round \in 1..2, BeginReflect(p, r, round)
  PROVE  LineageInv'
<1>1. PICK findings : findings = ReflectionFindings(r, RequestOf(r).manifest)
    OBVIOUS
<1>2. PICK x : x = [report |-> r.id, round |-> round, seen |-> r.content, findings |-> findings,
                    status |-> ReflectionOutcome(findings)]
    OBVIOUS
<1>3. PICK rows : rows = [NoRows EXCEPT !.reflections = {x}]
    OBVIOUS
<1>4. Begin(p, rows) /\ rows.reports = {} /\ rows.reflections = {x} /\ x.findings = findings
  <2>1. Begin(p, rows)
      BY <1>1, <1>2, <1>3 DEF BeginReflect
  <2>2. rows.reports = {} /\ rows.reflections = {x}
      BY <1>3 DEF NoRows
  <2> QED
      BY <1>2, <2>1, <2>2
<1>5. IsFiniteSet(findings)
    BY <1>1, FindingsFinite DEF LineageInv, LineageRow
<1>6. RowsInherit(rows)
    BY <1>4, <1>5 DEF RowsInherit
<1> QED
    BY <1>4, <1>6, BeginInherits

\* What becomes of the claims of a report in its successors.
LEMMA RebasedRow ==
  ASSUME NEW r, LineageRow(r), r \in reports, NEW target, NEW step \in {"rev", "seal"},
         target.id = Append(r.id, step), target.prev = r.id,
         "blocks" \in DOMAIN target.content, target.content.blocks \in Seq(BlocksOf(r.claimB)),
         target.claimB = RebaseClaims(r.claimB, target.content.blocks),
         target.evB = RebaseEvidence(r.evB, target.content.blocks),
         CompleteBindingGraph(target.content.blocks, target.claimB, target.evB)
  PROVE  LineageRow(target) /\ Descends(target)
<1>1. PICK blocks : blocks = target.content.blocks
    OBVIOUS
<1>2. ClaimsOf(blocks) \subseteq r.claimB
    BY <1>1, ClaimsWithin
<1>3. blocks \in Seq(BlockRows)
    BY <1>1 DEF BlocksOf
<1>4. target.claimB = ClaimsOf(blocks)
    BY <1>1, <1>2 DEF RebaseClaims
<1>5. target.claimB \subseteq r.claimB /\ target.evB \subseteq r.evB
    BY <1>2, <1>4 DEF RebaseEvidence
<1>6. \A c \in target.claimB : IsLimitation(c) \/ \E eb \in target.evB : eb[1] = c
    BY DEF CompleteBindingGraph
<1>7. target.id \in Seq(ReportTypes \cup {"rev", "seal"})
  <2>1. PICK id \in Seq(ReportTypes \cup {"rev", "seal"}) : id = r.id
      BY DEF LineageRow
  <2>2. Append(id, step) \in Seq(ReportTypes \cup {"rev", "seal"})
      OBVIOUS
  <2> QED
      BY <2>1, <2>2
<1> QED
    BY <1>1, <1>3, <1>4, <1>5, <1>6, <1>7 DEF LineageRow, Descends

\* An order of the findings that have a handler.
LEMMA OrderType ==
  ASSUME NEW findings, IsFiniteSet(findings), NEW order \in SetToSeqs(Handled(findings))
  PROVE  order \in Seq(Handled(findings))
<1>1. PICK F : F = Handled(findings)
    OBVIOUS
<1>2. IsFiniteSet(F)
    BY <1>1, FS_Subset DEF Handled
<1>3. PICK N \in Nat : N = Cardinality(F)
    BY <1>2, FS_CardinalityType
<1>4. order \in [1..N -> F]
    BY <1>1, <1>3 DEF SetToSeqs
<1> QED
    BY <1>1, <1>4

LEMMA ReviseInherits ==
  ASSUME LineageInv, NEW p \in Procs, NEW r \in reports, NEW x \in reflections, BeginRevise(p, r, x)
  PROVE  LineageInv'
<1>1. PICK order \in SetToSeqs(Handled(x.findings)) :
         LET revised == ReviseContent(r.content, order)
             target  == RevisionTarget(r, revised.content)
             left    == x.findings \ revised.applied
         IN  /\ CompleteBindingGraph(target.content.blocks, target.claimB, target.evB)
             /\ Begin(p, [NoRows EXCEPT
                  !.reports = {target},
                  !.revisions = {[source |-> r.id, target |-> target.id, applied |-> revised.applied,
                                  unresolved |-> left, status |-> RevisionOutcome(left)]}])
    BY DEF BeginRevise
<1>2. PICK revised : revised = ReviseContent(r.content, order)
    OBVIOUS
<1>3. PICK target : target = RevisionTarget(r, revised.content)
    OBVIOUS
<1>4. PICK vs : vs = {[source |-> r.id, target |-> target.id, applied |-> revised.applied,
                       unresolved |-> x.findings \ revised.applied,
                       status |-> RevisionOutcome(x.findings \ revised.applied)]}
    OBVIOUS
<1>5. PICK rows : rows = [NoRows EXCEPT !.reports = {target}, !.revisions = vs]
    OBVIOUS
<1>6. Begin(p, rows) /\ CompleteBindingGraph(target.content.blocks, target.claimB, target.evB)
    BY <1>1, <1>2, <1>3, <1>4, <1>5
<1>7. rows.reports = {target} /\ rows.reflections = {}
    BY <1>5 DEF NoRows
<1>8. PICK F : F = Handled(x.findings)
    OBVIOUS
<1>9. order \in Seq(F)
    BY <1>8, OrderType DEF LineageInv
<1>10. LineageRow(r)
    BY DEF LineageInv
<1>11. PICK blocks : blocks = r.content.blocks
    OBVIOUS
<1>12. blocks \in Seq(BlocksOf(r.claimB))
    BY <1>10, <1>11, OwnClaims DEF LineageRow
<1>13. PICK done : done = Revised(blocks, order)
    OBVIOUS
<1>14. Allocate(done.blocks) \in Seq(BlocksOf(r.claimB))
    BY <1>9, <1>12, <1>13, RevisedType, AllocateType
<1>15. "blocks" \in DOMAIN revised.content /\ revised.content.blocks = Allocate(done.blocks)
  <2>1. PICK content : content = r.content
      OBVIOUS
  <2>2. "blocks" \in DOMAIN content
      BY <1>10, <2>1 DEF LineageRow
  <2>3. revised.content = [content EXCEPT !.blocks = Allocate(done.blocks)]
      BY <1>2, <1>11, <1>13, <2>1 DEF ReviseContent
  <2> QED
      BY <2>2, <2>3
<1>16. /\ target.id = Append(r.id, "rev") /\ target.prev = r.id
       /\ target.content = revised.content
    BY <1>3 DEF RevisionTarget
<1>17. /\ target.claimB = RebaseClaims(r.claimB, revised.content.blocks)
       /\ target.evB = RebaseEvidence(r.evB, revised.content.blocks)
    BY <1>3 DEF RevisionTarget
<1>18. LineageRow(target) /\ Descends(target)
    BY <1>6, <1>10, <1>14, <1>15, <1>16, <1>17, RebasedRow
<1>19. RowsInherit(rows)
    BY <1>7, <1>18 DEF RowsInherit
<1> QED
    BY <1>6, <1>19, BeginInherits

LEMMA ReleaseInherits ==
  ASSUME LineageInv, NEW p \in Procs, NEW r \in reports, NEW x \in reflections, BeginRelease(p, r, x)
  PROVE  LineageInv'
<1>1. PICK decision : decision = Decision(RequestOf(r).manifest, r, x)
    OBVIOUS
<1>2. PICK sealed : sealed = SealedReport(r)
    OBVIOUS
<1>3. PICK reps : reps = IF decision = "PUBLISHABLE" THEN {sealed} ELSE {}
    OBVIOUS
<1>4. PICK gs : gs = {[candidate |-> r.id, reflection |-> << x.report, x.round >>, decision |-> decision,
                       sealed |-> IF decision = "PUBLISHABLE" THEN sealed.id ELSE NoId]}
    OBVIOUS
<1>5. PICK rows : rows = [NoRows EXCEPT !.reports = reps, !.gates = gs]
    OBVIOUS
<1>6. Begin(p, rows)
    BY <1>1, <1>2, <1>3, <1>4, <1>5 DEF BeginRelease
<1>7. rows.reports = reps /\ rows.reflections = {}
    BY <1>5 DEF NoRows
<1>8. LineageRow(r)
    BY DEF LineageInv
<1>9. ASSUME decision = "PUBLISHABLE" PROVE LineageRow(sealed) /\ Descends(sealed)
  <2>1. CompleteBindingGraph(r.content.blocks, sealed.claimB, sealed.evB)
      BY <1>1, <1>2, <1>9 DEF BeginRelease
  <2>2. sealed.id = Append(r.id, "seal") /\ sealed.prev = r.id /\ sealed.content = r.content
      BY <1>2 DEF SealedReport
  <2>3. /\ sealed.claimB = RebaseClaims(r.claimB, r.content.blocks)
        /\ sealed.evB = RebaseEvidence(r.evB, r.content.blocks)
      BY <1>2 DEF SealedReport
  <2>4. "blocks" \in DOMAIN r.content /\ r.content.blocks \in Seq(BlocksOf(r.claimB))
    <3>1. PICK blocks : blocks = r.content.blocks
        OBVIOUS
    <3>2. blocks \in Seq(BlocksOf(r.claimB))
        BY <1>8, <3>1, OwnClaims DEF LineageRow
    <3> QED
        BY <1>8, <3>1, <3>2 DEF LineageRow
  <2> QED
      BY <1>8, <2>1, <2>2, <2>3, <2>4, RebasedRow
<1>10. RowsInherit(rows)
    BY <1>3, <1>7, <1>9 DEF RowsInherit
<1> QED
    BY <1>6, <1>10, BeginInherits

LEMMA CommitInherits ==
  ASSUME LineageInv, NEW p \in Procs, Commit(p) PROVE LineageInv'
<1>1. PICK rows : rows = tx[p]
    OBVIOUS
<1>2. /\ package' = package /\ reports' = reports \cup rows.reports
      /\ reflections' = reflections \cup rows.reflections /\ tx' = [tx EXCEPT ![p] = NoId]
    BY <1>1 DEF Commit
<1>3. RowsInherit(rows)
    BY <1>1 DEF Commit, LineageInv
<1>4. \A r \in rows.reports : AcceptsReport(r)
    BY <1>1 DEF Commit, Accepts
<1>5. ASSUME NEW q \in Procs, tx'[q] # NoId PROVE RowsInherit(tx[q])'
  <2>1. q # p
      BY <1>2, <1>5 DEF LineageInv
  <2>2. PICK old : old = tx[q]
      OBVIOUS
  <2>3. tx'[q] = old
      BY <1>2, <2>1, <2>2 DEF LineageInv
  <2>4. RowsInherit(old)
      BY <1>5, <2>2, <2>3 DEF LineageInv
  <2>5. RowsInherit(old)'
      BY <1>2, <2>4, RowsStayInherited
  <2> QED
      BY <2>3, <2>5
<1>6. \A r, o \in reports' : r.id = o.id => r = o
    BY <1>2, <1>3, <1>4 DEF LineageInv, RowsInherit, AcceptsReport
<1>7. \A r \in reports' : LineageRow(r) /\ Descends(r)'
  <2>1. \A r \in reports' : LineageRow(r) /\ Descends(r)
      BY <1>2, <1>3 DEF LineageInv, RowsInherit
  <2> QED
      BY <1>2, <2>1 DEF Descends
<1>8. \A x \in reflections' : IsFiniteSet(x.findings)
    BY <1>2, <1>3 DEF LineageInv, RowsInherit
<1>9. package' \in Packages /\ DOMAIN tx' = Procs
    BY <1>2 DEF LineageInv
<1> QED
    BY <1>5, <1>6, <1>7, <1>8, <1>9 DEF LineageInv

LEMMA LineageStep == LineageInv /\ [Next]_vars => LineageInv'
<1> SUFFICES ASSUME LineageInv, [Next]_vars PROVE LineageInv'
    OBVIOUS
<1>1. CASE UNCHANGED vars \/ SeedPolicy \/ SeedReflectionPolicy \/ SeedTemplates
    BY <1>1, LineageUnmoved DEF vars, SeedPolicy, SeedReflectionPolicy, SeedTemplates, Seed, LineageInv
<1>2. ASSUME NEW p \in Procs, Abort(p) PROVE LineageInv'
  <2>1. \A q \in Procs : tx'[q] = NoId \/ tx'[q] = tx[q]
      BY <1>2 DEF Abort, LineageInv
  <2> QED
      BY <1>2, <2>1, LineageUnmoved DEF Abort, LineageInv
<1> QED
    BY <1>1, <1>2, GenerateInherits, ReflectInherits, ReviseInherits, ReleaseInherits, CommitInherits DEF Next

\* No report claims or cites more than the report it succeeds, and its bindings
\* cover exactly the claims of its body, whatever findings were applied in
\* whatever order (rebase_report_bindings, require_complete_binding_graph).
THEOREM LineageKept == Spec => []LineageNeverGrows
<1>1. LineageInv => LineageNeverGrows
  <2> SUFFICES ASSUME LineageInv, NEW r \in reports
               PROVE  /\ \A o \in reports : r.prev = o.id => r.claimB \subseteq o.claimB /\ r.evB \subseteq o.evB
                      /\ r.claimB = ClaimsOf(r.content.blocks)
                      /\ \A c \in r.claimB : IsLimitation(c) \/ \E eb \in r.evB : eb[1] = c
      BY DEF LineageNeverGrows
  <2>1. LineageRow(r) /\ Descends(r)
      BY DEF LineageInv
  <2>2. ASSUME NEW o \in reports, r.prev = o.id PROVE r.claimB \subseteq o.claimB /\ r.evB \subseteq o.evB
    <3>1. o.id # NoId
        BY NoIdAssumption DEF LineageInv, LineageRow
    <3>2. PICK o2 \in reports : o2.id = r.prev /\ r.claimB \subseteq o2.claimB /\ r.evB \subseteq o2.evB
        BY <2>1, <2>2, <3>1 DEF Descends
    <3>3. o2 = o
        BY <2>2, <3>2 DEF LineageInv
    <3> QED
        BY <3>2, <3>3
  <2> QED
      BY <2>1, <2>2 DEF LineageRow
<1> QED
    BY <1>1, LineageInit, LineageStep, PTL DEF Spec

(***************************************************************************)
(* Convergence of revision.  The findings of a composed or revised report  *)
(* can only delete blocks of claims, qualify them and renumber references; *)
(* the sections whose absence would be a finding keep a block that no      *)
(* finding deletes.                                                        *)
(***************************************************************************)

\* A block that composition makes and revision leaves: a factual one is the block
\* of its claim, in the section of that claim.
BodyBlocks ==
  {b \in BlocksOf(Claims) : IF b.claim = NoClaim THEN b.key \notin {"claim"} \X Claims
                            ELSE b.key = << "claim", b.claim >> /\ b.sec = ClaimSection(b.claim)}

\* A finding may ask for the deletion of the block of such a claim only.
Deletable(c) == ClaimInfo[c].links = << >> \/ ClaimSection(c) = "DOCUMENT_EVIDENCE"

Lasting(blocks, s) ==
  \E i \in DOMAIN blocks : blocks[i].sec = s /\ (blocks[i].claim = NoClaim \/ ~Deletable(blocks[i].claim))

Bodies == {blocks \in Seq(BodyBlocks) : Lasting(blocks, "DATA_QUALITY") /\ Lasting(blocks, "LIMITATIONS")}

\* Only labels differ, and texts that were qualified.
Same(old, new) ==
  /\ DOMAIN new = DOMAIN old
  /\ \A i \in DOMAIN old : /\ new[i].key = old[i].key /\ new[i].claim = old[i].claim /\ new[i].sec = old[i].sec
                           /\ new[i].text = old[i].text \/ new[i].text = "QUALIFIED"

LEMMA ElementType == ASSUME NEW S, NEW s \in Seq(S), NEW i \in DOMAIN s PROVE s[i] \in S
OBVIOUS

LEMMA BodyTyped == ASSUME NEW blocks \in Bodies PROVE blocks \in Seq(BlocksOf(Claims)) /\ blocks \in Seq(BlockRows)
<1>1. BodyBlocks \subseteq BlocksOf(Claims) /\ BodyBlocks \subseteq BlockRows
    BY DEF BodyBlocks, BlocksOf
<1>2. blocks \in Seq(BodyBlocks)
    BY DEF Bodies
<1> HIDE DEF BodyBlocks
<1> QED
    BY <1>1, <1>2

LEMMA SameBody ==
  ASSUME NEW old \in Bodies, NEW new \in Seq(BlocksOf(Claims)), Same(old, new)
  PROVE  new \in Bodies /\ KeysOf(new) = KeysOf(old) /\ Factual(new) = Factual(old)
<1>1. old \in Seq(BodyBlocks) /\ DOMAIN new = DOMAIN old /\ DOMAIN new = 1..Len(new)
    BY DEF Bodies, Same
<1>2. ASSUME NEW i \in 1..Len(new) PROVE new[i] \in BodyBlocks
  <2>0. i \in DOMAIN new /\ i \in DOMAIN old
      BY <1>1
  <2>1. i \in DOMAIN old /\ old[i] \in BodyBlocks /\ new[i] \in BlocksOf(Claims)
      BY <1>1, <2>0, ElementType
  <2>2. new[i].key = old[i].key /\ new[i].claim = old[i].claim /\ new[i].sec = old[i].sec
      BY <2>1 DEF Same
  <2> QED
      BY <2>1, <2>2 DEF BodyBlocks
<1>3. new \in Seq(BodyBlocks)
  <2> HIDE DEF BodyBlocks
  <2> QED
      BY <1>2
<1>4. ASSUME NEW s, Lasting(old, s) PROVE Lasting(new, s)
    BY <1>1, <1>4 DEF Lasting, Same
<1>5. KeysOf(new) = KeysOf(old) /\ Factual(new) = Factual(old)
    BY <1>1 DEF KeysOf, Factual, Same
<1> QED
    BY <1>3, <1>4, <1>5 DEF Bodies

LEMMA FactualFinite ==
  ASSUME NEW S, NEW blocks \in Seq(S) PROVE IsFiniteSet(Factual(blocks)) /\ Cardinality(Factual(blocks)) \in Nat
<1>1. PICK N \in Nat : N = Len(blocks) /\ DOMAIN blocks = 1..N
    OBVIOUS
<1>2. IsFiniteSet(1..N)
    BY FS_Interval
<1>3. Factual(blocks) \subseteq 1..N
    BY <1>1 DEF Factual
<1> QED
    BY <1>2, <1>3, FS_Subset, FS_CardinalityType

\* Deleting the block of a claim.
LEMMA DeleteBody ==
  ASSUME NEW old \in Bodies, NEW c \in Claims, Deletable(c), NEW key \in KeysOf(old), key = << "claim", c >>,
         NEW new, new = DeleteBlock(old, key)
  PROVE  /\ new \in Bodies /\ key \notin KeysOf(new)
         /\ \A i \in DOMAIN new : \E j \in DOMAIN old : new[i] = old[j]
         /\ Cardinality(Factual(new)) < Cardinality(Factual(old))
<1>1. old \in Seq(BodyBlocks)
    BY DEF Bodies
<1>2. new \in Seq(BodyBlocks)
    BY <1>1, DeleteType
<1> DEFINE I == {i \in DOMAIN old : old[i].key # key}
<1>3. DOMAIN old \cap I = I
    OBVIOUS
<1>4. PICK e \in [DOMAIN new -> I] :
        /\ \A k \in DOMAIN new : new[k] = old[e[k]]
        /\ \A k, l \in DOMAIN new : e[k] = e[l] => k = l
        /\ \A n \in I : \E k \in DOMAIN new : e[k] = n
  <2>1. PICK J : J = I
      OBVIOUS
  <2>2. new = At(old, J) /\ DOMAIN old \cap J = J
      BY <1>3, <2>1 DEF DeleteBlock
  <2>3. PICK e \in [DOMAIN At(old, J) -> DOMAIN old \cap J] :
          /\ \A k \in DOMAIN At(old, J) : At(old, J)[k] = old[e[k]]
          /\ \A k, l \in DOMAIN At(old, J) : e[k] = e[l] => k = l
          /\ \A n \in DOMAIN old \cap J : \E k \in DOMAIN At(old, J) : e[k] = n
      BY <1>1, AtPlaces
  <2>4. e \in [DOMAIN new -> J]
      BY <2>2, <2>3
  <2>5. /\ \A k \in DOMAIN new : new[k] = old[e[k]]
        /\ \A k, l \in DOMAIN new : e[k] = e[l] => k = l
        /\ \A n \in J : \E k \in DOMAIN new : e[k] = n
      BY <2>2, <2>3
  <2> HIDE DEF I
  <2> QED
      BY <2>1, <2>4, <2>5
<1>5. \A k \in DOMAIN new : e[k] \in DOMAIN old /\ new[k] = old[e[k]] /\ old[e[k]].key # key
    BY <1>4
<1>6. key \notin KeysOf(new)
    BY <1>5 DEF KeysOf
<1>7. ASSUME NEW s \in {"DATA_QUALITY", "LIMITATIONS"}, Lasting(old, s) PROVE Lasting(new, s)
  <2>1. PICK i \in DOMAIN old : old[i].sec = s /\ (old[i].claim = NoClaim \/ ~Deletable(old[i].claim))
      BY <1>7 DEF Lasting
  <2>2. old[i] \in BodyBlocks
      BY <1>1
  <2>3. old[i].key # key
    <3>1. CASE old[i].claim = NoClaim
      <4>1. key \in {"claim"} \X Claims
          OBVIOUS
      <4> QED
          BY <2>2, <3>1, <4>1 DEF BodyBlocks
    <3>2. CASE old[i].claim # NoClaim
      <4>1. old[i].key = << "claim", old[i].claim >> /\ old[i].claim # c
          BY <2>1, <2>2, <3>2 DEF BodyBlocks
      <4> QED
          BY <4>1
    <3> QED
        BY <3>1, <3>2
  <2>4. PICK k \in DOMAIN new : e[k] = i
      BY <1>4, <2>3
  <2> QED
      BY <1>5, <2>1, <2>4 DEF Lasting
<1>8. new \in Bodies
    BY <1>2, <1>7 DEF Bodies
<1>9. PICK d \in DOMAIN old : old[d].key = key
    BY DEF KeysOf
<1>10. d \in Factual(old)
  <2>1. old[d] \in BodyBlocks /\ key \in {"claim"} \X Claims
      BY <1>1
  <2> QED
      BY <1>9, <2>1 DEF Factual, BodyBlocks
<1>11. PICK K : K = Factual(old) \ {d}
    OBVIOUS
<1>12. IsFiniteSet(K) /\ Cardinality(K) = Cardinality(Factual(old)) - 1
    BY <1>1, <1>10, <1>11, FactualFinite, FS_RemoveElement
<1>13. PICK g : g = [k \in Factual(new) |-> e[k]]
    OBVIOUS
<1>14. \A k \in Factual(new) : k \in DOMAIN new /\ e[k] \in K
    BY <1>5, <1>9, <1>11 DEF Factual
<1>15. g \in Injection(Factual(new), K)
    BY <1>4, <1>13, <1>14 DEF Injection, IsInjective
<1>16. Cardinality(Factual(new)) <= Cardinality(K)
    BY <1>12, <1>15, FS_Injection
<1>17. Cardinality(Factual(new)) \in Nat /\ Cardinality(Factual(old)) \in Nat
    BY <1>1, <1>2, FactualFinite
<1> QED
    BY <1>5, <1>6, <1>8, <1>12, <1>16, <1>17

\* What revision does about each finding.
DeletionCodes == {"PRIMARY_CLAIM_HAS_EVIDENCE", "DOCUMENT_CLAIM_HAS_VALID_CITATION", "STRUCTURED_CLAIM_HAS_LINEAGE"}
ReferenceCodes == {"NO_ORPHAN_BODY_REFERENCE", "NO_UNUSED_APPENDIX_REFERENCE"}

LEMMA Remedies ==
  ASSUME NEW code
  PROVE  /\ code \in DeletionCodes <=> Remediation(code) = "DELETE"
         /\ code = "PARTIAL_SUPPORT_QUALIFIED" <=> Remediation(code) = "QUALIFY"
         /\ code \in ReferenceCodes <=> Remediation(code) = "RENUMBER"
<1>1. code \in DeletionCodes => Remediation(code) = "DELETE"
    BY Zenon DEF Remediation, DeletionCodes
<1>2. code = "PARTIAL_SUPPORT_QUALIFIED" => Remediation(code) = "QUALIFY"
    BY Zenon DEF Remediation
<1>3. code \in ReferenceCodes => Remediation(code) = "RENUMBER"
    BY Zenon DEF Remediation, ReferenceCodes
<1>4. Remediation(code) = "DELETE" => code \in DeletionCodes
    BY Zenon DEF Remediation, DeletionCodes
<1>5. Remediation(code) = "QUALIFY" => code = "PARTIAL_SUPPORT_QUALIFIED"
    BY Zenon DEF Remediation
<1>6. Remediation(code) = "RENUMBER" => code \in ReferenceCodes
    BY Zenon DEF Remediation, ReferenceCodes
<1> QED
    BY <1>1, <1>2, <1>3, <1>4, <1>5, <1>6

LEMMA NoRemedy ==
  ASSUME NEW code \in {"STRICT_DOCUMENT_PUBLISHED_AT_KNOWN", "SECURITY_MATCHES", "REPORT_INPUT_MANIFEST_UNCHANGED",
                       "REPORT_STRUCTURE_VERSION_CHAIN_VALID", "NO_REAL_RESEARCH_SYNTHETIC_EVIDENCE",
                       "SYNTHETIC_NOT_REAL_COMPANY_RESEARCH"}
  PROVE  Remediation(code) = "NO_HANDLER"
BY Zenon DEF Remediation

LEMMA DisclosedClaims ==
  ASSUME NEW c
  PROVE  /\ ClaimInfo[c].support = "CONFLICTING" => ClaimSection(c) = "CONFLICTS"
         /\ ClaimInfo[c].support = "UNSUPPORTED" => ClaimSection(c) = "UNSUPPORTED_CLAIMS"
<1>1. ClaimInfo[c].support = "CONFLICTING" => ClaimSection(c) = "CONFLICTS"
    BY Zenon DEF ClaimSection
<1>2. ClaimInfo[c].support = "UNSUPPORTED" => ClaimSection(c) = "UNSUPPORTED_CLAIMS"
    BY Zenon DEF ClaimSection
<1> QED
    BY <1>1, <1>2

\* The findings about a block of a body.
LEMMA BlockCodes ==
  ASSUME NEW b \in BodyBlocks, b.claim # NoClaim, NEW k \in BlockChecks(b)
  PROVE  \/ k \in DeletionCodes /\ Deletable(b.claim)
         \/ k = "PARTIAL_SUPPORT_QUALIFIED" /\ b.text # "QUALIFIED"
         \/ k = "STRICT_DOCUMENT_PUBLISHED_AT_KNOWN"
<1>1. b.sec = ClaimSection(b.claim)
    BY DEF BodyBlocks
<1>2. CASE k \in BindingChecks(b)
    BY <1>1, <1>2 DEF BindingChecks, Is, DocumentSections, DeletionCodes, Deletable
<1>3. CASE k \in TemporalChecks(b)
    BY <1>3 DEF TemporalChecks, Is
<1>4. CASE k \in DisclosureChecks(b)
  <2>1. PICK support : support = ClaimInfo[b.claim].support
      OBVIOUS
  <2>2. /\ support = "CONFLICTING" => b.sec = "CONFLICTS"
        /\ support = "UNSUPPORTED" => b.sec = "UNSUPPORTED_CLAIMS"
      BY <1>1, <2>1, DisclosedClaims
  <2> QED
      BY <1>4, <2>1, <2>2 DEF DisclosureChecks, Is
<1> QED
    BY <1>2, <1>3, <1>4 DEF BlockChecks

\* Qualifying a block and renumbering it bring no finding about it.
LEMMA ChecksFollow ==
  ASSUME NEW o, NEW b, b.claim = o.claim, b.sec = o.sec, b.text = o.text \/ b.text = "QUALIFIED"
  PROVE  BlockChecks(b) \subseteq BlockChecks(o)
<1>1. BindingChecks(b) = BindingChecks(o) /\ TemporalChecks(b) = TemporalChecks(o)
    BY DEF BindingChecks, TemporalChecks
<1>2. DisclosureChecks(b) \subseteq DisclosureChecks(o)
    BY DEF DisclosureChecks, Is
<1> QED
    BY <1>1, <1>2 DEF BlockChecks

\* The findings about a report, about one of its blocks or not.
LEMMA FindingCases ==
  ASSUME NEW r, NEW m, NEW f \in ReflectionFindings(r, m)
  PROVE  \/ /\ f.block = NoKey
            /\ f.code \in ContextChecks(r, m) \cup ProvenanceChecks(r.content, m) \cup StructureChecks(r.content)
         \/ \E i \in Factual(r.content.blocks) : /\ f.block = r.content.blocks[i].key
                                                 /\ f.code \in BlockChecks(r.content.blocks[i])
BY DEF ReflectionFindings

LEMMA BlockFinding ==
  ASSUME NEW r, NEW m, NEW i \in Factual(r.content.blocks), NEW k \in BlockChecks(r.content.blocks[i])
  PROVE  [code |-> k, block |-> r.content.blocks[i].key] \in ReflectionFindings(r, m)
BY DEF ReflectionFindings

LEMMA FindingRecord ==
  ASSUME NEW r, NEW m, NEW f \in ReflectionFindings(r, m) PROVE f = [code |-> f.code, block |-> f.block]
BY DEF ReflectionFindings

LEMMA SectionsPresent ==
  ASSUME NEW content, content.blocks \in Bodies
  PROVE  StructureChecks(content) \subseteq ReferenceCodes
<1>1. SectionPresent(content, "DATA_QUALITY") /\ SectionPresent(content, "LIMITATIONS")
    BY DEF Bodies, Lasting, SectionPresent
<1> QED
    BY <1>1 DEF StructureChecks, Is, ReferenceCodes

\* All that can be done about the findings of a body.
LEMMA HandledKinds ==
  ASSUME NEW r, NEW m, r.content.blocks \in Bodies, NEW f \in Handled(ReflectionFindings(r, m))
  PROVE  \/ f.code \in DeletionCodes /\ \E c \in Claims : f.block = << "claim", c >> /\ Deletable(c)
         \/ f.code = "PARTIAL_SUPPORT_QUALIFIED"
         \/ f.code \in ReferenceCodes
<1>1. f \in ReflectionFindings(r, m) /\ Remediation(f.code) # "NO_HANDLER"
    BY DEF Handled
<1>2. PICK code : code = f.code
    OBVIOUS
<1>3. CASE code \in ContextChecks(r, m) \cup ProvenanceChecks(r.content, m)
  <2>1. code \in {"SECURITY_MATCHES", "REPORT_INPUT_MANIFEST_UNCHANGED", "REPORT_STRUCTURE_VERSION_CHAIN_VALID",
                  "NO_REAL_RESEARCH_SYNTHETIC_EVIDENCE", "SYNTHETIC_NOT_REAL_COMPANY_RESEARCH"}
      BY <1>3 DEF ContextChecks, ProvenanceChecks, Is
  <2> QED
      BY <1>1, <1>2, <2>1, NoRemedy
<1>4. CASE code \in StructureChecks(r.content)
    BY <1>2, <1>4, SectionsPresent
<1>5. ASSUME NEW i \in Factual(r.content.blocks), f.block = r.content.blocks[i].key,
             code \in BlockChecks(r.content.blocks[i])
      PROVE  \/ code \in DeletionCodes /\ \E c \in Claims : f.block = << "claim", c >> /\ Deletable(c)
             \/ code = "PARTIAL_SUPPORT_QUALIFIED"
  <2>1. PICK b : b = r.content.blocks[i]
      OBVIOUS
  <2>2. b \in BodyBlocks /\ b.claim # NoClaim
    <3>1. PICK blocks \in Seq(BodyBlocks) : blocks = r.content.blocks
        BY DEF Bodies
    <3>2. i \in DOMAIN blocks /\ blocks[i].claim # NoClaim
        BY <1>5, <3>1 DEF Factual
    <3> QED
        BY <2>1, <3>1, <3>2, ElementType
  <2>3. b.claim \in Claims /\ b.key = << "claim", b.claim >>
      BY <2>2 DEF BodyBlocks, BlocksOf
  <2>4. code # "STRICT_DOCUMENT_PUBLISHED_AT_KNOWN"
      BY <1>1, <1>2, NoRemedy
  <2> QED
      BY <1>5, <2>1, <2>2, <2>3, <2>4, BlockCodes
<1> QED
    BY <1>1, <1>2, <1>3, <1>4, <1>5, FindingCases

LEMMA QualifySame ==
  ASSUME NEW old \in Bodies, NEW key, NEW new, new = QualifyPartial(old, key)
  PROVE  /\ new \in Bodies /\ Same(old, new)
         /\ \A i \in DOMAIN new : new[i].key = key => new[i].text = "QUALIFIED"
<1>1. DOMAIN new = DOMAIN old
    BY DEF QualifyPartial
<1>2. ASSUME NEW i \in DOMAIN old
      PROVE  /\ new[i].key = old[i].key /\ new[i].claim = old[i].claim /\ new[i].sec = old[i].sec
             /\ new[i].text = old[i].text \/ new[i].text = "QUALIFIED"
             /\ new[i].key = key => new[i].text = "QUALIFIED"
  <2>1. PICK b \in BlockRows : b = old[i]
      BY BodyTyped, ElementType
  <2>2. new[i] = IF b.key = key THEN [b EXCEPT !.text = "QUALIFIED"] ELSE b
      BY <2>1 DEF QualifyPartial
  <2> QED
      BY <2>1, <2>2 DEF BlockRows
<1>3. Same(old, new)
    BY <1>1, <1>2 DEF Same
<1>4. new \in Seq(BlocksOf(Claims))
    BY BodyTyped, QualifyType
<1> QED
    BY <1>1, <1>2, <1>3, <1>4, SameBody

LEMMA AllocateSame ==
  ASSUME NEW old \in Bodies PROVE Allocate(old) \in Bodies /\ Same(old, Allocate(old))
<1>1. PICK new : new = Allocate(old)
    OBVIOUS
<1>2. DOMAIN new = DOMAIN old
    BY <1>1 DEF Allocate
<1>3. ASSUME NEW i \in DOMAIN old
      PROVE  /\ new[i].key = old[i].key /\ new[i].claim = old[i].claim /\ new[i].sec = old[i].sec
             /\ new[i].text = old[i].text
  <2>1. PICK b \in BlockRows : b = old[i]
      BY BodyTyped, ElementType
  <2>2. PICK label : new[i] = [b EXCEPT !.label = label]
      BY <1>1, <2>1 DEF Allocate
  <2> QED
      BY <2>1, <2>2 DEF BlockRows
<1>4. Same(old, new)
    BY <1>2, <1>3 DEF Same
<1>5. new \in Seq(BlocksOf(Claims))
    BY <1>1, BodyTyped, AllocateType
<1> QED
    BY <1>1, <1>4, <1>5, SameBody

\* What the findings that were applied have left.
Treated(acc) ==
  \A f \in acc.applied :
    /\ f.code \in DeletionCodes => f.block \notin KeysOf(acc.blocks)
    /\ f.code = "PARTIAL_SUPPORT_QUALIFIED" =>
         \A i \in DOMAIN acc.blocks : acc.blocks[i].key = f.block => acc.blocks[i].text = "QUALIFIED"

\* Every factual block was there before, if not qualified.
Derived(old, new) ==
  \A i \in Factual(new) : \E j \in Factual(old) :
    /\ new[i].key = old[j].key /\ new[i].claim = old[j].claim /\ new[i].sec = old[j].sec
    /\ new[i].text = old[j].text \/ new[i].text = "QUALIFIED"

\* The blocks are the same, or fewer are factual.
Shrinks(old, new) == Same(old, new) \/ Cardinality(Factual(new)) < Cardinality(Factual(old))

LEMMA SameFollows ==
  ASSUME NEW source, NEW old \in Bodies, NEW new \in Bodies, Same(old, new), Derived(source, old), Shrinks(source, old)
  PROVE  Derived(source, new) /\ Shrinks(source, new)
<1>1. Factual(new) = Factual(old)
    BY SameBody, BodyTyped
<1>2. Derived(source, new)
  <2> SUFFICES ASSUME NEW i \in Factual(new)
               PROVE  \E j \in Factual(source) :
                        /\ new[i].key = source[j].key /\ new[i].claim = source[j].claim /\ new[i].sec = source[j].sec
                        /\ new[i].text = source[j].text \/ new[i].text = "QUALIFIED"
      BY DEF Derived
  <2>1. i \in Factual(old) /\ i \in DOMAIN old
      BY <1>1 DEF Factual
  <2>2. PICK j \in Factual(source) :
          /\ old[i].key = source[j].key /\ old[i].claim = source[j].claim /\ old[i].sec = source[j].sec
          /\ old[i].text = source[j].text \/ old[i].text = "QUALIFIED"
      BY <2>1 DEF Derived
  <2> QED
      BY <2>1, <2>2 DEF Same
<1>3. Shrinks(source, new)
  <2>1. CASE Same(source, old)
    <3>1. Same(source, new)
        BY <2>1 DEF Same
    <3> QED
        BY <3>1 DEF Shrinks
  <2>2. CASE Cardinality(Factual(old)) < Cardinality(Factual(source))
      BY <1>1, <2>2 DEF Shrinks
  <2> QED
      BY <2>1, <2>2 DEF Shrinks
<1> QED
    BY <1>2, <1>3

\* What can be said of the blocks of a revision at any time.
Revising(source, F) ==
  {acc \in [blocks : Bodies, applied : SUBSET F] :
     Treated(acc) /\ Derived(source, acc.blocks) /\ Shrinks(source, acc.blocks)}

\* The next finding keeps it.
LEMMA RevisingStep ==
  ASSUME NEW source \in Bodies, NEW F, NEW acc \in Revising(source, F), NEW f \in F,
         \/ f.code \in DeletionCodes /\ \E c \in Claims : f.block = << "claim", c >> /\ Deletable(c)
         \/ f.code = "PARTIAL_SUPPORT_QUALIFIED"
         \/ f.code \in ReferenceCodes
  PROVE  RevisionStep(acc, f) \in Revising(source, F)
<1>1. PICK old \in Bodies : old = acc.blocks
    BY DEF Revising
<1>2. Derived(source, old) /\ Shrinks(source, old) /\ Treated(acc) /\ acc.applied \in SUBSET F
    BY <1>1 DEF Revising
<1>3. CASE ~CanApply(old, f)
    BY <1>1, <1>3 DEF RevisionStep
<1> SUFFICES ASSUME CanApply(old, f) PROVE RevisionStep(acc, f) \in Revising(source, F)
    BY <1>3
<1>4. PICK new : new = ApplyFinding(old, f)
    OBVIOUS
<1>5. PICK next : next = [blocks |-> new, applied |-> acc.applied \cup {f}]
    OBVIOUS
<1>6. RevisionStep(acc, f) = next
    BY <1>1, <1>4, <1>5 DEF RevisionStep
<1>7. PICK rem : rem = Remediation(f.code)
    OBVIOUS
<1>8. SUFFICES new \in Bodies /\ Treated(next) /\ Derived(source, new) /\ Shrinks(source, new)
  <2>1. acc.applied \cup {f} \in SUBSET F
      BY <1>2
  <2> QED
      BY <1>2, <1>5, <1>6, <1>8, <2>1 DEF Revising
<1>9. CASE f.code \in DeletionCodes
  <2>1. PICK c \in Claims : f.block = << "claim", c >> /\ Deletable(c)
      BY <1>9, Remedies DEF DeletionCodes, ReferenceCodes
  <2>2. rem = "DELETE"
      BY <1>7, <1>9, Remedies
  <2>3. f.block \in KeysOf(old)
      BY <1>7, <2>2, Zenon DEF CanApply
  <2>4. new = DeleteBlock(old, f.block)
      BY <1>4, <1>7, <2>2, Zenon DEF ApplyFinding
  <2>5. /\ new \in Bodies /\ f.block \notin KeysOf(new)
        /\ \A i \in DOMAIN new : \E j \in DOMAIN old : new[i] = old[j]
        /\ Cardinality(Factual(new)) < Cardinality(Factual(old))
      BY <2>1, <2>3, <2>4, DeleteBody
  <2>6. Treated(next)
    <3>1. KeysOf(new) \subseteq KeysOf(old)
        BY <2>5 DEF KeysOf
    <3>2. f.code # "PARTIAL_SUPPORT_QUALIFIED"
        BY <1>9 DEF DeletionCodes
    <3>3. next.blocks = new /\ next.applied = acc.applied \cup {f}
        BY <1>5
    <3> QED
        BY <1>1, <1>2, <2>5, <3>1, <3>2, <3>3 DEF Treated
  <2>7. Derived(source, new)
    <3>1. \A i \in Factual(new) : \E k \in Factual(old) : new[i] = old[k]
        BY <2>5 DEF Factual
    <3> QED
        BY <1>2, <3>1 DEF Derived
  <2>8. Shrinks(source, new)
    <3>1. Cardinality(Factual(new)) \in Nat /\ Cardinality(Factual(old)) \in Nat /\ Cardinality(Factual(source)) \in Nat
        BY <2>5, BodyTyped, FactualFinite
    <3>2. Same(source, old) => Factual(old) = Factual(source)
        BY SameBody, BodyTyped
    <3> QED
        BY <1>2, <2>5, <3>1, <3>2 DEF Shrinks
  <2> QED
      BY <2>5, <2>6, <2>7, <2>8
<1>10. CASE f.code = "PARTIAL_SUPPORT_QUALIFIED"
  <2>1. rem = "QUALIFY"
      BY <1>7, <1>10, Remedies
  <2>2. new = QualifyPartial(old, f.block)
      BY <1>4, <1>7, <2>1, Zenon DEF ApplyFinding
  <2>3. /\ new \in Bodies /\ Same(old, new)
        /\ \A i \in DOMAIN new : new[i].key = f.block => new[i].text = "QUALIFIED"
      BY <2>2, QualifySame
  <2>4. Treated(next)
    <3>1. KeysOf(new) = KeysOf(old)
        BY <2>3, SameBody, BodyTyped
    <3>2. f.code \notin DeletionCodes
        BY <1>10 DEF DeletionCodes
    <3>3. next.blocks = new /\ next.applied = acc.applied \cup {f}
        BY <1>5
    <3> QED
        BY <1>1, <1>2, <2>3, <3>1, <3>2, <3>3 DEF Treated, Same
  <2> QED
      BY <1>2, <2>3, <2>4, SameFollows
<1>11. CASE f.code \in ReferenceCodes
  <2>1. rem = "RENUMBER"
      BY <1>7, <1>11, Remedies
  <2>2. new = Allocate(old)
      BY <1>4, <1>7, <2>1, Zenon DEF ApplyFinding
  <2>3. new \in Bodies /\ Same(old, new)
      BY <2>2, AllocateSame
  <2>4. Treated(next)
    <3>1. KeysOf(new) = KeysOf(old)
        BY <2>3, SameBody, BodyTyped
    <3>2. f.code \notin DeletionCodes /\ f.code # "PARTIAL_SUPPORT_QUALIFIED"
        BY <1>11 DEF DeletionCodes, ReferenceCodes
    <3>3. next.blocks = new /\ next.applied = acc.applied \cup {f}
        BY <1>5
    <3> QED
        BY <1>1, <1>2, <2>3, <3>1, <3>2, <3>3 DEF Treated, Same
  <2> QED
      BY <1>2, <2>3, <2>4, SameFollows
<1> QED
    BY <1>9, <1>10, <1>11

(***************************************************************************)
(* References.  The label of a block depends on the claims and their order *)
(* only.                                                                   *)
(***************************************************************************)
Targets(blocks) == [i \in DOMAIN blocks |-> ReferenceTarget(blocks[i].claim)]

LabelAt(factual, targets, i) ==
  LET first == Min({j \in factual : j <= i /\ targets[j] = targets[i]})
  IN  IF i \in factual
      THEN << targets[i][1],
              Cardinality({targets[j] : j \in {k \in factual : k <= first /\ targets[k][1] = targets[i][1]}}) >>
      ELSE NoLabel

Numbered(blocks) == \A i \in DOMAIN blocks : blocks[i].label = LabelAt(Factual(blocks), Targets(blocks), i)

LEMMA AllocatedLabel ==
  ASSUME NEW old \in Bodies, NEW i \in DOMAIN old
  PROVE  Allocate(old)[i].label = LabelAt(Factual(old), Targets(old), i)
<1> DEFINE factual   == Factual(old)
           target(k) == ReferenceTarget(old[k].claim)
           first(k)  == Min({j \in factual : j <= k /\ target(j) = target(k)})
           number(k) == Cardinality({target(j) : j \in {n \in factual : n <= first(k) /\ target(n)[1] = target(k)[1]}})
           label     == IF i \in factual THEN << target(i)[1], number(i) >> ELSE NoLabel
<1>1. Allocate(old)[i] = [old[i] EXCEPT !.label = label]
    BY DEF Allocate
<1>2. PICK b \in BlockRows : b = old[i]
    BY BodyTyped, ElementType
<1>3. Allocate(old)[i].label = label
  <2>1. PICK l : l = label
      OBVIOUS
  <2>2. Allocate(old)[i] = [b EXCEPT !.label = l]
      BY <1>1, <1>2, <2>1
  <2>3. [b EXCEPT !.label = l].label = l
      BY <1>2 DEF BlockRows
  <2> QED
      BY <2>1, <2>2, <2>3
<1>4. PICK targets : targets = Targets(old)
    OBVIOUS
<1>5. \A k \in DOMAIN old : targets[k] = target(k)
    BY <1>4 DEF Targets
<1>6. factual \subseteq DOMAIN old
    BY DEF Factual
<1> HIDE DEF target, factual
<1>7. {j \in factual : j <= i /\ target(j) = target(i)} = {j \in factual : j <= i /\ targets[j] = targets[i]}
    BY <1>5, <1>6
<1>8. PICK least : least = first(i)
    OBVIOUS
<1>9. least = Min({j \in factual : j <= i /\ targets[j] = targets[i]})
    BY <1>7, <1>8
<1>10. PICK K : K = {n \in factual : n <= least /\ target(n)[1] = target(i)[1]}
    OBVIOUS
<1>11. K = {n \in factual : n <= least /\ targets[n][1] = targets[i][1]}
    BY <1>5, <1>6, <1>10
<1>12. {target(j) : j \in K} = {targets[j] : j \in K}
    BY <1>5, <1>6, <1>10
<1>13. number(i) = Cardinality({targets[j] : j \in K})
    BY <1>8, <1>10, <1>12
<1>14. LabelAt(factual, targets, i) =
         IF i \in factual THEN << targets[i][1], Cardinality({targets[j] : j \in K}) >> ELSE NoLabel
    BY <1>9, <1>11 DEF LabelAt
<1>15. label = IF i \in factual THEN << targets[i][1], Cardinality({targets[j] : j \in K}) >> ELSE NoLabel
  <2> HIDE DEF number
  <2> QED
      BY <1>5, <1>13
<1> HIDE DEF label
<1>16. Allocate(old)[i].label = LabelAt(factual, targets, i)
    BY <1>3, <1>14, <1>15
<1> QED
    BY <1>4, <1>16 DEF factual

LEMMA SameTargets ==
  ASSUME NEW old \in Bodies, NEW new \in Bodies, Same(old, new)
  PROVE  Factual(new) = Factual(old) /\ Targets(new) = Targets(old)
<1>1. Factual(new) = Factual(old)
    BY SameBody, BodyTyped
<1>2. Targets(new) = Targets(old)
    BY DEF Same, Targets
<1> QED
    BY <1>1, <1>2

LEMMA AllocateNumbered ==
  ASSUME NEW old \in Bodies PROVE Numbered(Allocate(old))
<1>1. PICK new \in Bodies : new = Allocate(old) /\ Same(old, new)
    BY AllocateSame
<1>2. Factual(new) = Factual(old) /\ Targets(new) = Targets(old) /\ DOMAIN new = DOMAIN old
    BY <1>1, SameTargets DEF Same
<1>3. ASSUME NEW i \in DOMAIN new PROVE new[i].label = LabelAt(Factual(new), Targets(new), i)
    BY <1>1, <1>2, AllocatedLabel
<1> QED
    BY <1>1, <1>3 DEF Numbered

LEMMA NumberedAlike ==
  ASSUME NEW old \in Bodies, NEW new \in Bodies, Same(old, new), Numbered(old), Numbered(new)
  PROVE  \A i \in DOMAIN old : new[i].label = old[i].label
<1>1. Factual(new) = Factual(old) /\ Targets(new) = Targets(old) /\ DOMAIN new = DOMAIN old
    BY SameTargets DEF Same
<1> QED
    BY <1>1 DEF Numbered

\* No two factual blocks share a label.
Unambiguous(blocks) == Cardinality(BodyLabels(blocks)) = Cardinality(Factual(blocks))

LEMMA LabelCount ==
  ASSUME NEW blocks \in Bodies
  PROVE  /\ Cardinality(BodyLabels(blocks)) \in Nat /\ Cardinality(BodyLabels(blocks)) <= Cardinality(Factual(blocks))
         /\ Unambiguous(blocks) => \A i, j \in Factual(blocks) : blocks[i].label = blocks[j].label => i = j
<1>1. PICK K : K = Factual(blocks)
    OBVIOUS
<1>2. PICK L : L = BodyLabels(blocks)
    OBVIOUS
<1>3. IsFiniteSet(K)
    BY <1>1, BodyTyped, FactualFinite
<1>4. PICK f : f = [i \in K |-> blocks[i].label]
    OBVIOUS
<1>5. f \in Surjection(K, L)
    BY <1>1, <1>2, <1>4 DEF BodyLabels, Surjection
<1>6. /\ IsFiniteSet(L) /\ Cardinality(L) <= Cardinality(K)
      /\ Cardinality(L) = Cardinality(K) <=> f \in Injection(K, L)
    BY <1>3, <1>5, FS_Surjection
<1>7. Cardinality(L) \in Nat
    BY <1>6, FS_CardinalityType
<1>8. ASSUME Unambiguous(blocks), NEW i \in K, NEW j \in K, blocks[i].label = blocks[j].label PROVE i = j
  <2>1. f \in Injection(K, L)
      BY <1>1, <1>2, <1>6, <1>8 DEF Unambiguous
  <2> QED
      BY <1>4, <1>8, <2>1 DEF Injection, IsInjective
<1> QED
    BY <1>1, <1>2, <1>6, <1>7, <1>8

\* A body that refers to the whole appendix of the first version is that of the
\* first version: a label leads to the row it always led to.
LEMMA Resolution ==
  ASSUME NEW first \in Bodies, NEW body \in Bodies, Numbered(first), Numbered(body), Shrinks(first, body),
         Unambiguous(first), {row.label : row \in EvidenceAppendix(first)} \subseteq BodyLabels(body),
         NEW i \in Factual(body), NEW row \in EvidenceAppendix(first), row.label = body[i].label
  PROVE  row.claim = body[i].claim
<1>1. BodyLabels(first) \subseteq BodyLabels(body)
  <2> SUFFICES ASSUME NEW k \in Factual(first) PROVE first[k].label \in BodyLabels(body)
      BY DEF BodyLabels
  <2>1. PICK o : o = [label |-> first[k].label, claim |-> first[k].claim]
      OBVIOUS
  <2>2. o \in EvidenceAppendix(first) /\ o.label = first[k].label
      BY <2>1 DEF EvidenceAppendix
  <2> QED
      BY <2>2
<1>2. Cardinality(BodyLabels(first)) <= Cardinality(BodyLabels(body))
  <2>1. IsFiniteSet(BodyLabels(body))
    <3>1. PICK f : f = [k \in Factual(body) |-> body[k].label]
        OBVIOUS
    <3>2. f \in Surjection(Factual(body), BodyLabels(body))
        BY <3>1 DEF BodyLabels, Surjection
    <3> QED
        BY <3>2, BodyTyped, FactualFinite, FS_Surjection
  <2> QED
      BY <1>1, <2>1, FS_Subset
<1>3. Cardinality(Factual(first)) \in Nat /\ Cardinality(Factual(body)) \in Nat
    BY BodyTyped, FactualFinite
<1>4. Same(first, body)
    BY <1>2, <1>3, LabelCount DEF Shrinks, Unambiguous
<1>5. Factual(body) = Factual(first) /\ i \in DOMAIN first
    BY <1>4, SameTargets DEF Factual
<1>6. body[i].label = first[i].label /\ body[i].claim = first[i].claim
    BY <1>4, <1>5, NumberedAlike DEF Same
<1>7. PICK j \in Factual(first) : row = [label |-> first[j].label, claim |-> first[j].claim]
    BY DEF EvidenceAppendix
<1>8. j = i
  <2>1. first[j].label = first[i].label
      BY <1>6, <1>7
  <2> QED
      BY <1>5, <2>1, LabelCount
<1> QED
    BY <1>6, <1>7, <1>8

(***************************************************************************)
(* What a revision leaves.  The findings about a report that agrees with   *)
(* the manifest m of its request depend on its content only.               *)
(***************************************************************************)
ContentFindings(content, m) ==
  ReflectionFindings([content |-> content, manifest |-> m, version |-> 1, prev |-> NoId], m)

Converges(v, content, m) ==
  /\ \A f \in v.applied : f.block # NoKey => f \notin ContentFindings(content, m)
  /\ v.status = "COMPLETED" => \A f \in ContentFindings(content, m) : Severity(f.code) = "MEDIUM"

LEMMA ContentOnly ==
  ASSUME NEW r, NEW m, r.manifest = m, (r.version = 1) <=> (r.prev = NoId)
  PROVE  ReflectionFindings(r, m) = ContentFindings(r.content, m)
<1>1. PICK o : o = [content |-> r.content, manifest |-> m, version |-> 1, prev |-> NoId]
    OBVIOUS
<1>2. o.content = r.content /\ o.manifest = m /\ o.version = 1 /\ o.prev = NoId
    BY <1>1
<1>3. ContextChecks(r, m) = {} /\ ContextChecks(o, m) = {}
    BY <1>2 DEF ContextChecks, Is
<1>4. ReflectionFindings(r, m) = ReflectionFindings(o, m)
    BY <1>2, <1>3 DEF ReflectionFindings
<1> QED
    BY <1>1, <1>4 DEF ContentFindings

LEMMA ContentFindingCases ==
  ASSUME NEW content, NEW m, NEW f \in ContentFindings(content, m)
  PROVE  \/ f.block = NoKey /\ f.code \in ProvenanceChecks(content, m) \cup StructureChecks(content)
         \/ \E i \in Factual(content.blocks) : /\ f.block = content.blocks[i].key
                                               /\ f.code \in BlockChecks(content.blocks[i])
<1>1. PICK o : o = [content |-> content, manifest |-> m, version |-> 1, prev |-> NoId]
    OBVIOUS
<1>2. o.content = content /\ ContextChecks(o, m) = {} /\ f \in ReflectionFindings(o, m)
    BY <1>1 DEF ContextChecks, Is, ContentFindings
<1> QED
    BY <1>2, FindingCases

LEMMA ContentFindingKinds ==
  ASSUME NEW content, NEW m, content.blocks \in Bodies, NEW f \in Handled(ContentFindings(content, m))
  PROVE  \/ f.code \in DeletionCodes /\ \E c \in Claims : f.block = << "claim", c >> /\ Deletable(c)
         \/ f.code = "PARTIAL_SUPPORT_QUALIFIED"
         \/ f.code \in ReferenceCodes
<1>1. PICK o : o = [content |-> content, manifest |-> m, version |-> 1, prev |-> NoId]
    OBVIOUS
<1>2. o.content = content /\ f \in Handled(ReflectionFindings(o, m))
    BY <1>1 DEF ContentFindings
<1> QED
    BY <1>2, HandledKinds

LEMMA ContentFinding ==
  ASSUME NEW content, NEW m
  PROVE  /\ \A k \in ProvenanceChecks(content, m) : [code |-> k, block |-> NoKey] \in ContentFindings(content, m)
         /\ \A k \in StructureChecks(content) : [code |-> k, block |-> NoKey] \in ContentFindings(content, m)
         /\ \A i \in Factual(content.blocks) : \A k \in BlockChecks(content.blocks[i]) :
              [code |-> k, block |-> content.blocks[i].key] \in ContentFindings(content, m)
         /\ \A f \in ContentFindings(content, m) : f = [code |-> f.code, block |-> f.block]
<1>1. PICK o : o = [content |-> content, manifest |-> m, version |-> 1, prev |-> NoId]
    OBVIOUS
<1>2. o.content = content /\ ContentFindings(content, m) = ReflectionFindings(o, m)
    BY <1>1 DEF ContentFindings
<1>3. \A i \in Factual(content.blocks) : \A k \in BlockChecks(content.blocks[i]) :
        [code |-> k, block |-> content.blocks[i].key] \in ContentFindings(content, m)
    BY <1>2, BlockFinding
<1>4. \A k \in ProvenanceChecks(content, m) \cup StructureChecks(content) :
        [code |-> k, block |-> NoKey] \in ContentFindings(content, m)
    BY <1>2 DEF ReflectionFindings
<1>5. \A f \in ContentFindings(content, m) : f = [code |-> f.code, block |-> f.block]
    BY <1>2, FindingRecord
<1> QED
    BY <1>3, <1>4, <1>5

LEMMA ShrinksOn ==
  ASSUME NEW first \in Bodies, NEW old \in Bodies, NEW new \in Bodies, Shrinks(first, old), Shrinks(old, new)
  PROVE  Shrinks(first, new)
<1>1. /\ Cardinality(Factual(first)) \in Nat /\ Cardinality(Factual(old)) \in Nat
      /\ Cardinality(Factual(new)) \in Nat
    BY BodyTyped, FactualFinite
<1>2. Same(first, old) => Factual(old) = Factual(first)
    BY SameBody, BodyTyped
<1>3. Same(old, new) => Factual(new) = Factual(old)
    BY SameBody, BodyTyped
<1>4. Same(first, old) /\ Same(old, new) => Same(first, new)
    BY DEF Same
<1> QED
    BY <1>1, <1>2, <1>3, <1>4 DEF Shrinks

\* The content that revise makes of a body, with the findings in any order.
LEMMA RevisionResult ==
  ASSUME NEW m, NEW content, "blocks" \in DOMAIN content, content.blocks \in Bodies,
         NEW findings, findings = ContentFindings(content, m), NEW order \in Seq(Handled(findings)),
         NEW revised, revised = ReviseContent(content, order)
  PROVE  /\ "blocks" \in DOMAIN revised.content /\ revised.content.blocks \in Bodies
         /\ Numbered(revised.content.blocks) /\ Shrinks(content.blocks, revised.content.blocks)
         /\ revised.content.appendix = content.appendix
         /\ \A v : v.applied = revised.applied /\ v.status = RevisionOutcome(findings \ revised.applied)
                      => Converges(v, revised.content, m)
<1>1. PICK source \in Bodies : source = content.blocks
    OBVIOUS
<1>2. PICK F : F = Handled(findings)
    OBVIOUS
<1>3. PICK done : done = Revised(source, order)
    OBVIOUS
<1>4. done \in Revising(source, F)
  <2>1. [blocks |-> source, applied |-> {}] \in Revising(source, F)
      BY DEF Revising, Treated, Derived, Shrinks, Same
  <2>2. ASSUME NEW acc \in Revising(source, F), NEW f \in F PROVE RevisionStep(acc, f) \in Revising(source, F)
      BY <1>1, <1>2, ContentFindingKinds, RevisingStep
  <2> QED
      BY <1>2, <1>3, <2>1, <2>2, RevisedWithin
<1>5. done.blocks \in Bodies /\ done.applied \subseteq F /\ Treated(done) /\ Derived(source, done.blocks)
      /\ Shrinks(source, done.blocks)
    BY <1>4 DEF Revising
<1>6. PICK new \in Bodies : new = Allocate(done.blocks) /\ Same(done.blocks, new) /\ Numbered(new)
    BY <1>5, AllocateSame, AllocateNumbered
<1>7. Derived(source, new) /\ Shrinks(source, new)
    BY <1>5, <1>6, SameFollows
<1>8. PICK made : made = [content EXCEPT !.blocks = new]
    OBVIOUS
<1>9. "blocks" \in DOMAIN made /\ made.blocks = new /\ made.appendix = content.appendix /\ made.marked = content.marked
    BY <1>8
<1>10. revised.content = made /\ revised.applied = done.applied
    BY <1>1, <1>3, <1>6, <1>8 DEF ReviseContent
<1>11. ASSUME NEW f \in done.applied, f.block # NoKey, f \in ContentFindings(made, m) PROVE FALSE
  <2>1. PICK i \in Factual(new) : f.block = new[i].key /\ f.code \in BlockChecks(new[i])
      BY <1>9, <1>11, ContentFindingCases
  <2>2. i \in DOMAIN new /\ new[i].claim # NoClaim /\ new[i] \in BodyBlocks
    <3>1. i \in DOMAIN new /\ new[i].claim # NoClaim
        BY <2>1 DEF Factual
    <3>2. new \in Seq(BodyBlocks)
        BY DEF Bodies
    <3> QED
        BY <3>1, <3>2, ElementType
  <2>3. Remediation(f.code) # "NO_HANDLER"
      BY <1>2, <1>5, <1>11 DEF Handled
  <2>4. PICK code : code = f.code
      OBVIOUS
  <2>5. code # "STRICT_DOCUMENT_PUBLISHED_AT_KNOWN"
      BY <2>3, <2>4, NoRemedy
  <2>6. code \in DeletionCodes \/ (code = "PARTIAL_SUPPORT_QUALIFIED" /\ new[i].text # "QUALIFIED")
    <3>1. PICK b \in BodyBlocks : b = new[i]
        BY <2>2
    <3>2. b.claim # NoClaim /\ code \in BlockChecks(b)
        BY <2>1, <2>2, <2>4, <3>1
    <3>3. code \in DeletionCodes \/ (code = "PARTIAL_SUPPORT_QUALIFIED" /\ b.text # "QUALIFIED")
        BY <2>5, <3>2, BlockCodes
    <3> QED
        BY <3>1, <3>3
  <2>7. KeysOf(new) = KeysOf(done.blocks)
      BY <1>5, <1>6, SameBody, BodyTyped
  <2>8. code \notin DeletionCodes
    <3>1. f.block \in KeysOf(new)
        BY <2>1, <2>2 DEF KeysOf
    <3> QED
        BY <1>5, <1>11, <2>4, <2>7, <3>1 DEF Treated
  <2>9. code # "PARTIAL_SUPPORT_QUALIFIED" \/ new[i].text = "QUALIFIED"
    <3>1. i \in DOMAIN done.blocks /\ new[i].key = done.blocks[i].key
          /\ (new[i].text = done.blocks[i].text \/ new[i].text = "QUALIFIED")
        BY <1>6, <2>2 DEF Same
    <3> QED
        BY <1>5, <1>11, <2>1, <2>4, <3>1 DEF Treated
  <2> QED
      BY <2>6, <2>8, <2>9
<1>12. ASSUME findings \subseteq done.applied, NEW f \in ContentFindings(made, m) PROVE Severity(f.code) = "MEDIUM"
  <2>1. CASE f.block = NoKey /\ f.code \in ProvenanceChecks(made, m)
    <3>1. ProvenanceChecks(made, m) = ProvenanceChecks(content, m)
        BY <1>9 DEF ProvenanceChecks
    <3>2. PICK g : g = [code |-> f.code, block |-> NoKey]
        OBVIOUS
    <3>3. g \in findings
        BY <2>1, <3>1, <3>2, ContentFinding
    <3>4. Remediation(f.code) # "NO_HANDLER"
        BY <1>2, <1>5, <1>12, <3>2, <3>3 DEF Handled
    <3>5. f.code \in {"NO_REAL_RESEARCH_SYNTHETIC_EVIDENCE", "SYNTHETIC_NOT_REAL_COMPANY_RESEARCH"}
        BY <2>1 DEF ProvenanceChecks, Is
    <3> QED
        BY <3>4, <3>5, NoRemedy
  <2>2. CASE f.code \in StructureChecks(made)
    <3>1. PICK code : code = f.code
        OBVIOUS
    <3>2. code \in {"NO_ORPHAN_BODY_REFERENCE", "NO_UNUSED_APPENDIX_REFERENCE"}
        BY <1>9, <2>2, <3>1, SectionsPresent DEF ReferenceCodes
    <3>3. Severity(code) = "MEDIUM"
        BY <3>2, Zenon DEF Severity
    <3> QED
        BY <3>1, <3>3
  <2>3. ASSUME NEW i \in Factual(new), f.block = new[i].key, f.code \in BlockChecks(new[i]) PROVE FALSE
    <3>1. PICK j \in Factual(source) :
            /\ new[i].key = source[j].key /\ new[i].claim = source[j].claim /\ new[i].sec = source[j].sec
            /\ new[i].text = source[j].text \/ new[i].text = "QUALIFIED"
        BY <1>7 DEF Derived
    <3>2. f.code \in BlockChecks(source[j])
        BY <2>3, <3>1, ChecksFollow
    <3>3. f = [code |-> f.code, block |-> source[j].key]
        BY <2>3, <3>1, ContentFinding
    <3>4. f \in findings
        BY <1>1, <3>2, <3>3, ContentFinding
    <3>5. f.block # NoKey
      <4>1. i \in DOMAIN new /\ new[i].claim # NoClaim
          BY DEF Factual
      <4>2. new[i] \in BodyBlocks
          BY <4>1, ElementType DEF Bodies
      <4>3. f.block = << "claim", new[i].claim >>
          BY <2>3, <4>1, <4>2 DEF BodyBlocks
      <4> QED
          BY <4>3 DEF NoKey
    <3> QED
        BY <1>11, <1>12, <3>4, <3>5
  <2> QED
      BY <1>9, <1>12, <2>1, <2>2, <2>3, ContentFindingCases
<1>13. ASSUME NEW v, v.applied = revised.applied, v.status = RevisionOutcome(findings \ revised.applied)
       PROVE  Converges(v, revised.content, m)
  <2>1. v.status = "COMPLETED" => findings \subseteq done.applied
      BY <1>10, <1>13 DEF RevisionOutcome
  <2> QED
      BY <1>10, <1>11, <1>12, <1>13, <2>1 DEF Converges
<1> QED
    BY <1>1, <1>6, <1>7, <1>9, <1>10, <1>13

(***************************************************************************)
(* The first version of a report.                                          *)
(***************************************************************************)

\* What the input verification says of the links of a claim.
Linked(c) == ClaimInfo[c].support \in {"SUPPORTED", "PARTIALLY_SUPPORTED", "CONFLICTING"} => ClaimInfo[c].links # << >>

\* No finding deletes a block of the sections that must be there.
LEMMA KeptSections ==
  ASSUME NEW c \in Claims, Linked(c), ClaimSection(c) \in {"DATA_QUALITY", "LIMITATIONS"} PROVE ~Deletable(c)
<1>1. PICK support \in Supports : support = ClaimInfo[c].support
    BY ClaimInfoAssumption
<1>2. support # "UNSUPPORTED"
    BY <1>1, DisclosedClaims
<1>3. ClaimInfo[c].links # << >>
    BY <1>1, <1>2, BlockedAssumption DEF Linked, Supports
<1> QED
    BY <1>3 DEF Deletable

LEMMA FirstBody ==
  ASSUME NEW p, p.claims \in Seq(Claims), \A c \in Range(p.claims) : Linked(c)
  PROVE  RenderBlocks(p) \in Bodies /\ Numbered(RenderBlocks(p))
<1>1. PICK claims \in Seq(Claims) : claims = p.claims
    OBVIOUS
<1>2. ASSUME NEW c \in Claims
      PROVE  ClaimBlock(c) \in BodyBlocks /\ ClaimBlock(c).sec = ClaimSection(c) /\ ClaimBlock(c).claim = c
  <2>1. PICK b : b = ClaimBlock(c)
      OBVIOUS
  <2>2. b \in BlocksOf(Claims)
      BY <2>1, ComposedBlocks
  <2>3. b.key = << "claim", c >> /\ b.sec = ClaimSection(c) /\ b.claim = c /\ b.claim # NoClaim
      BY <2>1, NoClaimAssumption DEF ClaimBlock
  <2> QED
      BY <2>1, <2>2, <2>3 DEF BodyBlocks
<1>3. ASSUME NEW s \in Sections
      PROVE  EmptyStateBlock(s) \in BodyBlocks /\ EmptyStateBlock(s).sec = s /\ EmptyStateBlock(s).claim = NoClaim
  <2>1. PICK b : b = EmptyStateBlock(s)
      OBVIOUS
  <2>2. b \in BlocksOf(Claims)
      BY <2>1, ComposedBlocks
  <2>3. b.key = << "empty", s >> /\ b.sec = s /\ b.claim = NoClaim
      BY <2>1 DEF EmptyStateBlock
  <2> QED
      BY <2>1, <2>2, <2>3 DEF BodyBlocks
<1> DEFINE mine(i)  == At(claims, {k \in DOMAIN claims : ClaimSection(claims[k]) = SectionOrder[i]})
           part(i)  == IF mine(i) = << >> THEN << EmptyStateBlock(SectionOrder[i]) >>
                       ELSE [k \in DOMAIN mine(i) |-> ClaimBlock(mine(i)[k])]
           Stays(i)  == {b \in BodyBlocks : b.sec = SectionOrder[i] /\ (b.claim = NoClaim \/ ~Deletable(b.claim))}
<1>4. ASSUME NEW i \in 1..7
      PROVE  /\ part(i) \in Seq(BodyBlocks)
             /\ SectionOrder[i] \in {"DATA_QUALITY", "LIMITATIONS"} => \E b \in Stays(i) : b \in Range(part(i))
  <2>1. PICK m : m = mine(i)
      OBVIOUS
  <2>2. PICK s \in Sections : s = SectionOrder[i]
      BY SectionNames
  <2>3. PICK I : I = {k \in DOMAIN claims : ClaimSection(claims[k]) = s}
      OBVIOUS
  <2>4. PICK P : P = {c \in Claims : ClaimSection(c) = s /\ Linked(c)}
      OBVIOUS
  <2>5. \A n \in DOMAIN claims \cap I : claims[n] \in P
    <3> TAKE n \in DOMAIN claims \cap I
    <3>1. claims[n] \in Claims /\ claims[n] \in Range(claims)
        BY ElementType DEF Range
    <3> QED
        BY <1>1, <2>3, <2>4, <3>1
  <2>6. m \in Seq(P)
      BY <2>1, <2>2, <2>3, <2>5, AtChosen
  <2> HIDE DEF mine
  <2>7. CASE m = << >>
    <3>1. part(i) = << EmptyStateBlock(s) >>
        BY <2>1, <2>2, <2>7
    <3>2. PICK b \in BodyBlocks : b = EmptyStateBlock(s) /\ b.sec = s /\ b.claim = NoClaim
        BY <1>3
    <3>3. part(i) = << b >>
        BY <3>1, <3>2
    <3>4. << b >> \in Seq(BodyBlocks) /\ b \in Range(<< b >>)
        BY DEF Range
    <3> HIDE DEF part
    <3> QED
        BY <2>2, <3>2, <3>3, <3>4
  <2>8. CASE m # << >>
    <3>1. PICK o : o = [k \in DOMAIN m |-> ClaimBlock(m[k])]
        OBVIOUS
    <3>2. part(i) = o
        BY <2>1, <2>8, <3>1
    <3>3. PICK N \in Nat : N = Len(m) /\ DOMAIN m = 1..N /\ N # 0
        BY <2>6, <2>8
    <3>4. \A k \in 1..N : m[k] \in P
        BY <2>6, <3>3
    <3>5. \A k \in 1..N : o[k] \in BodyBlocks /\ o[k].sec = s /\ o[k].claim = m[k]
        BY <1>2, <2>4, <3>1, <3>3, <3>4
    <3>6. o \in [1..N -> BodyBlocks]
        BY <3>1, <3>3, <3>5
    <3>7. o \in Seq(BodyBlocks)
        BY <3>6
    <3>8. 1 \in 1..N /\ o[1] \in Range(o)
        BY <3>3, <3>6 DEF Range
    <3>9. s \in {"DATA_QUALITY", "LIMITATIONS"} => ~Deletable(m[1])
        BY <2>4, <3>4, <3>8, KeptSections
    <3> HIDE DEF part
    <3> QED
        BY <2>2, <3>2, <3>5, <3>7, <3>8, <3>9
  <2> HIDE DEF part, Stays
  <2> QED
      BY <2>7, <2>8
<1> HIDE DEF part
<1>5. PICK seqs : seqs = [i \in 1..7 |-> part(i)]
    OBVIOUS
<1>6. seqs \in Seq(Seq(BodyBlocks)) /\ Len(seqs) = 7
  <2>1. PICK T : T = Seq(BodyBlocks)
      OBVIOUS
  <2>2. PICK N \in Nat : N = 7
      OBVIOUS
  <2>3. seqs \in [1..N -> T]
      BY <1>4, <1>5, <2>1, <2>2
  <2>4. seqs \in Seq(T) /\ Len(seqs) = N
      BY <2>3
  <2> QED
      BY <2>1, <2>2, <2>4
<1>7. PICK flat \in Seq(BodyBlocks) : flat = FlattenSeq(seqs) /\ \A i \in 1..7 : Range(seqs[i]) \subseteq Range(flat)
  <2>1. PICK N \in Nat : N = Len(seqs) /\ N = 7 /\ Len(seqs) # 0
      BY <1>6
  <2>2. PICK flat : flat = FlattenSeq(seqs)
      OBVIOUS
  <2>3. flat \in Seq(BodyBlocks) /\ \A i \in 1..N : Range(seqs[i]) \subseteq Range(flat)
      BY <1>6, <2>1, <2>2, FlattenElements
  <2> QED
      BY <2>1, <2>2, <2>3
<1>8. ASSUME NEW i \in 1..7, SectionOrder[i] \in {"DATA_QUALITY", "LIMITATIONS"} PROVE Lasting(flat, SectionOrder[i])
  <2>1. PICK b \in Stays(i) : b \in Range(part(i))
      BY <1>4, <1>8
  <2>2. PICK k \in DOMAIN flat : flat[k] = b
    <3>1. seqs[i] = part(i)
        BY <1>5
    <3>2. b \in Range(flat)
        BY <1>7, <2>1, <3>1
    <3> QED
        BY <3>2 DEF Range
  <2> QED
      BY <2>1, <2>2 DEF Lasting
<1>9. flat \in Bodies
  <2>1. SectionOrder[4] = "DATA_QUALITY" /\ SectionOrder[7] = "LIMITATIONS"
      BY DEF SectionOrder
  <2>2. Lasting(flat, "DATA_QUALITY") /\ Lasting(flat, "LIMITATIONS")
      BY <1>8, <2>1
  <2> QED
      BY <2>2 DEF Bodies
<1>10. RenderBlocks(p) = Allocate(flat)
    BY <1>1, <1>5, <1>7, SectionCount DEF RenderBlocks, part, mine
<1> QED
    BY <1>9, <1>10, AllocateSame, AllocateNumbered

(***************************************************************************)
(* The bodies of all versions, committed or in flight, for the manifest m  *)
(* that their request seals: each is the first one, or has fewer factual   *)
(* blocks, and carries the appendix of the first one.                      *)
(***************************************************************************)
BodyRow(r, m) ==
  /\ r.manifest = m /\ r.version \in Nat \ {0} /\ ((r.version = 1) <=> (r.prev = NoId))
  /\ RenderBlocks(m) \in Bodies /\ Numbered(RenderBlocks(m)) /\ Unambiguous(RenderBlocks(m))
  /\ r.content.blocks \in Bodies /\ Numbered(r.content.blocks)
  /\ Shrinks(RenderBlocks(m), r.content.blocks)
  /\ r.content.appendix = EvidenceAppendix(RenderBlocks(m))

Settled(reps, refls, revs, m) ==
  /\ \A r \in reps : BodyRow(r, m)
  /\ \A x \in refls : x.findings = ContentFindings(x.seen, m)
  /\ \A v \in revs : \E t \in reps : t.id = v.target /\ Converges(v, t.content, m)

RowsSettled(rows, m) == Settled(rows.reports, rows.reflections, rows.revisions, m)

SettledFor(m) ==
  /\ Settled(reports, reflections, revisions, m)
  /\ \A p \in Procs : tx[p] # NoId => RowsSettled(tx[p], m)

BodyInv == SettledFor(Manifest(package))

LEMMA BodyInit == Init => BodyInv
BY DEF Init, BodyInv, SettledFor, Settled

\* A step that inserts no row.
LEMMA BodyUnmoved ==
  ASSUME NEW m, SettledFor(m), UNCHANGED tables,
         \A q \in Procs : tx'[q] = NoId \/ tx'[q] = tx[q] \/ RowsSettled(tx'[q], m)
  PROVE  SettledFor(m)'
BY DEF SettledFor, tables

LEMMA BeginSettled ==
  ASSUME NEW m, SettledFor(m), LineageInv, NEW p \in Procs, NEW rows, Begin(p, rows), RowsSettled(rows, m)
  PROVE  SettledFor(m)'
<1>1. \A q \in Procs : tx'[q] = tx[q] \/ tx'[q] = rows
    BY DEF Begin, LineageInv
<1>2. UNCHANGED tables
    BY DEF Begin, tables
<1> QED
    BY <1>1, <1>2, BodyUnmoved

LEMMA GenerateSettled ==
  ASSUME NEW m, m = Manifest(package), LineageInv, SettledFor(m),
         NEW p \in Procs, NEW t \in ReportTypes, BeginGenerate(p, t)
  PROVE  SettledFor(m)'
<1>1. PICK report : report = ComposedReport(m, t)
    OBVIOUS
<1>2. PICK reqs, gens : Begin(p, [NoRows EXCEPT !.requests = reqs, !.runs = gens, !.reports = {report}])
    BY <1>1 DEF BeginGenerate
<1>3. PICK rows : rows = [NoRows EXCEPT !.requests = reqs, !.runs = gens, !.reports = {report}]
    OBVIOUS
<1>4. Begin(p, rows) /\ rows.reports = {report} /\ rows.reflections = {} /\ rows.revisions = {}
    BY <1>2, <1>3 DEF NoRows
<1>5. InputValid(package) /\ ~ComposeRaises(m)
    BY DEF BeginGenerate
<1>6. m.claims = package.claims /\ m.claims \in Seq(Claims)
    BY PackagesAssumption DEF Manifest, LineageInv
<1>7. PICK first : first = RenderBlocks(m)
    OBVIOUS
<1>8. first \in Bodies /\ Numbered(first)
  <2>1. \A c \in Range(m.claims) : Linked(c)
      BY <1>5, <1>6 DEF InputValid, LinksValid, Linked
  <2> QED
      BY <1>6, <1>7, <2>1, FirstBody
<1>9. Unambiguous(first)
    BY <1>5, <1>7 DEF ComposeRaises, Unambiguous
<1>10. /\ report.manifest = m /\ report.version = 1 /\ report.prev = NoId
       /\ report.content = ComposedContent(m)
    BY <1>1 DEF ComposedReport
<1>11. report.content.blocks = first /\ report.content.appendix = EvidenceAppendix(first)
    BY <1>7, <1>10 DEF ComposedContent
<1>12. Shrinks(first, first)
    BY DEF Shrinks, Same
<1>13. BodyRow(report, m)
    BY <1>7, <1>8, <1>9, <1>10, <1>11, <1>12 DEF BodyRow
<1>14. RowsSettled(rows, m)
    BY <1>4, <1>13 DEF RowsSettled, Settled
<1> QED
    BY <1>4, <1>14, BeginSettled

LEMMA ReflectSettled ==
  ASSUME NEW m, m = Manifest(package), ReleaseInv, LineageInv, SettledFor(m),
         NEW p \in Procs, NEW r \in reports, NEW round \in 1..2, BeginReflect(p, r, round)
  PROVE  SettledFor(m)'
<1>1. PICK findings : findings = ReflectionFindings(r, m)
    OBVIOUS
<1>2. PICK x : x = [report |-> r.id, round |-> round, seen |-> r.content, findings |-> findings,
                    status |-> ReflectionOutcome(findings)]
    OBVIOUS
<1>3. PICK rows : rows = [NoRows EXCEPT !.reflections = {x}]
    OBVIOUS
<1>4. Begin(p, rows)
    BY <1>1, <1>2, <1>3, RequestSealed DEF BeginReflect
<1>5. rows.reports = {} /\ rows.reflections = {x} /\ rows.revisions = {}
    BY <1>3 DEF NoRows
<1>6. BodyRow(r, m)
    BY DEF SettledFor, Settled
<1>7. findings = ContentFindings(r.content, m)
    BY <1>1, <1>6, ContentOnly DEF BodyRow
<1>8. x.findings = ContentFindings(x.seen, m)
    BY <1>2, <1>7
<1>9. RowsSettled(rows, m)
    BY <1>5, <1>8 DEF RowsSettled, Settled
<1> QED
    BY <1>4, <1>9, BeginSettled

\* The successor of a committed report.
LEMMA SuccessorRow ==
  ASSUME NEW m, NEW r, LineageRow(r), BodyRow(r, m), NEW s,
         s.manifest = r.manifest, s.version = r.version + 1, s.prev = r.id,
         s.content.blocks \in Bodies, Numbered(s.content.blocks), Shrinks(r.content.blocks, s.content.blocks),
         s.content.appendix = r.content.appendix
  PROVE  BodyRow(s, m)
<1>1. r.id # NoId
    BY NoIdAssumption DEF LineageRow
<1>2. s.version \in Nat \ {0} /\ ((s.version = 1) <=> (s.prev = NoId))
    BY <1>1 DEF BodyRow
<1>3. Shrinks(RenderBlocks(m), s.content.blocks)
    BY ShrinksOn DEF BodyRow
<1> QED
    BY <1>2, <1>3 DEF BodyRow

LEMMA ReviseSettled ==
  ASSUME NEW m, m = Manifest(package), LineageInv, SettledFor(m),
         NEW p \in Procs, NEW r \in reports, NEW x \in reflections, BeginRevise(p, r, x)
  PROVE  SettledFor(m)'
<1>1. PICK order \in SetToSeqs(Handled(x.findings)) :
         LET revised == ReviseContent(r.content, order)
             target  == RevisionTarget(r, revised.content)
             left    == x.findings \ revised.applied
         IN  Begin(p, [NoRows EXCEPT
               !.reports = {target},
               !.revisions = {[source |-> r.id, target |-> target.id, applied |-> revised.applied,
                               unresolved |-> left, status |-> RevisionOutcome(left)]}])
    BY DEF BeginRevise
<1>2. PICK revised : revised = ReviseContent(r.content, order)
    OBVIOUS
<1>3. PICK target : target = RevisionTarget(r, revised.content)
    OBVIOUS
<1>4. PICK v : v = [source |-> r.id, target |-> target.id, applied |-> revised.applied,
                    unresolved |-> x.findings \ revised.applied,
                    status |-> RevisionOutcome(x.findings \ revised.applied)]
    OBVIOUS
<1>5. PICK rows : rows = [NoRows EXCEPT !.reports = {target}, !.revisions = {v}]
    OBVIOUS
<1>6. Begin(p, rows)
    BY <1>1, <1>2, <1>3, <1>4, <1>5
<1>7. rows.reports = {target} /\ rows.reflections = {} /\ rows.revisions = {v}
    BY <1>5 DEF NoRows
<1>8. LineageRow(r) /\ BodyRow(r, m)
    BY DEF LineageInv, SettledFor, Settled
<1>9. PICK findings : findings = x.findings
    OBVIOUS
<1>10. findings = ContentFindings(r.content, m) /\ IsFiniteSet(findings)
    BY <1>9 DEF BeginRevise, RevisionInputValid, SettledFor, Settled, LineageInv
<1>11. order \in Seq(Handled(findings))
    BY <1>9, <1>10, OrderType
<1>12. PICK content : content = r.content
    OBVIOUS
<1>13. "blocks" \in DOMAIN content /\ content.blocks \in Bodies
    BY <1>8, <1>12 DEF LineageRow, BodyRow
<1>14. /\ revised.content.blocks \in Bodies /\ Numbered(revised.content.blocks)
       /\ Shrinks(content.blocks, revised.content.blocks) /\ revised.content.appendix = content.appendix
       /\ \A o : o.applied = revised.applied /\ o.status = RevisionOutcome(findings \ revised.applied)
                  => Converges(o, revised.content, m)
    BY <1>2, <1>10, <1>11, <1>12, <1>13, RevisionResult
<1>15. v.applied = revised.applied /\ v.status = RevisionOutcome(findings \ revised.applied) /\ v.target = target.id
      /\ Converges(v, revised.content, m)
  <2>1. v.applied = revised.applied /\ v.status = RevisionOutcome(findings \ revised.applied) /\ v.target = target.id
      BY <1>4, <1>9
  <2> QED
      BY <1>14, <2>1
<1>16. /\ target.manifest = r.manifest /\ target.version = r.version + 1 /\ target.prev = r.id
       /\ target.content = revised.content
    BY <1>3 DEF RevisionTarget
<1>17. BodyRow(target, m)
    BY <1>8, <1>12, <1>14, <1>16, SuccessorRow
<1>18. RowsSettled(rows, m)
    BY <1>7, <1>14, <1>15, <1>16, <1>17 DEF RowsSettled, Settled
<1> QED
    BY <1>6, <1>18, BeginSettled

LEMMA ReleaseSettled ==
  ASSUME NEW m, m = Manifest(package), LineageInv, SettledFor(m),
         NEW p \in Procs, NEW r \in reports, NEW x \in reflections, BeginRelease(p, r, x)
  PROVE  SettledFor(m)'
<1>1. PICK sealed : sealed = SealedReport(r)
    OBVIOUS
<1>2. PICK reps, gs : reps \subseteq {sealed} /\ Begin(p, [NoRows EXCEPT !.reports = reps, !.gates = gs])
    BY <1>1 DEF BeginRelease
<1>3. PICK rows : rows = [NoRows EXCEPT !.reports = reps, !.gates = gs]
    OBVIOUS
<1>4. Begin(p, rows) /\ rows.reports = reps /\ rows.reflections = {} /\ rows.revisions = {}
    BY <1>2, <1>3 DEF NoRows
<1>5. LineageRow(r) /\ BodyRow(r, m)
    BY DEF LineageInv, SettledFor, Settled
<1>6. /\ sealed.manifest = r.manifest /\ sealed.version = r.version + 1 /\ sealed.prev = r.id
      /\ sealed.content = r.content
    BY <1>1 DEF SealedReport
<1>7. Shrinks(r.content.blocks, sealed.content.blocks)
    BY <1>6 DEF Shrinks, Same
<1>8. BodyRow(sealed, m)
  <2>1. r.content.blocks \in Bodies /\ Numbered(r.content.blocks)
      BY <1>5 DEF BodyRow
  <2> QED
      BY <1>5, <1>6, <1>7, <2>1, SuccessorRow
<1>9. RowsSettled(rows, m)
    BY <1>2, <1>4, <1>8 DEF RowsSettled, Settled
<1> QED
    BY <1>4, <1>9, BeginSettled

LEMMA CommitSettled ==
  ASSUME NEW m, LineageInv, SettledFor(m), NEW p \in Procs, Commit(p) PROVE SettledFor(m)'
<1>1. PICK rows : rows = tx[p]
    OBVIOUS
<1>2. /\ reports' = reports \cup rows.reports /\ reflections' = reflections \cup rows.reflections
      /\ revisions' = revisions \cup rows.revisions /\ tx' = [tx EXCEPT ![p] = NoId]
    BY <1>1 DEF Commit
<1>3. RowsSettled(rows, m)
    BY <1>1 DEF Commit, SettledFor
<1>4. Settled(reports, reflections, revisions, m)'
    BY <1>2, <1>3 DEF RowsSettled, SettledFor, Settled
<1>5. ASSUME NEW q \in Procs, tx'[q] # NoId PROVE RowsSettled(tx'[q], m)
  <2>1. tx'[q] = tx[q]
      BY <1>2, <1>5 DEF LineageInv
  <2> QED
      BY <1>5, <2>1 DEF SettledFor
<1> QED
    BY <1>4, <1>5 DEF SettledFor

LEMMA BodyStep == ReleaseInv /\ LineageInv /\ BodyInv /\ [Next]_vars => BodyInv'
<1> SUFFICES ASSUME ReleaseInv, LineageInv, BodyInv, [Next]_vars PROVE BodyInv'
    OBVIOUS
<1>1. PICK m : m = Manifest(package)
    OBVIOUS
<1>2. SettledFor(m)
    BY <1>1 DEF BodyInv
<1>3. ASSUME UNCHANGED vars \/ SeedPolicy \/ SeedReflectionPolicy \/ SeedTemplates
      PROVE  package' = package /\ SettledFor(m)'
  <2>1. package' = package /\ UNCHANGED tables /\ tx' = tx
      BY <1>3 DEF vars, tables, SeedPolicy, SeedReflectionPolicy, SeedTemplates, Seed
  <2> QED
      BY <1>2, <2>1, BodyUnmoved
<1>4. ASSUME NEW p \in Procs, Abort(p) PROVE package' = package /\ SettledFor(m)'
  <2>1. \A q \in Procs : tx'[q] = NoId \/ tx'[q] = tx[q]
      BY <1>4 DEF Abort, LineageInv
  <2>2. package' = package /\ UNCHANGED tables
      BY <1>4 DEF Abort, tables
  <2> QED
      BY <1>2, <2>1, <2>2, BodyUnmoved
<1>5. ASSUME NEW p \in Procs, NEW t \in ReportTypes, BeginGenerate(p, t) PROVE package' = package /\ SettledFor(m)'
  <2>1. package' = package
      BY <1>5 DEF BeginGenerate, Begin
  <2> QED
      BY <1>1, <1>2, <1>5, <2>1, GenerateSettled
<1>6. ASSUME NEW p \in Procs, NEW r \in reports, NEW round \in 1..2, BeginReflect(p, r, round)
      PROVE  package' = package /\ SettledFor(m)'
  <2>1. package' = package
      BY <1>6 DEF BeginReflect, Begin
  <2> QED
      BY <1>1, <1>2, <1>6, <2>1, ReflectSettled
<1>7. ASSUME NEW p \in Procs, NEW r \in reports, NEW x \in reflections, BeginRevise(p, r, x)
      PROVE  package' = package /\ SettledFor(m)'
  <2>1. package' = package
      BY <1>7 DEF BeginRevise, Begin
  <2> QED
      BY <1>1, <1>2, <1>7, <2>1, ReviseSettled
<1>8. ASSUME NEW p \in Procs, NEW r \in reports, NEW x \in reflections, BeginRelease(p, r, x)
      PROVE  package' = package /\ SettledFor(m)'
  <2>1. package' = package
      BY <1>8 DEF BeginRelease, Begin
  <2> QED
      BY <1>1, <1>2, <1>8, <2>1, ReleaseSettled
<1>9. ASSUME NEW p \in Procs, Commit(p) PROVE package' = package /\ SettledFor(m)'
  <2>1. package' = package
      BY <1>9 DEF Commit
  <2> QED
      BY <1>2, <1>9, <2>1, CommitSettled
<1>10. package' = package /\ SettledFor(m)'
    BY <1>2, <1>3, <1>4, <1>5, <1>6, <1>7, <1>8, <1>9 DEF Next
<1>11. Manifest(package)' = m
    BY <1>1, <1>10 DEF Manifest, AggregateSynthetic
<1> QED
    BY <1>10, <1>11 DEF BodyInv

\* What a revision says it did is done, in whatever order its findings came: no
\* applied finding about a block recurs, and after a COMPLETED revision nothing
\* is left that blocks a release (DeterministicReportRevisionEngine.revise).
THEOREM RevisionSettles == Spec => []RevisionConverges
<1>1. ReleaseInv /\ LineageInv /\ BodyInv => RevisionConverges
  <2> SUFFICES ASSUME ReleaseInv, LineageInv, BodyInv, NEW v \in revisions, NEW t \in reports, t.id = v.target
               PROVE  LET left == ReflectionFindings(t, RequestOf(t).manifest)
                      IN  /\ \A f \in v.applied : f.block # NoKey => f \notin left
                          /\ v.status = "COMPLETED" => \A f \in left : Severity(f.code) = "MEDIUM"
      BY DEF RevisionConverges
  <2>1. PICK m : m = Manifest(package)
      OBVIOUS
  <2>2. Settled(reports, reflections, revisions, m)
      BY <2>1 DEF BodyInv, SettledFor
  <2>3. Converges(v, t.content, m)
      BY <2>2 DEF Settled, LineageInv
  <2>4. BodyRow(t, m)
      BY <2>2 DEF Settled
  <2>5. ReflectionFindings(t, RequestOf(t).manifest) = ContentFindings(t.content, m)
      BY <2>1, <2>4, RequestSealed, ContentOnly DEF BodyRow
  <2> QED
      BY <2>3, <2>5 DEF Converges
<1> QED
    BY <1>1, ReleaseInit, ReleaseStep, LineageInit, LineageStep, BodyInit, BodyStep, PTL DEF Spec

\* In a published report a reference leads to the appendix row of its own claim,
\* though revisions renumber the references and never the rows: a revision that
\* deleted a block has left a row unused, which the second reflection finds
\* (references._rewrite_json, NO_UNUSED_APPENDIX_REFERENCE).
THEOREM ReferencesResolve == Spec => []PublishedReferencesResolve
<1>1. ReleaseInv /\ LineageInv /\ BodyInv => PublishedReferencesResolve
  <2> SUFFICES ASSUME ReleaseInv, BodyInv, NEW s \in Published, NEW i \in Factual(s.content.blocks),
                      NEW row \in s.content.appendix, row.label = s.content.blocks[i].label
               PROVE  row.claim = s.content.blocks[i].claim
      BY DEF PublishedReferencesResolve
  <2>1. PICK m : m = Manifest(package)
      OBVIOUS
  <2>2. Settled(reports, reflections, revisions, m)
      BY <2>1 DEF BodyInv, SettledFor
  <2>3. s \in reports /\ s.status = "PUBLISHABLE" /\ BodyRow(s, m)
      BY <2>2 DEF Published, Settled
  <2>4. PICK x \in reflections : x.seen = s.content /\ x.findings = {}
      BY <2>3 DEF ReleaseInv, ExaminedOK, Examined
  <2>5. ContentFindings(s.content, m) = {}
      BY <2>2, <2>4 DEF Settled
  <2>6. StructureChecks(s.content) = {}
      BY <2>5, ContentFinding
  <2>7. AppendixLabels(s.content) \subseteq BodyLabels(s.content.blocks)
      BY <2>6 DEF StructureChecks, Is, UnusedAppendixReference
  <2>8. PICK first : first = RenderBlocks(m)
      OBVIOUS
  <2>9. PICK body : body = s.content.blocks
      OBVIOUS
  <2>10. /\ first \in Bodies /\ Numbered(first) /\ Unambiguous(first)
         /\ body \in Bodies /\ Numbered(body) /\ Shrinks(first, body) /\ s.content.appendix = EvidenceAppendix(first)
      BY <2>3, <2>8, <2>9 DEF BodyRow
  <2>11. {o.label : o \in EvidenceAppendix(first)} \subseteq BodyLabels(body)
      BY <2>7, <2>9, <2>10 DEF AppendixLabels
  <2> QED
      BY <2>9, <2>10, <2>11, Resolution
<1> QED
    BY <1>1, ReleaseInit, ReleaseStep, LineageInit, LineageStep, BodyInit, BodyStep, PTL DEF Spec
=============================================================================

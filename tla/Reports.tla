------------------------------- MODULE Reports -------------------------------
(***************************************************************************)
(* Verifiable reports: composition of a report from a sealed research      *)
(* package, deterministic reflection, revision and the release gate        *)
(* (domain/reports, db/repositories/reports.py, report_cli_application.py).*)
(*                                                                         *)
(* Every CLI invocation is one database transaction.  A process reads      *)
(* committed rows, computes the rows it wants to add, and commits them:    *)
(* the computed rows wait in tx[p], and other processes may commit in      *)
(* between.  No row read by an invocation is ever updated by another one,  *)
(* so what can go wrong between the read and the commit is decided by the  *)
(* uniqueness constraints and triggers of the schema (Accepts).            *)
(***************************************************************************)
EXTENDS Integers, Sequences, FiniteSets, SequencesExt, FiniteSetsExt

CONSTANTS
  Procs,        \* operating system processes running the report CLI
  Packages,     \* the research packages the store may hold
  ReportTypes,  \* report types asked for; with the package, a request key
  MaxVersion,   \* bound: length of a version chain that is explored
  NoClaim,      \* a block, row or finding that names no claim or block
  NoId,         \* no report, no transaction
  ClaimInfo,    \* claim -> [support, type, links, own]; links: evidence, in
                \* the order of the link ids; own: validated, of the
                \* package's run and not later than its cutoff
  EvidenceInfo  \* evidence -> [own, published, synthetic, status, type, cited]

ASSUME MaxVersionAssumption == MaxVersion \in Nat \ {0}

Claims == DOMAIN ClaimInfo
Evidence == DOMAIN EvidenceInfo

Supports == {"SUPPORTED", "PARTIALLY_SUPPORTED", "CONFLICTING", "UNSUPPORTED", "BLOCKED"}

ASSUME ClaimInfoAssumption ==
  \A c \in Claims : ClaimInfo[c] \in [support : Supports, type : {"FINANCIAL", "DOCUMENT", "DATA_QUALITY", "LIMITATION"},
                                       links : Seq(Evidence), own : BOOLEAN]

\* ClaimService links a claim that it calls BLOCKED to the evidence that blocks it.
ASSUME BlockedAssumption == \A c \in Claims : ClaimInfo[c].support = "BLOCKED" => ClaimInfo[c].links # << >>

ASSUME EvidenceInfoAssumption ==
  \A e \in Evidence : EvidenceInfo[e].synthetic \in {"REAL_VERIFIED", "FIXTURE_REAL_EXCERPT", "SYNTHETIC_TEST_ONLY", "UNKNOWN"}

ASSUME PackagesAssumption == \A p \in Packages : p.claims \in Seq(Claims)

ASSUME NoClaimAssumption == NoClaim \notin Claims

\* The elements of s at the places in I, in order.
At(s, I) ==
  LET kept[n \in 0..Len(s)] == IF n = 0 THEN << >>
                               ELSE IF n \in I THEN Append(kept[n - 1], s[n]) ELSE kept[n - 1]
  IN  kept[Len(s)]

(***************************************************************************)
(* The research package a report is made from, as get_package_bundle reads *)
(* it: the rows of its run, and what the package row says they are.  The   *)
(* flags consistent and intact stand for the comparisons of ids and        *)
(* versions between package, run and request, and for their checksums.     *)
(***************************************************************************)

\* The checks of _validate_input on package, run and request themselves.
SealedPackage(p) == p.consistent /\ p.status # "FAILED" /\ p.run \in {"COMPLETED", "PARTIAL", "BLOCKED"}

ChecksumsMatch(p) == p.intact

\* _validate_claims.
ClaimsValid(p) ==
  LET stored == Range(p.claims)
  IN  /\ \A c \in stored : ClaimInfo[c].own
      /\ stored = p.listedClaims
      /\ p.unsupported = {c \in stored : ClaimInfo[c].support = "UNSUPPORTED"}
      /\ p.conflicting = {c \in stored : ClaimInfo[c].support = "CONFLICTING"}

\* Mutant: the cutoff is not applied to evidence.
EvidenceValidIgnoringCutoff(p) ==
  /\ p.evidence = p.listedEvidence
  /\ \A e \in p.evidence : /\ EvidenceInfo[e].own
                           /\ p.mode = "REAL_RESEARCH" => EvidenceInfo[e].synthetic \notin {"SYNTHETIC_TEST_ONLY", "UNKNOWN"}

\* _validate_evidence.
EvidenceValid(p) ==
  /\ p.evidence = p.listedEvidence
  /\ \A e \in p.evidence : /\ EvidenceInfo[e].own
                           /\ EvidenceInfo[e].published # "FUTURE"
                           /\ p.mode = "REAL_RESEARCH" => EvidenceInfo[e].synthetic \notin {"SYNTHETIC_TEST_ONLY", "UNKNOWN"}

\* _validate_links: no link twice or out of the package, and none missing.
LinksValid(p) ==
  \A c \in Range(p.claims) :
    /\ Range(ClaimInfo[c].links) \subseteq p.evidence
    /\ IsInjective(ClaimInfo[c].links)
    /\ ClaimInfo[c].support \in {"SUPPORTED", "PARTIALLY_SUPPORTED", "CONFLICTING"} => ClaimInfo[c].links # << >>

\* _validate_citations: get_package_bundle calls a citation valid when the
\* evidence that carries it is.
CitationsValid(p) == \A e \in p.evidence : EvidenceInfo[e].cited => EvidenceInfo[e].status = "VALID"

\* _validate_issuer_identity.
IssuerIdentified(p) ==
  Cardinality({e \in p.evidence : EvidenceInfo[e].type = "IDENTITY" /\ EvidenceInfo[e].status = "VALID"}) = 1

InputValid(p) ==
  /\ SealedPackage(p) /\ ChecksumsMatch(p)
  /\ ClaimsValid(p) /\ EvidenceValid(p) /\ LinksValid(p) /\ CitationsValid(p)
  /\ IssuerIdentified(p)

\* _aggregate_synthetic_status.
AggregateSynthetic(p) ==
  LET statuses == {EvidenceInfo[e].synthetic : e \in p.evidence}
  IN  IF statuses \subseteq {"REAL_VERIFIED"} THEN "REAL_VERIFIED"
      ELSE IF "SYNTHETIC_TEST_ONLY" \in statuses THEN "SYNTHETIC_TEST_ONLY"
      ELSE IF "UNKNOWN" \in statuses THEN "UNKNOWN"
      ELSE "FIXTURE_REAL_EXCERPT"

\* build_report_input_manifest: what a request seals of its package.
Manifest(p) == [status |-> p.status, mode |-> p.mode, synthetic |-> AggregateSynthetic(p), claims |-> p.claims]

(***************************************************************************)
(* Content of a report.                                                    *)
(***************************************************************************)

\* The template's sections that the model tells apart, in template order.
SectionOrder == << "RESEARCH_SCOPE", "FINANCIAL_HEALTH", "DOCUMENT_EVIDENCE",
                   "DATA_QUALITY", "CONFLICTS", "UNSUPPORTED_CLAIMS", "LIMITATIONS" >>

\* Where _claim_section puts a claim: the support status decides first.
ClaimSection(c) ==
  CASE ClaimInfo[c].support = "CONFLICTING" -> "CONFLICTS"
    [] ClaimInfo[c].support = "UNSUPPORTED" -> "UNSUPPORTED_CLAIMS"
    [] ClaimInfo[c].support = "BLOCKED"     -> "LIMITATIONS"
    [] OTHER -> [FINANCIAL |-> "FINANCIAL_HEALTH", DOCUMENT |-> "DOCUMENT_EVIDENCE",
                 DATA_QUALITY |-> "DATA_QUALITY", LIMITATION |-> "LIMITATIONS"][ClaimInfo[c].type]

\* What a visible reference of the block of claim c stands for: the claim
\* itself for a disclosure, else the linked evidence with the smallest id.
ReferenceTarget(c) ==
  CASE ClaimInfo[c].support = "CONFLICTING"               -> << "CON", c >>
    [] ClaimInfo[c].support \in {"UNSUPPORTED", "BLOCKED"} -> << "LIM", c >>
    [] OTHER -> << "EV", Min(Range(ClaimInfo[c].links)) >>

\* _claim_role: only LIMITATION bindings do without evidence.
IsLimitation(c) == ClaimInfo[c].support \in {"UNSUPPORTED", "BLOCKED"}

NoLabel == << "NONE", 0 >>

ClaimBlock(c) == [key |-> << "claim", c >>, sec |-> ClaimSection(c), claim |-> c,
                  label |-> NoLabel, text |-> "PLAIN"]

EmptyStateBlock(s) == [key |-> << "empty", s >>, sec |-> s, claim |-> NoClaim,
                       label |-> NoLabel, text |-> "PLAIN"]

\* Blocks of section s, in order.
InSection(blocks, s) == At(blocks, {i \in DOMAIN blocks : blocks[i].sec = s})

Factual(blocks) == {i \in DOMAIN blocks : blocks[i].claim # NoClaim}

\* ReportReferenceAllocator.allocate: labels are renumbered from scratch, per
\* kind, by first appearance of their target; a target keeps one label.
Allocate(blocks) ==
  LET factual   == Factual(blocks)
      target(i) == ReferenceTarget(blocks[i].claim)
      first(i)  == Min({j \in factual : j <= i /\ target(j) = target(i)})
      number(i) == Cardinality({target(j) : j \in {k \in factual : k <= first(i) /\ target(k)[1] = target(i)[1]}})
  IN  [i \in DOMAIN blocks |->
         [blocks[i] EXCEPT !.label = IF i \in factual THEN << target(i)[1], number(i) >> ELSE NoLabel]]

\* _render_content: one block per claim of a section, in statement order, and
\* an empty-state block where a section has none.
RenderBlocks(p) ==
  Allocate(FlattenSeq([i \in DOMAIN SectionOrder |->
    LET mine == At(p.claims, {k \in DOMAIN p.claims : ClaimSection(p.claims[k]) = SectionOrder[i]})
    IN  IF mine = << >> THEN << EmptyStateBlock(SectionOrder[i]) >>
        ELSE [k \in DOMAIN mine |-> ClaimBlock(mine[k])]]))

ClaimsOf(blocks) == {blocks[i].claim : i \in Factual(blocks)}
KeysOf(blocks) == {blocks[i].key : i \in DOMAIN blocks}
BodyLabels(blocks) == {blocks[i].label : i \in Factual(blocks)}

\* _with_appendices: one evidence-appendix row per claim binding.  The row keeps
\* the label as plain text, which no later renumbering rewrites.
EvidenceAppendix(blocks) == {[label |-> blocks[i].label, claim |-> blocks[i].claim] : i \in Factual(blocks)}

\* _mark_synthetic_content.
Marked(p) == p.mode = "SYNTHETIC_TEST_ONLY" /\ p.synthetic = "SYNTHETIC_TEST_ONLY"

ComposedContent(p) ==
  LET blocks == RenderBlocks(p)
  IN  [blocks |-> blocks, appendix |-> EvidenceAppendix(blocks), marked |-> Marked(p)]

\* _bindings: a claim is bound to the evidence of its first link by link id,
\* which need not be the evidence its visible reference stands for.
ComposedEvidence(p) == {<< c, ClaimInfo[c].links[1] >> : c \in {d \in Range(p.claims) : ~IsLimitation(d)}}

\* The citation bindings follow from the evidence bindings that carry one.
ComposedCitations(evB) == {eb \in evB : EvidenceInfo[eb[2]].cited}

\* Composition raises when a conflicting claim needs an evidence binding (its
\* visible reference is CON-nnn, the binding admits EV-nnn and MET-nnn) and
\* when two rows of the evidence appendix would carry the same reference.
ComposeRaises(p) ==
  LET blocks == RenderBlocks(p)
  IN  \/ \E c \in Range(p.claims) : ClaimInfo[c].support = "CONFLICTING"
      \/ Cardinality(BodyLabels(blocks)) # Cardinality(Factual(blocks))

(***************************************************************************)
(* Reflection: the rules of REFLECTION_RULES that composed or revised      *)
(* content can break.  The others compare columns that compose and revise  *)
(* copy from one manifest, or look for words no composed text contains.    *)
(***************************************************************************)
DocumentSections == {"DOCUMENT_EVIDENCE"}

Is(code, broken) == IF broken THEN {code} ELSE {}

\* The rules on the claims and the evidence of a factual block.
BindingChecks(b) ==
  LET info == ClaimInfo[b.claim]
  IN  Is("PRIMARY_CLAIM_HAS_EVIDENCE",
         info.support \in {"SUPPORTED", "PARTIALLY_SUPPORTED", "CONFLICTING"} /\ info.links = << >>)
      \cup Is("DOCUMENT_CLAIM_HAS_VALID_CITATION", b.sec \in DocumentSections)
      \cup Is("STRUCTURED_CLAIM_HAS_LINEAGE", b.sec \notin DocumentSections /\ info.links = << >>)

\* The rules on dates: no composed block carries a publication date.
TemporalChecks(b) == Is("STRICT_DOCUMENT_PUBLISHED_AT_KNOWN", b.sec \in DocumentSections)

\* The rules on where and how a claim is shown.
DisclosureChecks(b) ==
  LET support == ClaimInfo[b.claim].support
  IN  Is("CONFLICTING_CLAIMS_DISCLOSED", support = "CONFLICTING" /\ b.sec # "CONFLICTS")
      \cup Is("PARTIAL_SUPPORT_QUALIFIED", support = "PARTIALLY_SUPPORTED" /\ b.text # "QUALIFIED")
      \cup Is("UNSUPPORTED_CLAIMS_RESTRICTED",
              support = "UNSUPPORTED" /\ b.sec \notin {"UNSUPPORTED_CLAIMS", "LIMITATIONS"})

BlockChecks(b) == BindingChecks(b) \cup TemporalChecks(b) \cup DisclosureChecks(b)

AppendixLabels(content) == {row.label : row \in content.appendix}

\* Mutant: the appendix is only compared with the body one way.
UnusedAppendixReferenceOff(content) == FALSE

\* NO_UNUSED_APPENDIX_REFERENCE.
UnusedAppendixReference(content) == AppendixLabels(content) \ BodyLabels(content.blocks) # {}

SectionPresent(content, s) == \E i \in DOMAIN content.blocks : content.blocks[i].sec = s

\* What a report and the manifest it is checked against must have in common:
\* context, checksums and the shape of the version chain.
ContextChecks(r, m) ==
  Is("SECURITY_MATCHES", r.manifest # m)
    \cup Is("REPORT_INPUT_MANIFEST_UNCHANGED", r.manifest # m)
    \cup Is("REPORT_STRUCTURE_VERSION_CHAIN_VALID", (r.version = 1) # (r.prev = NoId))

\* Real research on other than real evidence, synthetic content not marked.
ProvenanceChecks(content, m) ==
  Is("NO_REAL_RESEARCH_SYNTHETIC_EVIDENCE",
     m.mode = "REAL_RESEARCH" /\ m.synthetic \notin {"REAL_VERIFIED", "FIXTURE_REAL_EXCERPT"})
    \cup Is("SYNTHETIC_NOT_REAL_COMPANY_RESEARCH",
            "SYNTHETIC_TEST_ONLY" \in {m.mode, m.synthetic} /\ ~content.marked)

\* Sections that must be there, references that must resolve.
StructureChecks(content) ==
  Is("DATA_QUALITY_PRESENT", ~SectionPresent(content, "DATA_QUALITY"))
    \cup Is("LIMITATIONS_PRESENT", ~SectionPresent(content, "LIMITATIONS"))
    \cup Is("NO_ORPHAN_BODY_REFERENCE", BodyLabels(content.blocks) \ AppendixLabels(content) # {})
    \cup Is("NO_UNUSED_APPENDIX_REFERENCE", UnusedAppendixReference(content))

NoKey == << "none", NoClaim >>

\* DeterministicReportReflectionEngine.reflect.
ReflectionFindings(r, m) ==
  {[code |-> k, block |-> NoKey] :
      k \in ContextChecks(r, m) \cup ProvenanceChecks(r.content, m) \cup StructureChecks(r.content)}
    \cup UNION {{[code |-> k, block |-> r.content.blocks[i].key] : k \in BlockChecks(r.content.blocks[i])}
                : i \in Factual(r.content.blocks)}

\* _MINIMUM_SEVERITIES.
Severity(code) ==
  CASE code \in {"NO_REAL_RESEARCH_SYNTHETIC_EVIDENCE", "SYNTHETIC_NOT_REAL_COMPANY_RESEARCH",
                 "SECURITY_MATCHES", "REPORT_INPUT_MANIFEST_UNCHANGED",
                 "REPORT_STRUCTURE_VERSION_CHAIN_VALID"} -> "CRITICAL"
    [] code \in {"PARTIAL_SUPPORT_QUALIFIED", "NO_ORPHAN_BODY_REFERENCE", "NO_UNUSED_APPENDIX_REFERENCE"} -> "MEDIUM"
    [] OTHER -> "HIGH"

\* _REVISION_REMEDIATIONS, and the handler that REVISION_ACTION_HANDLERS gives
\* to each; the codes of every other check have no handler.
Remediation(code) ==
  CASE code \in {"PRIMARY_CLAIM_HAS_EVIDENCE", "DOCUMENT_CLAIM_HAS_VALID_CITATION",
                 "STRUCTURED_CLAIM_HAS_LINEAGE"} -> "DELETE"
    [] code = "PARTIAL_SUPPORT_QUALIFIED"        -> "QUALIFY"
    [] code = "CONFLICTING_CLAIMS_DISCLOSED"     -> "MOVE_CONFLICT"
    [] code = "UNSUPPORTED_CLAIMS_RESTRICTED"    -> "MOVE_UNSUPPORTED"
    [] code = "DATA_QUALITY_PRESENT"             -> "ADD_DATA_QUALITY"
    [] code = "LIMITATIONS_PRESENT"              -> "ADD_LIMITATIONS"
    [] code \in {"NO_ORPHAN_BODY_REFERENCE", "NO_UNUSED_APPENDIX_REFERENCE"} -> "RENUMBER"
    [] OTHER -> "NO_HANDLER"

(***************************************************************************)
(* Revision.                                                               *)
(***************************************************************************)

\* Blocks of a report stay grouped by section.
BySection(blocks) == FlattenSeq([i \in DOMAIN SectionOrder |-> InSection(blocks, SectionOrder[i])])

DeleteBlock(blocks, key) == At(blocks, {i \in DOMAIN blocks : blocks[i].key # key})

MoveBlock(blocks, key, s) ==
  LET i == CHOOSE j \in DOMAIN blocks : blocks[j].key = key
  IN  BySection(Append(DeleteBlock(blocks, key), [blocks[i] EXCEPT !.sec = s]))

QualifyPartial(blocks, key) ==
  [i \in DOMAIN blocks |-> IF blocks[i].key = key THEN [blocks[i] EXCEPT !.text = "QUALIFIED"] ELSE blocks[i]]

AppendDisclosure(blocks, code, s) ==
  BySection(Append(blocks, [key |-> << "reflection", code >>, sec |-> s, claim |-> NoClaim,
                            label |-> NoLabel, text |-> "PLAIN"]))

\* The findings whose place in the order matters: the others are left alone.
Handled(findings) == {f \in findings : Remediation(f.code) # "NO_HANDLER"}

\* A finding is unresolved when no handler has its code, or its block is gone.
CanApply(blocks, f) ==
  CASE Remediation(f.code) = "NO_HANDLER" -> FALSE
    [] Remediation(f.code) \in {"DELETE", "QUALIFY", "MOVE_CONFLICT", "MOVE_UNSUPPORTED"} -> f.block \in KeysOf(blocks)
    [] OTHER -> TRUE

ApplyFinding(blocks, f) ==
  CASE Remediation(f.code) = "DELETE"           -> DeleteBlock(blocks, f.block)
    [] Remediation(f.code) = "QUALIFY"          -> QualifyPartial(blocks, f.block)
    [] Remediation(f.code) = "MOVE_CONFLICT"    -> MoveBlock(blocks, f.block, "CONFLICTS")
    [] Remediation(f.code) = "MOVE_UNSUPPORTED" -> MoveBlock(blocks, f.block, "UNSUPPORTED_CLAIMS")
    [] Remediation(f.code) = "ADD_DATA_QUALITY" -> AppendDisclosure(blocks, f.code, "DATA_QUALITY")
    [] Remediation(f.code) = "ADD_LIMITATIONS"  -> AppendDisclosure(blocks, f.code, "LIMITATIONS")
    [] Remediation(f.code) = "RENUMBER"         -> Allocate(blocks)
    [] OTHER -> blocks

\* One finding after the other, each on the blocks the earlier ones left.
RevisionStep(acc, f) ==
  IF CanApply(acc.blocks, f)
  THEN [blocks |-> ApplyFinding(acc.blocks, f), applied |-> acc.applied \cup {f}]
  ELSE acc

Revised(blocks, order) ==
  LET done[n \in 0..Len(order)] == IF n = 0 THEN [blocks |-> blocks, applied |-> {}]
                                   ELSE RevisionStep(done[n - 1], order[n])
  IN  done[Len(order)]

\* Mutant: the target is built from the content the revision started with.
ReviseContentStale(content, order) ==
  [content |-> [content EXCEPT !.blocks = Allocate(content.blocks)], applied |-> Revised(content.blocks, order).applied]

\* DeterministicReportRevisionEngine.revise: the findings in the order of their
\* ids (random, so any order), then canonicalisation and fresh references.
ReviseContent(content, order) ==
  LET done == Revised(content.blocks, order)
  IN  [content |-> [content EXCEPT !.blocks = Allocate(done.blocks)], applied |-> done.applied]

\* The evidence a report's body refers to, which rebasing looks bindings up in.
EvidenceTargets(blocks) ==
  {ReferenceTarget(c)[2] : c \in {d \in ClaimsOf(blocks) : ReferenceTarget(d)[1] = "EV"}}

\* Whether rebasing carries binding eb = <<claim, evidence>> over.
KeepsBinding(eb, blocks) == eb[1] \in ClaimsOf(blocks) /\ eb[2] \in EvidenceTargets(blocks)


\* Mutant: bindings are rebuilt from the visible references.
RebaseEvidenceFromLabels(evB, blocks) ==
  {<< eb[1], ReferenceTarget(eb[1])[2] >> : eb \in {e \in evB : KeepsBinding(e, blocks)}}

RebaseEvidence(evB, blocks) == {eb \in evB : KeepsBinding(eb, blocks)}

\* A citation binding survives when the body refers to the citation, which the
\* references of composed blocks (EV, MET, LIM, CON) never do.
RebaseCitations(citB, evB, blocks) ==
  {eb \in citB \cap evB : \E c \in ClaimsOf(blocks) : ReferenceTarget(c) = << "CIT", eb[2] >>}

RebaseClaims(claimB, blocks) == claimB \cap ClaimsOf(blocks)

\* require_complete_binding_graph.
CompleteBindingGraph(blocks, claimB, evB) ==
  claimB # {} => /\ ClaimsOf(blocks) = claimB
                 /\ \A c \in claimB : IsLimitation(c) \/ \E eb \in evB : eb[1] = c

(***************************************************************************)
(* Committed tables and the transactions in flight.                        *)
(***************************************************************************)
VARIABLES
  package,      \* the sealed research package in the store
  seeds,        \* reference rows seeded so far
  requests,     \* report_requests
  runs,         \* report_generation_runs
  reports,      \* research_reports with their sections, blocks and bindings
  reflections,  \* report_reflection_runs with their findings
  revisions,    \* report_revision_runs
  gates,        \* report_release_gates
  tx            \* process -> rows its open transaction will insert, or NoId

tables == << requests, runs, reports, reflections, revisions, gates >>
vars == << package, seeds, tables, tx >>

SeedItems == {"policy", "reflection_policy", "template"}

NoRows == [requests |-> {}, runs |-> {}, reports |-> {}, reflections |-> {}, revisions |-> {}, gates |-> {}]

(***************************************************************************)
(* Rows.  A report id spells its history: the request it came from, then   *)
(* "rev" and "seal" for the steps that made it (the ids of targets and     *)
(* sealed reports are derived from the source's id).                       *)
(***************************************************************************)
ReportIds == {<< t >> \o steps : t \in ReportTypes, steps \in UNION {[1..n -> {"rev", "seal"}] : n \in 0..MaxVersion}}

ASSUME NoIdAssumption == NoId \notin Seq(ReportTypes \cup {"rev", "seal"})

CheckCodes ==
  {"PRIMARY_CLAIM_HAS_EVIDENCE", "DOCUMENT_CLAIM_HAS_VALID_CITATION", "STRUCTURED_CLAIM_HAS_LINEAGE",
   "STRICT_DOCUMENT_PUBLISHED_AT_KNOWN", "CONFLICTING_CLAIMS_DISCLOSED", "PARTIAL_SUPPORT_QUALIFIED",
   "UNSUPPORTED_CLAIMS_RESTRICTED", "SECURITY_MATCHES", "REPORT_INPUT_MANIFEST_UNCHANGED",
   "REPORT_STRUCTURE_VERSION_CHAIN_VALID", "NO_REAL_RESEARCH_SYNTHETIC_EVIDENCE",
   "SYNTHETIC_NOT_REAL_COMPANY_RESEARCH", "DATA_QUALITY_PRESENT", "LIMITATIONS_PRESENT",
   "NO_ORPHAN_BODY_REFERENCE", "NO_UNUSED_APPENDIX_REFERENCE"}

Sections == Range(SectionOrder)

BlockKeys == ({"claim"} \X Claims) \cup ({"empty"} \X Sections) \cup ({"reflection"} \X CheckCodes)

ManifestRows ==
  [status : {"COMPLETE", "PARTIAL", "BLOCKED"}, mode : {"REAL_RESEARCH", "SYNTHETIC_TEST_ONLY"},
   synthetic : {"REAL_VERIFIED", "FIXTURE_REAL_EXCERPT", "SYNTHETIC_TEST_ONLY", "UNKNOWN"}, claims : Seq(Claims)]

RequestRows == [key : ReportTypes, manifest : ManifestRows]

GenerationRunRows == [key : ReportTypes, request : ReportTypes, status : {"COMPLETED", "PARTIAL", "BLOCKED"}]

Labels == ({"EV", "LIM", "CON"} \X Nat) \cup {NoLabel}

BlockRows == [key : BlockKeys, sec : Sections, claim : Claims \cup {NoClaim}, label : Labels,
              text : {"PLAIN", "QUALIFIED"}]

ClaimBindingRows == Claims
EvidenceBindingRows == Claims \X Evidence
CitationBindingRows == {eb \in EvidenceBindingRows : EvidenceInfo[eb[2]].cited}

ReportRows ==
  [id : ReportIds, run : ReportTypes, version : 1..MaxVersion, prev : ReportIds \cup {NoId},
   status : {"DRAFT", "REVISED", "PUBLISHABLE", "PARTIAL", "BLOCKED"}, manifest : ManifestRows,
   content : [blocks : Seq(BlockRows), appendix : SUBSET [label : Labels, claim : Claims], marked : BOOLEAN],
   claimB : SUBSET ClaimBindingRows, evB : SUBSET EvidenceBindingRows, citB : SUBSET CitationBindingRows]

FindingRows == [code : CheckCodes, block : BlockKeys \cup {NoKey}]

ReflectionRows ==
  [report : ReportIds, round : 1..2, seen : [blocks : Seq(BlockRows), appendix : SUBSET [label : Labels, claim : Claims],
   marked : BOOLEAN], findings : SUBSET FindingRows, status : {"PASS", "FINDINGS"}]

RevisionRows ==
  [source : ReportIds, target : ReportIds, applied : SUBSET FindingRows, unresolved : SUBSET FindingRows,
   status : {"COMPLETED", "PARTIAL"}]

GateRows ==
  [candidate : ReportIds, reflection : ReportIds \X (1..2), decision : {"PUBLISHABLE", "PARTIAL", "BLOCKED", "FAILED"},
   sealed : ReportIds \cup {NoId}]

(***************************************************************************)
(* What the schema accepts.                                                *)
(***************************************************************************)

\* One request, and one run that is not failed, per idempotency key.
AcceptsRequest(q) == \A o \in requests : o.key # q.key
AcceptsRun(g) == \A o \in runs : o.key # g.key

\* research_reports: unique version of a run, unique successor of a report.
AcceptsReport(r) ==
  \A o \in reports : /\ o.id # r.id
                     /\ << o.run, o.version >> # << r.run, r.version >>
                     /\ r.prev # NoId => o.prev # r.prev

\* The trigger stage8_validate_report_version.
AcceptsVersion(r) ==
  \/ r.prev = NoId /\ r.version = 1
  \/ \E o \in reports : o.id = r.prev /\ o.run = r.run /\ r.version = o.version + 1

AcceptsBlocks(r) == Cardinality(KeysOf(r.content.blocks)) = Len(r.content.blocks)

\* One binding per place in a block.
AcceptsClaimBindings(r) == r.claimB \subseteq ClaimsOf(r.content.blocks)

\* The reference that a binding shows: the block's own when it is composed,
\* that of the bound evidence once it has been rebased.
VisibleReference(r, eb) == IF r.version = 1 THEN ReferenceTarget(eb[1]) ELSE << "EV", eb[2] >>

\* A report shows no reference for two of its evidence bindings.
AcceptsEvidenceBindings(r) ==
  \A a, b \in r.evB : a # b => VisibleReference(r, a) # VisibleReference(r, b)

\* The id of a citation binding is derived from report and citation.
AcceptsCitationBindings(r) == \A a, b \in r.citB : a # b => a[2] # b[2]

AcceptsReflection(x) == \A o \in reflections : << o.report, o.round >> # << x.report, x.round >>

\* A finding about a block names a block of the reflected report.
AcceptsFindings(x) ==
  \A f \in x.findings : f.block = NoKey \/ \E r \in reports : r.id = x.report /\ f.block \in KeysOf(r.content.blocks)

AcceptsRevision(v) == \A o \in revisions : o.source # v.source /\ o.target # v.target
AcceptsGate(g) == \A o \in gates : o.candidate # g.candidate /\ (g.sealed # NoId => o.sealed # g.sealed)

Accepts(rows) ==
  /\ \A q \in rows.requests : AcceptsRequest(q)
  /\ \A g \in rows.runs : AcceptsRun(g)
  /\ \A r \in rows.reports : /\ AcceptsReport(r) /\ AcceptsVersion(r) /\ AcceptsBlocks(r)
                             /\ AcceptsClaimBindings(r) /\ AcceptsEvidenceBindings(r) /\ AcceptsCitationBindings(r)
  /\ \A x \in rows.reflections : AcceptsReflection(x) /\ AcceptsFindings(x)
  /\ \A v \in rows.revisions : AcceptsRevision(v)
  /\ \A g \in rows.gates : AcceptsGate(g)

Init ==
  /\ package \in Packages
  /\ seeds = {}
  /\ requests = {} /\ runs = {} /\ reports = {} /\ reflections = {} /\ revisions = {} /\ gates = {}
  /\ tx = [p \in Procs |-> NoId]

\* A seed command inserts its rows or finds them unchanged.
Seed(item) ==
  /\ item \notin seeds
  /\ seeds' = seeds \cup {item}
  /\ UNCHANGED << package, tables, tx >>

SeedPolicy == Seed("policy")
SeedReflectionPolicy == Seed("reflection_policy")
SeedTemplates == Seed("template")

(***************************************************************************)
(* Generation.                                                             *)
(***************************************************************************)

\* _validate_package_state.
RequestAllowed(m, t) == m.status = "BLOCKED" => t = "DATA_QUALITY_REPORT"


\* composition._status.
ComposedStatus(m) == [COMPLETE |-> "DRAFT", PARTIAL |-> "PARTIAL", BLOCKED |-> "BLOCKED"][m.status]

\* _generation_outcome raises for any other status, which no transition allows.
GenerationOutcome(status) ==
  CASE status = "DRAFT" -> "COMPLETED" [] status \in {"PARTIAL", "BLOCKED"} -> status [] OTHER -> "INVALID"

\* The statuses a run goes through inside its transaction, each a step that
\* ReportGenerationStateMachine and the lifecycle trigger allow.
GenerationTransition(from, to) ==
  \/ from = "CREATED" /\ to = "RUNNING"
  \/ from = "RUNNING" /\ to \in {"COMPLETED", "PARTIAL", "BLOCKED", "FAILED"}

\* DeterministicReportCompositionService.compose.
ComposedReport(m, t) ==
  LET evB == ComposedEvidence(m)
  IN  [id |-> << t >>, run |-> t, version |-> 1, prev |-> NoId, status |-> ComposedStatus(m), manifest |-> m,
       content |-> ComposedContent(m), claimB |-> Range(m.claims), evB |-> evB, citB |-> ComposedCitations(evB)]

\* An invocation whose rows the committed tables already refuse rolls back and
\* leaves nothing behind; only the others are followed (the guards below that
\* look for an existing row say the same before the rows are computed).
Begin(p, rows) ==
  /\ tx[p] = NoId
  /\ tx' = [tx EXCEPT ![p] = rows]
  /\ Accepts(tx'[p])
  /\ UNCHANGED << package, seeds, tables >>

BeginGenerate(p, t) ==
  LET m       == Manifest(package)
      report  == ComposedReport(m, t)
      outcome == GenerationOutcome(report.status)
  IN  /\ tx[p] = NoId
      /\ seeds = SeedItems
      /\ ~\E g \in runs : g.key = t
      /\ InputValid(package)
      /\ RequestAllowed(m, t)
      /\ ~ComposeRaises(m)
      /\ CompleteBindingGraph(report.content.blocks, report.claimB, report.evB)
      /\ GenerationTransition("CREATED", "RUNNING") /\ GenerationTransition("RUNNING", outcome)
      /\ Begin(p, [NoRows EXCEPT !.requests = {[key |-> t, manifest |-> m]},
                                 !.runs = {[key |-> t, request |-> t, status |-> outcome]},
                                 !.reports = {report}])

\* _request_for_report: the request of the run that made the report.
RequestOf(r) ==
  CHOOSE q \in requests : q.key = (CHOOSE g \in runs : g.key = r.run).request

(***************************************************************************)
(* Reflection and revision.                                                *)
(***************************************************************************)

\* _validate_reflection_outcome: PASS says no finding.
ReflectionOutcome(findings) == IF findings = {} THEN "PASS" ELSE "FINDINGS"

\* _reflect accepts either round of any report; the earlier round it is told
\* about is not looked at.
BeginReflect(p, r, round) ==
  LET findings == ReflectionFindings(r, RequestOf(r).manifest)
  IN  /\ tx[p] = NoId
      /\ ~\E o \in reflections : o.report = r.id /\ o.round = round
      /\ Begin(p, [NoRows EXCEPT !.reflections =
                  {[report |-> r.id, round |-> round, seen |-> r.content, findings |-> findings,
                    status |-> ReflectionOutcome(findings)]}])

\* _validate_revision_input.
RevisionInputValid(r, x) ==
  /\ x.status = "FINDINGS"
  /\ x.report = r.id
  /\ x.round = 1
  /\ x.seen = r.content

\* _build_target and rebase_report_bindings.
RevisionTarget(r, content) ==
  LET evB == RebaseEvidence(r.evB, content.blocks)
  IN  [r EXCEPT !.id = Append(r.id, "rev"), !.version = @ + 1, !.prev = r.id, !.status = "REVISED",
                !.content = content, !.claimB = RebaseClaims(@, content.blocks), !.evB = evB,
                !.citB = RebaseCitations(@, evB, content.blocks)]

\* _validate_revision_outcome: a COMPLETED revision leaves nothing.
RevisionOutcome(unresolved) == IF unresolved = {} THEN "COMPLETED" ELSE "PARTIAL"

BeginRevise(p, r, x) ==
  /\ tx[p] = NoId
  /\ ~\E o \in reports : o.prev = r.id
  /\ RevisionInputValid(r, x)
  /\ r.version < MaxVersion
  /\ \E revised \in {ReviseContent(r.content, order) : order \in SetToSeqs(Handled(x.findings))} :
       LET target == RevisionTarget(r, revised.content)
           left   == x.findings \ revised.applied
       IN  /\ CompleteBindingGraph(target.content.blocks, target.claimB, target.evB)
           /\ Begin(p, [NoRows EXCEPT
                !.reports = {target},
                !.revisions = {[source |-> r.id, target |-> target.id, applied |-> revised.applied,
                                unresolved |-> left, status |-> RevisionOutcome(left)]}])

(***************************************************************************)
(* The release gate.                                                       *)
(***************************************************************************)


\* Mutant: any completed reflection of the candidate will do.
RoundTwoCompletedAnyRound(r, x) == x.report = r.id /\ x.seen = r.content

\* _round_two_completed.
RoundTwoCompleted(r, x) == x.round = 2 /\ x.report = r.id /\ x.seen = r.content

\* _input_integrity and _context_matches.
InputIntegrity(r, m) == r.manifest = m

Worst(x, severity) == \E f \in x.findings : Severity(f.code) = severity

\* The provenance part of NO_SYNTHETIC_CONTAMINATION.
ProvenanceConsistent(m) ==
  \/ m.mode = "REAL_RESEARCH" /\ m.synthetic \in {"REAL_VERIFIED", "FIXTURE_REAL_EXCERPT"}
  \/ m.mode = "SYNTHETIC_TEST_ONLY" /\ m.synthetic = "SYNTHETIC_TEST_ONLY"

\* _report_type_compatible, the type being one the policy allows.
TypeCompatible(r, m) == m.status = "BLOCKED" => r.run = "DATA_QUALITY_REPORT"

\* _REQUIREMENT_CHECKS: the findings that fail a requirement of the gate.
RequirementChecks ==
  {"PRIMARY_CLAIM_HAS_EVIDENCE", "UNSUPPORTED_CLAIMS_RESTRICTED", "CONFLICTING_CLAIMS_DISCLOSED",
   "DOCUMENT_CLAIM_HAS_VALID_CITATION", "STRUCTURED_CLAIM_HAS_LINEAGE", "STRICT_DOCUMENT_PUBLISHED_AT_KNOWN",
   "NO_REAL_RESEARCH_SYNTHETIC_EVIDENCE", "SYNTHETIC_NOT_REAL_COMPANY_RESEARCH", "SECURITY_MATCHES",
   "REPORT_INPUT_MANIFEST_UNCHANGED", "DATA_QUALITY_PRESENT", "LIMITATIONS_PRESENT"}

\* The requirements of evaluate that the decision does not look at one by one.
RequirementsMet(m, r, x) ==
  /\ {f.code : f \in x.findings} \cap RequirementChecks = {}
  /\ InputIntegrity(r, m)
  /\ m.status = "COMPLETE"
  /\ ProvenanceConsistent(m)
  /\ TypeCompatible(r, m)

\* _decision.
Decision(m, r, x) ==
  IF ~RoundTwoCompleted(r, x) \/ ~InputIntegrity(r, m) THEN "FAILED"
  ELSE IF m.status = "BLOCKED" THEN "BLOCKED"
  ELSE IF Worst(x, "CRITICAL") \/ Worst(x, "HIGH") THEN "BLOCKED"
  ELSE IF m.status = "PARTIAL" THEN "PARTIAL"
  ELSE IF x.status = "FINDINGS" \/ ~RequirementsMet(m, r, x) THEN "PARTIAL"
  ELSE "PUBLISHABLE"

\* validate_report_successor.
ValidSuccessor(r, s) ==
  /\ s.id # r.id /\ s.version = r.version + 1 /\ s.prev = r.id
  /\ s.run = r.run /\ s.manifest = r.manifest
  /\ s.status = "PUBLISHABLE" => s.content = r.content

\* _build_sealed_report: the candidate's content under a new version.
SealedReport(r) ==
  LET evB == RebaseEvidence(r.evB, r.content.blocks)
  IN  [r EXCEPT !.id = Append(r.id, "seal"), !.version = @ + 1, !.prev = r.id, !.status = "PUBLISHABLE",
                !.claimB = RebaseClaims(@, r.content.blocks), !.evB = evB,
                !.citB = RebaseCitations(@, evB, r.content.blocks)]

\* The reflection named on the command line may be of any round and report.
BeginRelease(p, r, x) ==
  LET decision == Decision(RequestOf(r).manifest, r, x)
      sealed   == SealedReport(r)
      publish  == decision = "PUBLISHABLE"
  IN  /\ tx[p] = NoId
      /\ r.version < MaxVersion
      /\ ~\E g \in gates : g.candidate = r.id
      /\ publish => /\ ValidSuccessor(r, sealed)
                    /\ CompleteBindingGraph(r.content.blocks, sealed.claimB, sealed.evB)
      /\ Begin(p, [NoRows EXCEPT
           !.reports = IF publish THEN {sealed} ELSE {},
           !.gates = {[candidate |-> r.id, reflection |-> << x.report, x.round >>, decision |-> decision,
                       sealed |-> IF publish THEN sealed.id ELSE NoId]}])

Commit(p) ==
  /\ tx[p] # NoId
  /\ Accepts(tx[p])
  /\ requests' = requests \cup tx[p].requests
  /\ runs' = runs \cup tx[p].runs
  /\ reports' = reports \cup tx[p].reports
  /\ reflections' = reflections \cup tx[p].reflections
  /\ revisions' = revisions \cup tx[p].revisions
  /\ gates' = gates \cup tx[p].gates
  /\ tx' = [tx EXCEPT ![p] = NoId]
  /\ UNCHANGED << package, seeds >>

\* session_scope rolls back: a constraint refused a row, or the process died.
Abort(p) ==
  /\ tx[p] # NoId
  /\ tx' = [tx EXCEPT ![p] = NoId]
  /\ UNCHANGED << package, seeds, tables >>

Next ==
  \/ SeedPolicy
  \/ SeedReflectionPolicy
  \/ SeedTemplates
  \/ \E p \in Procs :
       \/ \E t \in ReportTypes : BeginGenerate(p, t)
       \/ \E r \in reports : \/ \E round \in 1..2 : BeginReflect(p, r, round)
                             \/ \E x \in reflections : BeginRevise(p, r, x) \/ BeginRelease(p, r, x)
       \/ Commit(p)
       \/ Abort(p)

Spec == Init /\ [][Next]_vars

(***************************************************************************)
(* Properties.                                                             *)
(***************************************************************************)

\* Every committed row is one its table's columns and checks describe; no
\* invocation commits a run that is still CREATED or RUNNING.
TypeOK ==
  /\ package \in Packages
  /\ seeds \subseteq SeedItems
  /\ requests \subseteq RequestRows /\ runs \subseteq GenerationRunRows
  /\ reports \subseteq ReportRows /\ reflections \subseteq ReflectionRows
  /\ revisions \subseteq RevisionRows /\ gates \subseteq GateRows
  /\ DOMAIN tx = Procs

Published == {r \in reports : r.status = "PUBLISHABLE"}

\* A report is published only as the successor of a candidate that a second
\* reflection round examined in exactly the published form and found nothing
\* in, for a complete package whose provenance is consistent, and the gate that
\* published it is on record (ReportReleaseGate.evaluate, _round_two_completed).
SealedIsExamined ==
  \A s \in Published :
    /\ package.status = "COMPLETE" /\ ProvenanceConsistent(Manifest(package))
    /\ \E x \in reflections : x.report = s.prev /\ x.round = 2 /\ x.seen = s.content /\ x.findings = {}
    /\ \E g \in gates : g.candidate = s.prev /\ g.sealed = s.id

\* Whatever the rows of a package's run are, the evidence a published report is
\* bound to is of that run, not later than its cutoff, real when the research
\* is, and valid where it is a citation.  Nothing after the input verification
\* of generate looks at evidence again (input_verification._validate_evidence).
PublishedEvidenceSound ==
  \A s \in Published : \A eb \in s.evB :
    LET e == EvidenceInfo[eb[2]]
    IN  /\ e.own /\ e.published # "FUTURE"
        /\ package.mode = "REAL_RESEARCH" => e.synthetic \in {"REAL_VERIFIED", "FIXTURE_REAL_EXCERPT"}
        /\ e.cited => e.status = "VALID"

\* In a published report every reference of the body leads to the appendix row
\* of the same claim.  Revision renumbers the body and leaves the appendix rows
\* alone (references._rewrite_json), so after a deletion a label can name the
\* row of another claim; the reflection rules must keep such a report back.
PublishedReferencesResolve ==
  \A s \in Published : \A i \in Factual(s.content.blocks) :
    \A row \in s.content.appendix :
      row.label = s.content.blocks[i].label => row.claim = s.content.blocks[i].claim

\* A revision does what its record says, in whatever order the findings come:
\* an applied finding about a block does not recur in the revised report, and a
\* COMPLETED revision leaves nothing that blocks a release
\* (DeterministicReportRevisionEngine.revise).
RevisionConverges ==
  \A v \in revisions : \A t \in {r \in reports : r.id = v.target} :
    LET left == ReflectionFindings(t, RequestOf(t).manifest)
    IN  /\ \A f \in v.applied : f.block # NoKey => f \notin left
        /\ v.status = "COMPLETED" => \A f \in left : Severity(f.code) = "MEDIUM"

\* A successor report never claims or cites more than its predecessor, and its
\* bindings always cover exactly the claims of its body (rebase_report_bindings
\* copies "only surviving immutable lineage edges").
LineageNeverGrows ==
  \A r \in reports :
    /\ \A o \in reports : r.prev = o.id => r.claimB \subseteq o.claimB /\ r.evB \subseteq o.evB
    /\ r.claimB = ClaimsOf(r.content.blocks)
    /\ \A c \in r.claimB : IsLimitation(c) \/ \E eb \in r.evB : eb[1] = c

\* Stage 8 design: "each explicit CLI step validates its predecessor" and the
\* plan's "Round 2 requires completed Round 1".  A second round of reflection
\* exists only after a first round on the same report or on the one it revises.
RoundTwoHasPredecessor ==
  \A x \in reflections : x.round = 2 =>
    \E y \in reflections : y.round = 1 /\ (y.report = x.report \/ \E r \in reports : r.id = x.report /\ r.prev = y.report)
=============================================================================

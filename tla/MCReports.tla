------------------------------ MODULE MCReports ------------------------------
(* Small instances of Reports. *)
EXTENDS Reports, TLC

CONSTANTS fin, part, doc, dq, uns, lim, multi, shared, conf, late, stray

Info(support, type, links) == [support |-> support, type |-> type, links |-> links, own |-> TRUE]

\* multi is bound to evidence 6 and shows the reference of evidence 5.
MCClaimInfo ==
  fin      :> Info("SUPPORTED", "FINANCIAL", << 1 >>)
  @@ part   :> Info("PARTIALLY_SUPPORTED", "FINANCIAL", << 2 >>)
  @@ doc    :> Info("SUPPORTED", "DOCUMENT", << 3 >>)
  @@ dq     :> Info("SUPPORTED", "DATA_QUALITY", << 4 >>)
  @@ uns    :> Info("UNSUPPORTED", "FINANCIAL", << >>)
  @@ lim    :> Info("BLOCKED", "LIMITATION", << 2 >>)
  @@ multi  :> Info("SUPPORTED", "FINANCIAL", << 6, 5 >>)
  @@ shared :> Info("SUPPORTED", "FINANCIAL", << 6 >>)
  @@ conf   :> Info("CONFLICTING", "FINANCIAL", << 1, 2 >>)
  @@ late   :> Info("SUPPORTED", "FINANCIAL", << 7 >>)
  @@ stray  :> [Info("SUPPORTED", "FINANCIAL", << 1 >>) EXCEPT !.own = FALSE]

Plain == [own |-> TRUE, published |-> "KNOWN", synthetic |-> "REAL_VERIFIED", status |-> "VALID",
          type |-> "RECORD", cited |-> FALSE]

\* 0 identifies the issuer; 8 to 11 each have one fault.
MCEvidenceInfo ==
  [e \in 0..11 |->
    CASE e = 0  -> [Plain EXCEPT !.type = "IDENTITY"]
      [] e = 1  -> [Plain EXCEPT !.cited = TRUE]
      [] e = 4  -> [Plain EXCEPT !.synthetic = "FIXTURE_REAL_EXCERPT"]
      [] e = 7  -> [Plain EXCEPT !.published = "FUTURE"]
      [] e = 8  -> [Plain EXCEPT !.synthetic = "SYNTHETIC_TEST_ONLY"]
      [] e = 9  -> [Plain EXCEPT !.synthetic = "UNKNOWN"]
      [] e = 10 -> [Plain EXCEPT !.own = FALSE]
      [] e = 11 -> [Plain EXCEPT !.cited = TRUE, !.status = "INVALID"]
      [] OTHER  -> Plain]

\* A package whose row agrees with the stored rows.
Package(status, mode, claims, more) ==
  LET evidence == {0} \cup more \cup UNION {Range(MCClaimInfo[c].links) : c \in Range(claims)}
  IN  [status |-> status, mode |-> mode, claims |-> claims, evidence |-> evidence,
       run |-> IF status = "COMPLETE" THEN "COMPLETED" ELSE status, consistent |-> TRUE, intact |-> TRUE,
       listedClaims |-> Range(claims), listedEvidence |-> evidence,
       unsupported |-> {c \in Range(claims) : MCClaimInfo[c].support = "UNSUPPORTED"},
       conflicting |-> {c \in Range(claims) : MCClaimInfo[c].support = "CONFLICTING"}]

Good == Package("COMPLETE", "REAL_RESEARCH", << fin >>, {})

MCPackages ==
  { Package("COMPLETE", "REAL_RESEARCH", << fin, part >>, {}),
    Package("COMPLETE", "REAL_RESEARCH", << fin, doc, dq >>, {}),
    Package("COMPLETE", "REAL_RESEARCH", << fin, uns >>, {4}),
    Package("COMPLETE", "REAL_RESEARCH", << part, lim >>, {}),
    Package("COMPLETE", "SYNTHETIC_TEST_ONLY", << multi, shared, part >>, {8}),
    Package("COMPLETE", "SYNTHETIC_TEST_ONLY", << multi, part >>, {8}),
    Package("COMPLETE", "SYNTHETIC_TEST_ONLY", << fin >>, {}),
    Package("PARTIAL", "REAL_RESEARCH", << fin, part >>, {}),
    Package("BLOCKED", "REAL_RESEARCH", << uns >>, {}),
    \* refused by the input verification
    Package("FAILED", "REAL_RESEARCH", << fin >>, {}),
    Package("COMPLETE", "REAL_RESEARCH", << conf >>, {}),
    Package("COMPLETE", "REAL_RESEARCH", << late >>, {}),
    Package("COMPLETE", "REAL_RESEARCH", << fin, stray >>, {}),
    Package("COMPLETE", "REAL_RESEARCH", << fin >>, {8}),
    Package("COMPLETE", "REAL_RESEARCH", << fin >>, {9}),
    Package("COMPLETE", "REAL_RESEARCH", << fin >>, {10}),
    Package("COMPLETE", "REAL_RESEARCH", << fin >>, {11}),
    [Good EXCEPT !.consistent = FALSE], [Good EXCEPT !.intact = FALSE],
    [Good EXCEPT !.listedClaims = {}], [Good EXCEPT !.listedEvidence = {0}],
    [Good EXCEPT !.evidence = {1}, !.listedEvidence = {1}], [Good EXCEPT !.unsupported = {fin}] }

Symmetry == Permutations(Procs)
=============================================================================

---------------------------- MODULE MCResearchRun ----------------------------
(* Small instances of ResearchRun with its audit rows. *)
EXTENDS ResearchLedger, TLC

MCPlan == <<"resolve_security", "get_data_snapshot", "get_financial_metrics",
            "validate_evidence">>

Usable == [resolved |-> TRUE, status |-> "PARTIAL", ownSecurity |-> TRUE, notAfter |-> TRUE]
MCQuestions == {Usable, [Usable EXCEPT !.resolved = FALSE], [Usable EXCEPT !.status = "FAILED"],
                [Usable EXCEPT !.ownSecurity = FALSE], [Usable EXCEPT !.notAfter = FALSE]}

\* Runs meet only in their status and in that rows of an ended one never change, so
\* a new Run after one that ended is explored only where that one verified the
\* identity and retried no call.
SecondRunAfterPlainFirst ==
    (\E p \in Writers : tx[p].id = 0) =>
        \A i \in DOMAIN runs : runs[i].status \in TerminalStatuses =>
            /\ runs[i].budget.total = Cardinality(Tools)
            /\ Evidence("resolve_security", "SECURITY_MASTER_EVIDENCE", "VALID") \in runs[i].evidence

Symmetry == Permutations(Processes)
=============================================================================

------------------------ MODULE AnalyzeImplementsLedger ------------------------
(***************************************************************************)
(* The pipeline of Analyze implements the promise of VerdictLedger.  A     *)
(* verdict is saved when cache.put is applied, and counted when            *)
(* aggregate.update has pushed it to all_analyzed and, if its score is     *)
(* low, to notable.                                                        *)
(***************************************************************************)
EXTENDS Analyze

ledgerOf ==
    [r \in Requests |->
        IF r \notin stored THEN "unsaved"
        ELSE IF analyzed[r] = 1 /\ (work[r].low => r \in notable) THEN "counted"
        ELSE "saved"]

Ledger == INSTANCE VerdictLedger WITH
    ledger <- ledgerOf, key <- content, reply <- answer, source <- served

(* Every behaviour of the pipeline, with all its failures, timeouts and     *)
(* abandoned threads, is one the ledger allows.                             *)
KeepsItsPromise == Ledger!Spec
=============================================================================

------------------------------ MODULE MCAnalyze ------------------------------
(***************************************************************************)
(* Instances of Analyze for TLC.                                           *)
(***************************************************************************)
EXTENDS AnalyzeImplementsLedger, TLC

CONSTANTS r1, r2, s1, a1, a2, c1, c2

(* Every call may be for any of the attachments. *)
OnAnyAttachment == [r \in Requests |-> Attachments]

(* An attachment's URL may serve any of the files: it is re-uploaded, or    *)
(* two attachments hold the same file.                                      *)
AnyBytes == [a \in Attachments |-> Contents]

OneChunk    == [c \in Contents |-> 1]
TextOrScan  == [c \in Contents |-> IF c = c1 THEN 1 ELSE 0]
ShortOrLong == [c \in Contents |-> IF c = c1 THEN 1 ELSE 2]

AllFaults   == FaultKinds
NoCrash     == FaultKinds \ {"crash"}
NoTimeout   == FaultKinds \ {"timeout"}
OnlyTimeout == {"timeout"}
OnlyMongo   == {"mongo"}
OnlyOpenAI  == {"openai"}
NoFaults    == {}

AnyScore  == BOOLEAN
GoodScore == {FALSE}

Symmetry == Permutations(Requests)
=============================================================================

------------------------------ MODULE AuditState ------------------------------
(***************************************************************************)
(* The rolling audit state of one tenant (ai_audit_state) and the two      *)
(* parties that share it: aggregate.update, called at the end of every     *)
(* authoritative analysis, and POST /v1/audit/summary, which reads the     *)
(* state, asks the LLM for a narrative and marks the state clean.          *)
(***************************************************************************)
EXTENDS Integers, Sequences, SequencesExt

CONSTANTS
    Updates,            \* calls of aggregate.update
    Audits,             \* calls of /audit/summary
    Verdicts,           \* the verdicts an update may carry
    NotableThreshold,   \* _NOTABLE_THRESHOLD
    NotableCap,         \* _NOTABLE_CAP
    SampleCap,          \* AUDIT_SAMPLE_CAP, 0 for the whole corpus
    FallbackCap,        \* AUDIT_FALLBACK_CAP
    ApiKey,             \* whether OPENAI_API_KEY is set
    Histories,          \* verdicts a tenant may have from before all_analyzed was kept
    Faults              \* the failures the environment may inject

Statuses   == {"Compliant", "Under Review", "Non-Compliant"}
Categories == {"coop", "bcp", "compliance", "response"}
Verdict    == [score : 0..100, status : Statuses, category : Categories]

ASSUME AuditConstants ==
    /\ Verdicts \subseteq Verdict
    /\ NotableThreshold \in 0..100
    /\ NotableCap \in Nat \ {0}
    /\ SampleCap \in Nat
    /\ FallbackCap \in Nat
    /\ ApiKey \in BOOLEAN
    /\ Histories \subseteq Seq(Verdict)
    /\ Faults \subseteq {"mongo", "openai"}

VARIABLES
    legacy,     \* the verdicts counted before all_analyzed was kept
    doc,        \* the tenant's ai_audit_state document
    upc,        \* where each update is
    verdict,    \* the verdict it carries
    apc,        \* where each audit is
    state,      \* the state it read
    sample,     \* the documents it gave the LLM
    reply       \* its response, which the caller is told once it is done

vars == <<legacy, doc, upc, verdict, apc, state, sample, reply>>

-----------------------------------------------------------------------------
Fields == {"inSync", "reviewing", "deviation"}

FieldOf(status) == CASE status = "Compliant"     -> "inSync"
                     [] status = "Under Review"  -> "reviewing"
                     [] status = "Non-Compliant" -> "deviation"

(* _zero_state: also what a tenant without a document reads as.             *)
ZeroState == [counts |-> [c \in Categories |-> 0],
              integrity |-> [f \in Fields |-> 0],
              scoreSum |-> 0, scoreCount |-> 0,
              analyzed |-> <<>>, notable |-> <<>>, dirty |-> FALSE]

(* One $inc/$set/$push of update().                                         *)
Pushed(d, v) == [d EXCEPT !.counts[v.category] = @ + 1,
                          !.integrity[FieldOf(v.status)] = @ + 1,
                          !.scoreSum = @ + v.score,
                          !.scoreCount = @ + 1,
                          !.analyzed = Append(@, v),
                          !.dirty = TRUE]

Upto(n, s) == SubSeq(s, 1, IF n < Len(s) THEN n ELSE Len(s))

(* Python's sorted() by score is stable: the next verdict comes after the   *)
(* last that scores no more.  On a sorted list, $push with $sort is one     *)
(* step of it.                                                              *)
ByScore(s, v) == LET atMost == {i \in DOMAIN s : s[i].score <= v.score}
                 IN InsertAt(s, Max(atMost \cup {0}) + 1, v)

Worst(s) == FoldLeft(ByScore, <<>>, s)

(* Python's round() of the quotient: half to even.                          *)
Round(a, b) == LET q == a \div b
                   twice == 2 * (a % b)
               IN IF twice < b \/ (twice = b /\ q % 2 = 0) THEN q ELSE q + 1

(* Mutant of Average: the sum itself.                                       *)
UndividedSum(sum, count) == IF count = 0 THEN 0 ELSE sum

Average(sum, count) == IF count = 0 THEN 0 ELSE Round(sum, count)

Plans(counts) == counts["coop"] + counts["bcp"] + counts["compliance"]

DerivePosture(counts, integrity, avg) ==
    LET analyzed == integrity["inSync"] + integrity["reviewing"] + integrity["deviation"]
    IN IF \/ Plans(counts) = 0
          \/ integrity["deviation"] > 0 \/ avg < 55 \/ analyzed = 0 THEN "At Risk"
       ELSE IF integrity["reviewing"] > 0 \/ avg < 75 THEN "Steady"
       ELSE "Resilient"

Posture(d) == DerivePosture(d.counts, d.integrity, Average(d.scoreSum, d.scoreCount))

-----------------------------------------------------------------------------
(* The second write of update(): $push with $sort and $slice.               *)

(* Mutant: the list is cut before it is sorted.                             *)
CutThenSort(d, v) == [d EXCEPT !.notable = Worst(Upto(NotableCap, Append(@, v)))]

Listed(d, v) == [d EXCEPT !.notable = Upto(NotableCap, ByScore(@, v))]

Low(v) == v.score < NotableThreshold

(* The document an earlier release left: counted, and listed if low.        *)
Inherited(s) ==
    LET count(d, v) == Pushed(d, v)
        list(d, v)  == IF Low(v) THEN Listed(d, v) ELSE d
        before(d, v) == [list(count(d, v), v) EXCEPT !.analyzed = <<>>]
    IN FoldLeft(before, ZeroState, s)

NoReply == [kind |-> "none", average |-> 0, posture |-> "At Risk",
            narrative |-> FALSE, degraded |-> FALSE]

Init ==
    /\ legacy \in Histories
    /\ doc = Inherited(legacy)
    /\ upc = [u \in Updates |-> "idle"]
    /\ verdict \in [Updates -> Verdicts]
    /\ apc = [a \in Audits |-> "idle"]
    /\ state = [a \in Audits |-> ZeroState]
    /\ sample = [a \in Audits |-> <<>>]
    /\ reply = [a \in Audits |-> NoReply]

Fails(kind) == kind \in Faults

(* aggregate.update: two writes to the document.  One that raises may or    *)
(* may not have been applied.                                               *)
Push(u) ==
    /\ upc[u] = "idle"
    /\ \/ /\ doc' = Pushed(doc, verdict[u])
          /\ upc' = [upc EXCEPT ![u] = IF Low(verdict[u]) THEN "notable" ELSE "done"]
       \/ /\ Fails("mongo")
          /\ doc' \in {doc, Pushed(doc, verdict[u])}
          /\ upc' = [upc EXCEPT ![u] = "failed"]
    /\ UNCHANGED <<legacy, verdict, apc, state, sample, reply>>

PushNotable(u) ==
    /\ upc[u] = "notable"
    /\ \/ /\ doc' = Listed(doc, verdict[u])
          /\ upc' = [upc EXCEPT ![u] = "done"]
       \/ /\ Fails("mongo")
          /\ doc' \in {doc, Listed(doc, verdict[u])}
          /\ upc' = [upc EXCEPT ![u] = "failed"]
    /\ UNCHANGED <<legacy, verdict, apc, state, sample, reply>>

-----------------------------------------------------------------------------
(* POST /audit/summary.                                                     *)

Goto(a, label) == apc' = [apc EXCEPT ![a] = label]

(* The catch-all: the figures of the response are the caller's own.         *)
FallBackToPayload(a) ==
    /\ Goto(a, "done")
    /\ reply' = [reply EXCEPT ![a] =
                    [NoReply EXCEPT !.kind = "payload", !.degraded = TRUE]]

(* A call without a tenant context reads the empty state.                   *)
Read(a) ==
    /\ apc[a] = "idle"
    /\ \/ /\ state' = [state EXCEPT ![a] = doc]
          /\ Goto(a, "build")
          /\ UNCHANGED reply
       \/ /\ Goto(a, "tenantless")
          /\ UNCHANGED <<state, reply>>
       \/ /\ Fails("mongo")
          /\ FallBackToPayload(a)
          /\ UNCHANGED state
    /\ UNCHANGED <<legacy, doc, upc, verdict, sample>>

(* all_analyzed, or notable for a tenant that has no all_analyzed yet.      *)
Source(a) == Worst(IF state[a].analyzed # <<>> THEN state[a].analyzed
                                               ELSE state[a].notable)

(* build(): the narrative is the LLM's, or a fixed text without a key,      *)
(* without plans or when the call failed.  Mutant: the figures are read     *)
(* anew.                                                                    *)
BuiltAfresh(a, ok) == [NoReply EXCEPT !.kind = "audit",
                                      !.average = Average(doc.scoreSum, doc.scoreCount),
                                      !.posture = Posture(doc),
                                      !.narrative = ok]

Built(a, ok) == [NoReply EXCEPT
                    !.kind = "audit",
                    !.average = Average(state[a].scoreSum, state[a].scoreCount),
                    !.posture = Posture(state[a]),
                    !.narrative = ok]

Outcomes(a) == IF ~ApiKey \/ Plans(state[a].counts) = 0 THEN {FALSE}
               ELSE {TRUE} \cup (IF Fails("openai") THEN {FALSE} ELSE {})

(* Mutant of TooLarge: a corpus of exactly the cap is retried.              *)
TooLargeAtCap(s) == SampleCap = 0 /\ ApiKey /\ Len(s) >= FallbackCap

TooLarge(s) == SampleCap = 0 /\ ApiKey /\ Len(s) > FallbackCap

Build(a) ==
    /\ apc[a] \in {"build", "tenantless"}
    /\ LET first == IF SampleCap = 0 THEN Source(a) ELSE Upto(SampleCap, Source(a))
       IN \E ok \in Outcomes(a) :
            /\ sample' = [sample EXCEPT ![a] = first]
            /\ reply' = [reply EXCEPT ![a] = Built(a, ok)]
            /\ Goto(a, IF ~ok /\ TooLarge(first) THEN "rebuild"
                       ELSE IF apc[a] = "build" THEN "clean" ELSE "done")
    /\ UNCHANGED <<legacy, doc, upc, verdict, state>>

(* The retry with the worst few; only a call with a tenant gets here, since *)
(* the empty state has no sample to cut.                                    *)
Rebuild(a) ==
    /\ apc[a] = "rebuild"
    /\ sample' = [sample EXCEPT ![a] = Upto(FallbackCap, Source(a))]
    /\ \E ok \in Outcomes(a) :
         reply' = [reply EXCEPT ![a] = [Built(a, ok) EXCEPT !.degraded = TRUE]]
    /\ Goto(a, "clean")
    /\ UNCHANGED <<legacy, doc, upc, verdict, state>>

(* mark_clean, the last step before the response.                           *)
Clean(a) ==
    /\ apc[a] = "clean"
    /\ LET cleaned == [doc EXCEPT !.dirty = FALSE]
       IN \/ /\ doc' = cleaned
             /\ Goto(a, "done")
             /\ UNCHANGED reply
          \/ /\ Fails("mongo")
             /\ doc' \in {doc, cleaned}
             /\ FallBackToPayload(a)
    /\ UNCHANGED <<legacy, upc, verdict, state, sample>>

Next ==
    \/ \E u \in Updates : Push(u) \/ PushNotable(u)
    \/ \E a \in Audits : Read(a) \/ Build(a) \/ Rebuild(a) \/ Clean(a)

Spec == Init /\ [][Next]_vars

-----------------------------------------------------------------------------
(* Properties.                                                              *)

Document == [counts : [Categories -> Nat], integrity : [Fields -> Nat],
             scoreSum : Nat, scoreCount : Nat,
             analyzed : Seq(Verdict), notable : Seq(Verdict), dirty : BOOLEAN]

Reply == [kind : {"none", "audit", "payload"}, average : 0..100,
          posture : {"At Risk", "Steady", "Resilient"},
          narrative : BOOLEAN, degraded : BOOLEAN]

(* The document, the updates and the audits hold values of their types; in  *)
(* particular the average is a score again, and no notable list is longer   *)
(* than its cap.                                                            *)
TypeOK ==
    /\ legacy \in Histories
    /\ doc \in Document
    /\ \A d \in {doc} \cup {state[a] : a \in Audits} : Len(d.notable) <= NotableCap
    /\ upc \in [Updates -> {"idle", "notable", "done", "failed"}]
    /\ verdict \in [Updates -> Verdicts]
    /\ apc \in [Audits -> {"idle", "tenantless", "build", "rebuild", "clean", "done"}]
    /\ state \in [Audits -> Document]
    /\ sample \in [Audits -> Seq(Verdict)]
    /\ reply \in [Audits -> Reply]

Scores(s) == [i \in DOMAIN s |-> s[i].score]

(* The verdicts the document has counted, oldest first.                     *)
Counted(d) == legacy \o d.analyzed

(* The low ones of a list of verdicts, worst first.                         *)
WorstLow(s) ==
    LET list(low, v) == IF Low(v) THEN ByScore(low, v) ELSE low
    IN FoldLeft(list, <<>>, s)

(* However the two writes of concurrent updates interleave, once the        *)
(* updates are through the capped notable list holds the worst of all the   *)
(* low verdicts, in order: capping at each push loses nothing.              *)
NotableIsWorst ==
    (\A u \in Updates : upc[u] \in {"idle", "done"}) =>
        Scores(doc.notable) = Scores(Upto(NotableCap, WorstLow(Counted(doc))))

(* The posture of a list of documents, as PROJECT_CONTEXT defines it: the   *)
(* reference for the one derived from the rolling counters.                 *)
PostureOf(s, average) ==
    LET verdicts == ToSet(s)
    IN IF \/ \A v \in verdicts : v.category = "response"
          \/ \E v \in verdicts : v.status = "Non-Compliant"
          \/ average < 55 THEN "At Risk"
       ELSE IF (\E v \in verdicts : v.status = "Under Review") \/ average < 75 THEN "Steady"
       ELSE "Resilient"

ScoreTotal(s) == LET add(sum, v) == sum + v.score IN FoldLeft(add, 0, s)

(* m is the integer nearest to a / b, the even one of two as near.          *)
Nearest(m, a, b) == /\ 2 * (m * b - a) \in -b..b
                    /\ 2 * (m * b - a) \in {b, -b} => m % 2 = 0

Tells(a, s, source) ==
    /\ IF s = <<>> THEN reply[a].average = 0
       ELSE Nearest(reply[a].average, ScoreTotal(s), Len(s))
    /\ reply[a].posture = PostureOf(s, reply[a].average)
    /\ sample[a] = Upto(Len(sample[a]), Worst(source))

(* An audit tells of one moment: its average, its posture and its sample    *)
(* all follow from one set of documents the tenant had, none (for a call    *)
(* without a tenant) or all those up to some update, while updates go on    *)
(* during the LLM call.                                                     *)
AuditTellsOneMoment ==
    \A a \in Audits : apc[a] = "done" /\ reply[a].kind = "audit" =>
        \/ Tells(a, <<>>, <<>>)
        \/ Tells(a, legacy, state[a].notable)
        \/ \E n \in 1..Len(doc.analyzed) :
              Tells(a, legacy \o SubSeq(doc.analyzed, 1, n), SubSeq(doc.analyzed, 1, n))

(* "degraded" tells a caller who asked for the whole corpus that the        *)
(* narrative was not written from it: set, the sample is the cap's number   *)
(* of documents, fewer than the state counts; not set, the sample has every *)
(* document the state counts, and either the narrative is the LLM's or no   *)
(* smaller corpus would have helped: there is no key, or the corpus is      *)
(* within the cap.  Tenants from before all_analyzed are left out: the code *)
(* audits them from the notable list or from the new documents alone, and   *)
(* does not call that degraded.                                             *)
DegradedMeansReduced ==
    \A a \in Audits :
        /\ apc[a] = "done" /\ reply[a].kind = "audit"
        /\ SampleCap = 0 /\ legacy = <<>>
        => IF reply[a].degraded
           THEN Len(sample[a]) = FallbackCap /\ FallbackCap < state[a].scoreCount
           ELSE /\ Len(sample[a]) = state[a].scoreCount
                /\ reply[a].narrative \/ ~ApiKey \/ Len(sample[a]) <= FallbackCap

(* The document is clean only if an audit has told of all it holds, or it   *)
(* holds nothing.                                                           *)
DirtyUntilAudited ==
    ~doc.dirty =>
        \/ Counted(doc) = <<>>
        \/ \E a \in Audits : apc[a] # "idle" /\ state[a].analyzed = doc.analyzed
=============================================================================

--------------------------- MODULE DocumentProofs ---------------------------
(***************************************************************************)
(* What holds of a call of /analyze for every file, every setting, every   *)
(* value of the signals and every failure.                                 *)
(***************************************************************************)
EXTENDS Document, ScoringProofs, RecursionProofs, TLAPS

-----------------------------------------------------------------------------
(* The call log.                                                            *)

(* The row of a call is counted when it ends; an answered call has none in  *)
(* flight unless the timer cut it.                                          *)
LogInv ==
    /\ calls \in Nat /\ rows \in Nat /\ unlogged \in Nat
    /\ pc = "done" <=> answer # "none"
    /\ EveryCallLogged

LEMMA LogInit == Init => LogInv
  BY DEF Init, LogInv, EveryCallLogged, OpenAICalls

LEMMA LogWrites ==
  ASSUME rows \in Nat, unlogged \in Nat, Log
  PROVE  /\ rows' \in Nat /\ unlogged' \in Nat
         /\ rows' + unlogged' = rows + unlogged + 1
  BY DEF Log

(* A step that ends no call keeps the count; Begin opens at most one.       *)
LEMMA QuietStep ==
  ASSUME LogInv, NEW p, Begin(p), pc \notin OpenAICalls, pc # "done",
         UNCHANGED <<rows, unlogged>>,
         \/ p = "done" /\ answer' \in {"502", "degraded", "full", "fallback"}
         \/ p # "done" /\ UNCHANGED answer
  PROVE  LogInv'
  BY DEF LogInv, EveryCallLogged, Begin, OpenAICalls

(* A step that ends a call logs it.                                         *)
LEMMA EndingStep ==
  ASSUME LogInv, NEW p, Begin(p), pc \in OpenAICalls, Log,
         \/ p = "done" /\ answer' \in {"502", "degraded", "full", "fallback"}
         \/ p # "done" /\ UNCHANGED answer
  PROVE  LogInv'
<1>1. pc # "done"  BY DEF OpenAICalls
<1>2. /\ rows' \in Nat /\ unlogged' \in Nat
      /\ rows' + unlogged' = rows + unlogged + 1
  BY LogWrites DEF LogInv
<1>3. calls = rows + unlogged + 1  BY DEF LogInv, EveryCallLogged
<1>4. pc' = p /\ calls' = IF p \in OpenAICalls THEN calls + 1 ELSE calls  BY DEF Begin
<1>5. calls \in Nat  BY DEF LogInv
<1>6. p \notin OpenAICalls \/ p # "done"  BY DEF OpenAICalls
<1>7. answer = "none"  BY <1>1 DEF LogInv
<1>8. EveryCallLogged'
  <2>1. CASE p \in OpenAICalls
    BY <2>1, <1>2, <1>3, <1>4, <1>5, <1>6, <1>7 DEF EveryCallLogged
  <2>2. CASE p \notin OpenAICalls
    BY <2>2, <1>2, <1>3, <1>4, <1>5, <1>7 DEF EveryCallLogged
  <2> QED  BY <2>1, <2>2
<1> QED  BY <1>2, <1>4, <1>5, <1>7, <1>8 DEF LogInv

(* What the summariser may begin with.                                      *)
LEMMA SummariseBegins ==
  ASSUME Summarise
  PROVE  \E p : /\ Begin(p)
                /\ \/ p = "done" /\ answer' \in {"degraded", "full"}
                   \/ p # "done" /\ UNCHANGED answer
<1> DEFINE Q(p) == /\ Begin(p)
                   /\ \/ p = "done" /\ answer' \in {"degraded", "full"}
                      \/ p # "done" /\ UNCHANGED answer
<1>1. Q("done") \/ Q("single") \/ Q("map")  BY DEF Summarise, Finish, Reply, reply
<1> QED  BY <1>1

LEMMA AfterBatchBegins ==
  ASSUME NEW kept, AfterBatch(kept)
  PROVE  \E p : /\ Begin(p)
                /\ \/ p = "done" /\ answer' \in {"degraded", "full"}
                   \/ p # "done" /\ UNCHANGED answer
<1> DEFINE Q(p) == /\ Begin(p)
                   /\ \/ p = "done" /\ answer' \in {"degraded", "full"}
                      \/ p # "done" /\ UNCHANGED answer
<1>1. Q("done") \/ Q("map") \/ Q("reduce")  BY DEF AfterBatch, Finish, Reply, reply
<1> QED  BY <1>1

LEMMA LogStep == LogInv /\ [Next]_vars => LogInv'
<1> SUFFICES ASSUME LogInv, [Next]_vars PROVE LogInv'
  OBVIOUS
<1>1. CASE Connect
  <2>1. CASE Begin("body") /\ UNCHANGED answer
    BY <1>1, <2>1, QuietStep DEF Connect, OpenAICalls
  <2>2. CASE Reply("502")
    BY <1>1, <2>2, QuietStep DEF Connect, OpenAICalls, Reply
  <2> QED  BY <1>1, <2>1, <2>2 DEF Connect
<1>2. CASE Receive
  <2>1. pc = "body" /\ UNCHANGED <<rows, unlogged>>  BY <1>2 DEF Receive
  <2>2. CASE Reply("502")
    BY <2>1, <2>2, QuietStep DEF OpenAICalls, Reply
  <2>3. CASE Begin("body") /\ UNCHANGED answer
    BY <2>1, <2>3, QuietStep DEF OpenAICalls
  <2>4. CASE Begin("extract") /\ UNCHANGED answer
    BY <2>1, <2>4, QuietStep DEF OpenAICalls
  <2> QED  BY <1>2, <2>2, <2>3, <2>4 DEF Receive
<1>3. CASE ExtractAndChunk
  <2>1. pc = "extract" /\ UNCHANGED <<rows, unlogged>>  BY <1>3 DEF ExtractAndChunk
  <2>2. CASE UNCHANGED answer
    <3>1. PICK p \in {"embed", "query"} : Begin(p)
      BY <1>3, <2>2 DEF ExtractAndChunk, Reply, LogInv, Pipeline, OpenAICalls
    <3> QED  BY <2>1, <2>2, <3>1, QuietStep DEF OpenAICalls
  <2>3. CASE Reply("fallback")
    BY <2>1, <2>3, QuietStep DEF OpenAICalls, Reply
  <2> QED  BY <1>3, <2>2, <2>3 DEF ExtractAndChunk
<1>4. CASE Retry
  BY <1>4 DEF Retry, LogInv, EveryCallLogged, reply, OpenAICalls
<1>5. CASE Embed
  <2>1. PICK ok \in BOOLEAN, p \in {"upsert", "query"} : Ended("embed", ok) /\ Begin(p)
    BY <1>5 DEF Embed
  <2> QED  BY <1>5, <2>1, EndingStep DEF Embed, Ended, OpenAICalls, reply
<1>6. CASE Upsert
  BY <1>6, QuietStep, Zenon DEF Upsert, OpenAICalls, reply
<1>7. CASE EmbedQuery
  <2>1. PICK ok \in BOOLEAN, p \in {"read", "score"} : Ended("query", ok) /\ Begin(p)
    BY <1>7 DEF EmbedQuery
  <2> QED  BY <1>7, <2>1, EndingStep DEF EmbedQuery, Ended, OpenAICalls, reply
<1>8. CASE ReadChunks
  <2>1. PICK p \in {"siblings", "score"} : Begin(p)  BY <1>8 DEF ReadChunks
  <2> QED  BY <1>8, <2>1, QuietStep DEF ReadChunks, OpenAICalls, reply
<1>9. CASE FindSiblings
  BY <1>9, QuietStep DEF FindSiblings, OpenAICalls, reply
<1>10. CASE Score
  <2>1. pc = "score" /\ UNCHANGED <<rows, unlogged>>  BY <1>10 DEF Score
  <2>2. CASE Begin("judge") /\ UNCHANGED answer
    BY <2>1, <2>2, QuietStep DEF OpenAICalls
  <2>3. CASE Summarise
    BY <2>1, <2>3, SummariseBegins, QuietStep DEF OpenAICalls
  <2> QED  BY <1>10, <2>2, <2>3 DEF Score, reply
<1>11. CASE Judge
  <2>1. pc = "judge" /\ Log /\ Summarise  BY <1>11 DEF Judge, Ended
  <2> QED  BY <2>1, SummariseBegins, EndingStep DEF OpenAICalls
<1>12. CASE SummariseWhole
  <2>1. pc \in OpenAICalls /\ Log  BY <1>12 DEF SummariseWhole, Ended, OpenAICalls
  <2>2. Begin("done") /\ answer' \in {"degraded", "full"}
    BY <1>12 DEF SummariseWhole, Finish, Reply
  <2> QED  BY <2>1, <2>2, EndingStep
<1>13. CASE SummariseBatch
  <2>1. pc \in OpenAICalls /\ Log  BY <1>13 DEF SummariseBatch, Ended, OpenAICalls
  <2>2. CASE \E kept \in BOOLEAN : AfterBatch(kept)  BY <2>1, <2>2, AfterBatchBegins, EndingStep
  <2>3. CASE Reply("fallback")  BY <2>1, <2>3, EndingStep DEF Reply
  <2> QED  BY <1>13, <2>2, <2>3 DEF SummariseBatch
<1>14. CASE Timeout
  BY <1>14 DEF Timeout, LogInv, EveryCallLogged, metering, OpenAICalls, Pipeline
<1>15. CASE UNCHANGED vars
  BY <1>15 DEF vars, LogInv, EveryCallLogged, metering, reply
<1> QED
  BY <1>1, <1>2, <1>3, <1>4, <1>5, <1>6, <1>7, <1>8, <1>9, <1>10, <1>11, <1>12,
     <1>13, <1>14, <1>15 DEF Next, Work

(* The call log misses no OpenAI call of a request but those MongoDB        *)
(* refused and the one in flight when the timer fires.                      *)
THEOREM LogTheorem == Spec => []EveryCallLogged
<1>1. LogInv => EveryCallLogged  BY DEF LogInv
<1> QED  BY LogInit, LogStep, <1>1, PTL DEF Spec

-----------------------------------------------------------------------------
(* The score.                                                               *)

Supplied == [vectors : BOOLEAN, stored : BOOLEAN, query : BOOLEAN,
             chunks : SUBSET Int, nearest : SUBSET Int]

(* What the signals are computed from has its type.                         *)
InputInv ==
    /\ file \in Files /\ cfg \in Configs
    /\ truth \in [content : Cosines, name : NameCosines, siblings : Siblings]
    /\ text.quality \in {NoExtraction, Extract(file.data)}
    /\ got \in Supplied

LEMMA InputInit == Init => InputInv
<1> SUFFICES ASSUME Init PROVE InputInv
  OBVIOUS
<1>1. text.quality = NoExtraction  BY DEF Init, NoText
<1>2. got \in Supplied  BY DEF Init, Supplied
<1> QED  BY <1>1, <1>2 DEF Init, InputInv

LEMMA ChunksAreInts == AllChunks \subseteq Int
  BY DEF AllChunks

LEMMA InputStep == InputInv /\ [Next]_vars => InputInv'
<1> SUFFICES ASSUME InputInv, [Next]_vars PROVE InputInv'
  OBVIOUS
<1>1. UNCHANGED input
  BY Zenon DEF Next, Work, vars, Connect, Receive, ExtractAndChunk, Retry, Embed, Upsert,
         EmbedQuery, ReadChunks, FindSiblings, Score, Judge, SummariseWhole,
         SummariseBatch, Timeout
<1>2. text'.quality \in {NoExtraction, Extract(file.data)}
  <2>1. CASE ExtractAndChunk
    <3>1. text' = text \/ text'.quality = Extract(file.data)  BY <2>1 DEF ExtractAndChunk
    <3> QED  BY <3>1 DEF InputInv
  <2>2. CASE UNCHANGED text  BY <2>2 DEF InputInv
  <2> QED
    BY <2>1, <2>2, Zenon
       DEF Next, Work, vars, Connect, Receive, Retry, Embed, Upsert, EmbedQuery,
           ReadChunks, FindSiblings, Score, Judge, SummariseWhole, SummariseBatch, Timeout
<1>3. got' \in Supplied
  <2>0. got \in Supplied  BY DEF InputInv
  <2>1. CASE Embed  BY <2>0, <2>1 DEF Embed, Supplied
  <2>2. CASE Upsert  BY <2>0, <2>2, ChunksAreInts, Zenon DEF Upsert, Supplied
  <2>3. CASE EmbedQuery  BY <2>0, <2>3 DEF EmbedQuery, Supplied
  <2>4. CASE ReadChunks  BY <2>0, <2>4 DEF ReadChunks, Supplied
  <2>5. CASE FindSiblings
    <3>1. truth.siblings \subseteq Int  BY DocumentAssumption DEF InputInv
    <3>2. {Distance(d) : d \in truth.siblings} \subseteq Int
      BY <3>1 DEF Distance, Unit
    <3> QED  BY <2>0, <2>5, <3>2 DEF FindSiblings, Supplied
  <2>6. CASE UNCHANGED got  BY <2>0, <2>6
  <2> QED
    BY <2>1, <2>2, <2>3, <2>4, <2>5, <2>6
       DEF Next, Work, vars, Connect, Receive, ExtractAndChunk, Retry, Score, Judge,
           SummariseWhole, SummariseBatch, Timeout
<1> QED  BY <1>1, <1>2, <1>3 DEF InputInv, input

LEMMA CharsTyped ==
  ASSUME InputInv
  PROVE  text.quality.chars \in Nat
<1>1. NoExtraction.chars = 0  BY DEF NoExtraction, Extraction
<1>2. Extract(file.data).chars \in Nat  BY DocumentAssumption DEF InputInv
<1> QED  BY <1>1, <1>2 DEF InputInv

(* What the score is computed from.                                         *)
LEMMA SignalsTyped ==
  ASSUME InputInv, NEW content \in ContentCosines, NEW quality \in Qualities(text.quality)
  PROVE  /\ Signals(content, quality) \in SignalRange
         /\ ~(Centroid /\ got.query) => Signals(content, quality).content = 0
<1>1. content \in Int /\ truth.name \in Int
  BY DocumentAssumption DEF ContentCosines, InputInv
<1>2. quality \in 0..Unit  BY CharsTyped, QualityRange
<1>3. Duplication(got.nearest) \in 0..Unit
  <2>1. got.nearest \in SUBSET Int  BY DEF InputInv, Supplied
  <2> QED  BY <2>1, DuplicationRange
<1>4. /\ Alignment(Centroid /\ got.query, content) \in 0..Unit
      /\ Alignment(got.query, truth.name) \in 0..Unit
  <2>1. (Centroid /\ got.query) \in BOOLEAN /\ got.query \in BOOLEAN
    BY DEF InputInv, Supplied
  <2> QED  BY <2>1, <1>1, AlignmentRange
<1>5. Signals(content, quality) \in SignalRange
  BY <1>2, <1>3, <1>4 DEF Signals, SignalRange
<1>6. ~(Centroid /\ got.query) => Signals(content, quality).content = 0
  BY DEF Signals, Alignment
<1> QED  BY <1>5, <1>6

(* Every outcome is a verdict; without a centroid or a plan vector it is    *)
(* one of a document that lost its content signal.                          *)
LEMMA OutcomesTyped ==
  ASSUME InputInv, NEW r \in Outcomes
  PROVE  /\ r \in Results
         /\ r.status \in Statuses /\ r.score \in 0..100
         /\ ~(Centroid /\ got.query) /\ cfg.inSync > 50 /\ cfg.judgeLow > 50
              => r.status # "Compliant" /\ r.judge = FALSE
<1>1. PICK content \in ContentCosines, quality \in Qualities(text.quality) :
          r \in Compute(Signals(content, quality), text.quality, cfg)
  BY DEF Outcomes
<1>2. /\ Signals(content, quality) \in SignalRange
      /\ ~(Centroid /\ got.query) => Signals(content, quality).content = 0
  BY <1>1, SignalsTyped
<1>3. Bands(cfg)  BY DocumentAssumption DEF InputInv, Bands
<1>4. r \in Results  BY <1>1, <1>2, <1>3, ComputeTheorem
<1>5. r.status \in Statuses /\ r.score \in 0..100
  BY <1>4 DEF Results
<1> QED  BY <1>1, <1>2, <1>3, <1>4, <1>5, ComputeTheorem

VerdictInv ==
    /\ computed.status \in Statuses /\ computed.score \in 0..100
    /\ judge = "none" \/ pc \in {"single", "map", "reduce", "done"}
    /\ pc = "done" <=> answer # "none"
    /\ FailedJudgeChangesNothing
    /\ OutageNeverCompliant

LEMMA VerdictInit == Init => VerdictInv
<1> SUFFICES ASSUME Init PROVE VerdictInv
  OBVIOUS
<1>1. computed.status \in Statuses /\ computed.score \in 0..100
  <2>1. computed = [status |-> "Under Review", score |-> 0, judge |-> FALSE]
    BY Zenon DEF Init, NoResult
  <2>2. computed.status = "Under Review" /\ computed.score = 0  BY <2>1, Zenon
  <2>3. 0 \in 0..100  OBVIOUS
  <2> QED  BY <2>2, <2>3, Zenon DEF Statuses
<1>2. pc = "fetch" /\ judge = "none" /\ answer = "none"  BY DEF Init
<1>3. FailedJudgeChangesNothing  BY <1>2 DEF FailedJudgeChangesNothing
<1>4. OutageNeverCompliant  BY <1>2 DEF OutageNeverCompliant
<1> QED  BY <1>1, <1>2, <1>3, <1>4 DEF VerdictInv

(* Where the summariser begins, and with what answer it may end.            *)
LEMMA SummariseGoes ==
  ASSUME Summarise
  PROVE  \/ pc' \in {"single", "map"} /\ UNCHANGED answer
         \/ pc' = "done" /\ answer' \in {"degraded", "full"}
  BY DEF Summarise, Finish, Reply, Begin, reply

LEMMA BatchGoes ==
  ASSUME NEW kept, AfterBatch(kept)
  PROVE  \/ pc' \in {"map", "reduce"} /\ UNCHANGED answer
         \/ pc' = "done" /\ answer' \in {"degraded", "full"}
  BY DEF AfterBatch, Finish, Reply, Begin, reply

(* The steps before the score leave no verdict and no full answer.          *)
LEMMA EarlyStep ==
  ASSUME VerdictInv, UNCHANGED scoring,
         pc \in {"fetch", "body", "extract", "embed", "upsert", "query", "read", "siblings"},
         \/ /\ pc' \in {"body", "extract", "embed", "upsert", "query", "read", "siblings", "score"}
            /\ UNCHANGED answer
         \/ pc' = "done" /\ answer' \in {"502", "fallback"}
  PROVE  VerdictInv'
  BY DEF VerdictInv, scoring, FailedJudgeChangesNothing, OutageNeverCompliant

LEMMA LateStep ==
  ASSUME VerdictInv, UNCHANGED <<scoring, got, cfg>>,
         pc \in {"single", "map", "reduce"},
         \/ pc' \in {"map", "reduce"} /\ UNCHANGED answer
         \/ pc' = "done" /\ answer' \in {"degraded", "full", "fallback"}
  PROVE  VerdictInv'
  BY DEF VerdictInv, scoring, FailedJudgeChangesNothing, OutageNeverCompliant, Centroid

LEMMA VerdictStep == InputInv /\ VerdictInv /\ [Next]_vars => VerdictInv'
<1> SUFFICES ASSUME InputInv, VerdictInv, [Next]_vars PROVE VerdictInv'
  OBVIOUS
<1>1. CASE Connect  BY <1>1, EarlyStep DEF Connect, Begin, Reply
<1>2. CASE Receive  BY <1>2, EarlyStep DEF Receive, Begin, Reply
<1>3. CASE ExtractAndChunk  BY <1>3, EarlyStep DEF ExtractAndChunk, Begin, Reply
<1>4. CASE Retry
  BY <1>4 DEF Retry, VerdictInv, scoring, reply, input, FailedJudgeChangesNothing,
              OutageNeverCompliant, Centroid
<1>5. CASE Embed  BY <1>5, EarlyStep DEF Embed, Ended, Begin, reply
<1>6. CASE Upsert  BY <1>6, EarlyStep, Zenon DEF Upsert, Begin, reply
<1>7. CASE EmbedQuery  BY <1>7, EarlyStep DEF EmbedQuery, Ended, Begin, reply
<1>8. CASE ReadChunks  BY <1>8, EarlyStep DEF ReadChunks, Begin, reply
<1>9. CASE FindSiblings  BY <1>9, EarlyStep DEF FindSiblings, Begin, reply
<1>10. CASE Score
  <2>1. /\ pc = "score" /\ judge = "none" /\ answer = "none"
        /\ UNCHANGED <<judge, got, cfg>>
    BY <1>10 DEF Score, VerdictInv, input
  <2>2. PICK r \in Outcomes :
          /\ computed' = r
          /\ verdict' = [status |-> r.status, score |-> r.score]
          /\ IF r.judge /\ cfg.key
             THEN Begin("judge") /\ UNCHANGED <<writing, reply>>
             ELSE Summarise
    BY <1>10 DEF Score
  <2>3. /\ r.status \in Statuses /\ r.score \in 0..100
        /\ ~(Centroid /\ got.query) /\ cfg.inSync > 50 /\ cfg.judgeLow > 50
             => r.status # "Compliant" /\ r.judge = FALSE
    BY OutcomesTyped
  <2>4. CASE r.judge /\ cfg.key
    BY <2>1, <2>2, <2>3, <2>4
       DEF VerdictInv, Begin, reply, FailedJudgeChangesNothing, OutageNeverCompliant, Centroid
  <2>5. CASE ~(r.judge /\ cfg.key)
    <3>1. Summarise  BY <2>2, <2>5
    <3> QED
      BY <2>1, <2>2, <2>3, <3>1, SummariseGoes
         DEF VerdictInv, FailedJudgeChangesNothing, OutageNeverCompliant, Centroid
  <2> QED  BY <2>4, <2>5
<1>11. CASE Judge
  <2>1. /\ pc = "judge" /\ answer = "none" /\ UNCHANGED <<computed, got, cfg>>
        /\ Summarise
    BY <1>11 DEF Judge, Ended, VerdictInv, input
  <2>2. PICK ok \in BOOLEAN, r \in JudgeReplies :
          /\ judge' = IF ok THEN "replied" ELSE "failed"
          /\ verdict' =
               [status |-> NormalizeStatus(IF ok THEN r.words ELSE WordsOf(computed.status)),
                score  |-> JudgedScore(computed.score, IF ok THEN r.score ELSE {computed.score})]
    BY <1>11 DEF Judge
  <2>3. FailedJudgeChangesNothing'
    <3>1. CASE ok  BY <3>1, <2>2 DEF FailedJudgeChangesNothing
    <3>2. CASE ~ok
      <4>1. /\ NormalizeStatus(WordsOf(computed.status)) = computed.status
            /\ JudgedScore(computed.score, {computed.score}) = computed.score
        BY WordsMeanStatus, OwnScoreKept DEF VerdictInv
      <4> QED  BY <3>2, <4>1, <2>1, <2>2 DEF FailedJudgeChangesNothing
    <3> QED  BY <3>1, <3>2
  <2>4. ~(~(Centroid /\ got.query) /\ cfg.inSync > 50 /\ cfg.judgeLow > 50)
    BY <2>1 DEF VerdictInv, OutageNeverCompliant
  <2>5. OutageNeverCompliant'  BY <2>1, <2>4 DEF OutageNeverCompliant, Centroid
  <2> QED
    BY <2>1, <2>2, <2>3, <2>5, SummariseGoes DEF VerdictInv
<1>12. CASE SummariseWhole
  BY <1>12, LateStep DEF SummariseWhole, Ended, Finish, Reply, Begin, input
<1>13. CASE SummariseBatch
  <2>1. pc = "map" /\ UNCHANGED <<scoring, got, cfg>>
    BY <1>13 DEF SummariseBatch, Ended, input
  <2>2. CASE \E kept \in BOOLEAN : AfterBatch(kept)  BY <2>1, <2>2, BatchGoes, LateStep
  <2>3. CASE Reply("fallback")  BY <2>1, <2>3, LateStep DEF Reply, Begin
  <2> QED  BY <1>13, <2>2, <2>3 DEF SummariseBatch
<1>14. CASE Timeout
  BY <1>14 DEF Timeout, VerdictInv, scoring, FailedJudgeChangesNothing,
               OutageNeverCompliant, Pipeline, OpenAICalls
<1>15. CASE UNCHANGED vars
  BY <1>15 DEF vars, VerdictInv, scoring, reply, input, FailedJudgeChangesNothing,
               OutageNeverCompliant, Centroid
<1> QED
  BY <1>1, <1>2, <1>3, <1>4, <1>5, <1>6, <1>7, <1>8, <1>9, <1>10, <1>11, <1>12,
     <1>13, <1>14, <1>15 DEF Next, Work

LEMMA VerdictAlways == Spec => []VerdictInv
  BY InputInit, InputStep, VerdictInit, VerdictStep, PTL DEF Spec

(* A verdict that lost its chunks or its plan vector to an outage is never  *)
(* compliant and never put before the judge, whatever the file, the signals *)
(* that are left and the replies, if bands and judge begin above 50.        *)
THEOREM OutageTheorem == Spec => []OutageNeverCompliant
<1>1. VerdictInv => OutageNeverCompliant  BY DEF VerdictInv
<1> QED  BY VerdictAlways, <1>1, PTL

(* A judge that raised or answered no JSON leaves the verdict as computed.  *)
THEOREM JudgeTheorem == Spec => []FailedJudgeChangesNothing
<1>1. VerdictInv => FailedJudgeChangesNothing  BY DEF VerdictInv
<1> QED  BY VerdictAlways, <1>1, PTL

-----------------------------------------------------------------------------
(* The windows of the chunker.                                              *)

(* The settings of chunk.py: a window has a token, and a next one begins    *)
(* after it.                                                                *)
ChunkSetting(c) == c.size \in Nat \ {0} /\ c.overlap \in Nat /\ c.max \in Nat

LEMMA StepPositive ==
  ASSUME NEW c, ChunkSetting(c)
  PROVE  /\ Overlap(c) \in Nat /\ Overlap(c) <= c.size - 1
         /\ Step(c) \in Nat \ {0} /\ Step(c) = c.size - Overlap(c)
  BY DEF ChunkSetting, Overlap, Step, Least

LEMMA Times ==
  ASSUME NEW i \in Nat, NEW d \in Nat \ {0}
  PROVE  i * d \in Nat /\ (i + 1) * d = i * d + d /\ i <= i * d
OBVIOUS

LEMMA LeastIs ==
  ASSUME NEW a \in Int, NEW b \in Int
  PROVE  /\ Least(a, b) \in Int /\ Least(a, b) <= a /\ Least(a, b) <= b
         /\ b <= a => Least(a, b) = b
         /\ a < b => Least(a, b) = a
  BY DEF Least

Span == [from : Int, to : Int]

(* What holds of the windows after n turns of the loop.                     *)
SlideInv(w, n, total, c) ==
  /\ w \in Seq(Span)
  /\ Len(w) <= n
  /\ c.max # 0 => Len(w) <= c.max
  /\ \A i \in 1..Len(w) : w[i] = Window((i - 1) * Step(c), total, c)
  /\ \A i \in 1..Len(w) : (i - 1) * Step(c) < total
  /\ \A i \in 1..(Len(w) - 1) : (i - 1) * Step(c) + c.size < total
  /\ Len(w) = n \/ Finished(w, total, c)

Turn(w, total, c) ==
  IF Finished(w, total, c) THEN w ELSE Append(w, Window(Len(w) * Step(c), total, c))

LEMMA TurnTyped ==
  ASSUME NEW total \in Nat, NEW c, ChunkSetting(c), NEW w \in Seq(Span)
  PROVE  Turn(w, total, c) \in Seq(Span)
<1>1. Len(w) * Step(c) \in Nat  BY StepPositive, Times
<1>2. Window(Len(w) * Step(c), total, c) \in Span
  BY <1>1 DEF Window, Span, Least, ChunkSetting
<1> QED  BY <1>2 DEF Turn

LEMMA TurnKeeps ==
  ASSUME NEW total \in Nat, NEW c, ChunkSetting(c), NEW n \in Nat, NEW w,
         SlideInv(w, n, total, c)
  PROVE  SlideInv(Turn(w, total, c), n + 1, total, c)
<1>0. w \in Seq(Span) /\ Len(w) \in Nat  BY DEF SlideInv
<1>1. CASE Finished(w, total, c)
  <2>1. Turn(w, total, c) = w  BY <1>1 DEF Turn
  <2> QED  BY <1>0, <1>1, <2>1 DEF SlideInv
<1>2. CASE ~Finished(w, total, c)
  <2> DEFINE v == Turn(w, total, c)
             k == Len(w)
             last == Window(k * Step(c), total, c)
  <2>1. v = Append(w, last)  BY <1>2 DEF Turn
  <2>2. v \in Seq(Span)  BY <1>0, TurnTyped
  <2>2a. last \in Span
    <3>1. Len(w) * Step(c) \in Nat  BY <1>0, StepPositive, Times
    <3> QED  BY <3>1 DEF Window, Span, Least, ChunkSetting
  <2>3. Len(v) = k + 1 /\ (\A i \in 1..k : v[i] = w[i]) /\ v[k + 1] = last
    BY <1>0, <2>1, <2>2a
  <2>4. k = n  BY <1>2 DEF SlideInv
  <2>5. c.max # 0 => k < c.max  BY <1>0, <1>2 DEF Finished, ChunkSetting
  <2>6. ASSUME NEW i \in 1..(k + 1) PROVE v[i] = Window((i - 1) * Step(c), total, c)
    <3>1. CASE i = k + 1  BY <1>0, <2>3, <3>1
    <3>2. CASE i \in 1..k  BY <2>3, <3>2 DEF SlideInv
    <3> QED  BY <1>0, <3>1, <3>2
  <2>7. ASSUME k # 0 PROVE (k - 1) * Step(c) + c.size < total
    <3>1. w # <<>> /\ Last(w) = w[k] /\ k \in 1..k  BY <1>0, <2>7 DEF Last
    <3>2. w[k].to # total  BY <1>2, <3>1 DEF Finished
    <3>3. w[k] = Window((k - 1) * Step(c), total, c)  BY <3>1 DEF SlideInv
    <3>4. (k - 1) * Step(c) \in Nat  BY <1>0, <2>7, StepPositive, Times
    <3>5. w[k].to = Least((k - 1) * Step(c) + c.size, total)  BY <3>3 DEF Window
    <3> QED  BY <3>2, <3>4, <3>5 DEF Least, ChunkSetting
  <2>8. ASSUME NEW i \in 1..k PROVE (i - 1) * Step(c) + c.size < total
    <3>1. CASE i = k  BY <2>7, <3>1
    <3>2. CASE i \in 1..(k - 1)  BY <3>2 DEF SlideInv
    <3> QED  BY <1>0, <3>1, <3>2
  <2>8a. ASSUME NEW i \in 1..(k + 1) PROVE (i - 1) * Step(c) < total
    <3>1. CASE i = k + 1
      <4>1. k * Step(c) \in Nat /\ i - 1 = k  BY <1>0, <3>1, StepPositive, Times
      <4> QED  BY <1>2, <4>1 DEF Finished
    <3>2. CASE i \in 1..k  BY <3>2 DEF SlideInv
    <3> QED  BY <1>0, <3>1, <3>2
  <2>9. c.max # 0 => Len(v) <= c.max  BY <1>0, <2>3, <2>5 DEF ChunkSetting
  <2> QED
    BY <1>0, <2>2, <2>3, <2>4, <2>6, <2>8, <2>8a, <2>9 DEF SlideInv
<1> QED  BY <1>1, <1>2

(* The loop's function is the one its equations describe.                   *)
LEMMA WindowsSlide ==
  ASSUME NEW total \in Nat, NEW c, ChunkSetting(c)
  PROVE  SlideInv(Windows(total, c), total, total, c)
<1> DEFINE step == [i \in 1..total |-> [w \in Seq(Span) |-> Turn(w, total, c)]]
           Slides(g) == g = [n \in 0..total |->
                               IF n = 0 THEN <<>> ELSE Turn(g[n - 1], total, c)]
           slide == CHOOSE g : Slides(g)
<1>1. \E g : Slides(g)
  <2>1. step \in [1..total -> [Seq(Span) -> Seq(Span)]]  BY TurnTyped
  <2>2. \A i \in 1..total, w \in Seq(Span) : step[i][w] = Turn(w, total, c)
    OBVIOUS
  <2> HIDE DEF step
  <2>3. <<>> \in Seq(Span)  OBVIOUS
  <2>4. PICK g \in [0..total -> Seq(Span)] :
          g[0] = <<>> /\ \A i \in 1..total : g[i] = step[i][g[i - 1]]
    <3> DEFINE V == Seq(Span)
               none == <<>>
    <3>1. step \in [1..total -> [V -> V]] /\ none \in V  BY <2>1, <2>3
    <3> HIDE DEF V, none
    <3>2. \E g \in [0..total -> V] :
            g[0] = none /\ \A i \in 1..total : g[i] = step[i][g[i - 1]]
      BY <3>1, RecursionExists
    <3> QED  BY <3>2 DEF V, none
  <2>5. ASSUME NEW i \in 1..total PROVE g[i] = Turn(g[i - 1], total, c)
    <3>1. g[i - 1] \in Seq(Span)  OBVIOUS
    <3> QED  BY <2>2, <2>4, <3>1
  <2>6. Slides(g)  BY <2>4, <2>5
  <2> HIDE DEF Slides
  <2> QED  BY <2>6
<1>2. Slides(slide)
  <2> HIDE DEF Slides
  <2> QED  BY <1>1
<1>3. Windows(total, c) = slide[total]
  BY Zenon DEF Windows, Turn
<1> HIDE DEF slide
<1> DEFINE P == {n \in 0..total : SlideInv(slide[n], n, total, c)}
<1>4. 0 \in P
  <2>1. slide[0] = <<>>  BY <1>2
  <2>2. SlideInv(<<>>, 0, total, c)  BY DEF SlideInv, ChunkSetting
  <2> QED  BY <2>1, <2>2
<1>5. ASSUME NEW n \in 1..total, n - 1 \in P PROVE n \in P
  <2>1. slide[n] = Turn(slide[n - 1], total, c)  BY <1>2
  <2>2. SlideInv(slide[n - 1], n - 1, total, c)  BY <1>5
  <2>3. SlideInv(slide[n], (n - 1) + 1, total, c)
    BY <2>1, <2>2, n - 1 \in Nat, TurnKeeps
  <2>4. (n - 1) + 1 = n  OBVIOUS
  <2> QED  BY <2>3, <2>4
<1>6. total \in P
  <2> HIDE DEF P
  <2>1. \A n \in 1..total : n - 1 \in P => n \in P  BY <1>5
  <2> QED  BY <1>4, <2>1, InductionUpTo
<1> QED  BY <1>3, <1>6

(* The windows w cover a text of so many tokens.                            *)
Covers(w, total, c) ==
    /\ w = <<>> <=> total = 0
    /\ c.max # 0 => Len(w) <= c.max
    /\ w # <<>> => /\ w[1].from = 0
                   /\ Last(w).to = total \/ Len(w) = c.max
    /\ \A i \in 1..(Len(w) - 1) : /\ w[i].to - w[i + 1].from = Overlap(c)
                                  /\ w[i].to < w[i + 1].to

(* They are slices of it, none of them empty.                               *)
Slices(w, total) ==
    /\ w \in Seq(Span)
    /\ \A i \in 1..Len(w) : /\ w[i].from \in Nat /\ w[i].to \in Nat
                            /\ w[i].from < w[i].to /\ w[i].to <= total

(* What chunk() returns for every text and setting.                         *)
LEMMA WindowsOfText ==
  ASSUME NEW total \in Nat, NEW c, ChunkSetting(c)
  PROVE  Covers(Windows(total, c), total, c) /\ Slices(Windows(total, c), total)
<1> DEFINE w == Windows(total, c)
           k == Len(w)
           d == Step(c)
           at == [i \in Nat \ {0} |-> (i - 1) * d]
<1>1. SlideInv(w, total, total, c)  BY WindowsSlide
<1> HIDE DEF w
<1>2. w \in Seq(Span) /\ k \in Nat  BY <1>1 DEF SlideInv
<1>3. d \in Nat \ {0} /\ d = c.size - Overlap(c) /\ Overlap(c) \in Nat /\ c.size \in Nat
  BY StepPositive DEF ChunkSetting
<1> HIDE DEF d
<1>3a. d \in Nat /\ d > 0 /\ c.size \in Nat  BY <1>3
<1>4. \A i \in Nat \ {0} : /\ at[i] \in Nat /\ i - 1 <= at[i]
                            /\ at[i + 1] = at[i] + d /\ at[i + 1] = i * d
  <2> SUFFICES ASSUME NEW i \in Nat \ {0}
               PROVE  /\ (i - 1) * d \in Nat /\ i - 1 <= (i - 1) * d
                      /\ i * d = (i - 1) * d + d /\ (i + 1) - 1 = i
    OBVIOUS
  <2>1. i - 1 \in Nat /\ (i - 1) + 1 = i /\ (i + 1) - 1 = i  OBVIOUS
  <2> QED  BY <2>1, <1>3, Times
<1>5. at[1] = 0  BY <1>3
<1>6. \A i \in 1..k : /\ w[i].from = at[i]
                      /\ w[i].to = Least(at[i] + c.size, total)
  <2> SUFFICES ASSUME NEW i \in 1..k
               PROVE  w[i].from = at[i] /\ w[i].to = Least(at[i] + c.size, total)
    OBVIOUS
  <2>1. at[i] = (i - 1) * d  BY <1>2
  <2>2. w[i] = Window((i - 1) * d, total, c)  BY <1>1 DEF SlideInv, d
  <2> QED  BY <2>1, <2>2 DEF Window
<1>7. \A i \in 1..(k - 1) : at[i] + c.size < total
  <2> SUFFICES ASSUME NEW i \in 1..(k - 1) PROVE at[i] + c.size < total
    OBVIOUS
  <2>1. at[i] = (i - 1) * d  BY <1>2
  <2> QED  BY <2>1, <1>1 DEF SlideInv, d
<1>7a. \A i \in 1..k : at[i] < total
  <2> SUFFICES ASSUME NEW i \in 1..k PROVE at[i] < total
    OBVIOUS
  <2>1. at[i] = (i - 1) * d  BY <1>2
  <2> QED  BY <2>1, <1>1 DEF SlideInv, d
<1>8. k = total \/ k * d >= total \/ (c.max # 0 /\ k >= c.max)
        \/ (w # <<>> /\ Last(w).to = total)
  BY <1>1 DEF SlideInv, Finished, d
<1> HIDE DEF at
<1>9. w = <<>> <=> total = 0
  <2>1. ASSUME total = 0 PROVE w = <<>>  BY <1>1, <1>2, <2>1 DEF SlideInv
  <2>2. ASSUME w = <<>>, total # 0 PROVE FALSE
    <3>1. k = 0  BY <2>2
    <3>2. k * d = 0  BY <3>1, <1>3
    <3> QED  BY <3>1, <3>2, <2>2, <1>8 DEF ChunkSetting
  <2> QED  BY <2>1, <2>2
<1>10. c.max # 0 => k <= c.max  BY <1>1 DEF SlideInv
<1>11. ASSUME w # <<>> PROVE w[1].from = 0 /\ (Last(w).to = total \/ k = c.max)
  <2>1. k \in 1..k /\ 1 \in 1..k /\ Last(w) = w[k]  BY <1>2, <1>11 DEF Last
  <2>2. w[1].from = 0  BY <2>1, <1>5, <1>6
  <2>3. CASE c.max # 0 /\ k >= c.max
    BY <2>3, <2>2, <1>10, <1>2 DEF ChunkSetting
  <2>4. CASE k = total \/ k * d >= total
    <3>1. /\ at[k] \in Nat /\ k - 1 <= at[k] /\ k * d = at[k] + d
      BY <2>1, <1>2, <1>4
    <3>2. at[k] + c.size >= total
      <4> DEFINE a == at[k]
                 p == k * d
      <4>1. a \in Nat /\ k - 1 <= a /\ p = a + d /\ (k = total \/ p >= total)
        BY <2>4, <3>1
      <4>2. c.size \in Nat /\ d \in Nat \ {0} /\ d <= c.size  BY <1>3
      <4> HIDE DEF a, p
      <4>3. a + c.size >= total  BY <1>2, <4>1, <4>2
      <4> QED  BY <4>3 DEF a
    <3>3. Least(at[k] + c.size, total) = total
      <4> DEFINE e == at[k] + c.size
      <4>1. e \in Int /\ e >= total  BY <1>3, <3>1, <3>2
      <4> HIDE DEF e
      <4>2. Least(e, total) = total  BY <4>1, LeastIs
      <4> QED  BY <4>2 DEF e
    <3> QED  BY <2>1, <2>2, <3>3, <1>6
  <2> QED  BY <2>2, <2>3, <2>4, <1>8
<1>12. ASSUME NEW i \in 1..k
       PROVE  /\ w[i].from \in Nat /\ w[i].to \in Nat
              /\ w[i].from < w[i].to /\ w[i].to <= total
  <2>1. at[i] \in Nat /\ at[i] < total
    <3>1. at[i] \in Nat  BY <1>2, <1>4
    <3>2. at[i] < total  BY <1>7a, Zenon
    <3> QED  BY <3>1, <3>2
  <2>2. /\ Least(at[i] + c.size, total) \in Nat /\ at[i] < Least(at[i] + c.size, total)
        /\ Least(at[i] + c.size, total) <= total
    <3> DEFINE e == at[i] + c.size
    <3>1. e \in Nat /\ at[i] < e  BY <1>3, <2>1 DEF ChunkSetting
    <3> HIDE DEF e
    <3>2. Least(e, total) \in Nat /\ at[i] < Least(e, total) /\ Least(e, total) <= total
      BY <2>1, <3>1 DEF Least
    <3> QED  BY <3>2 DEF e
  <2> QED  BY <2>1, <2>2, <1>6
<1>13. ASSUME NEW i \in 1..(k - 1)
      PROVE  w[i].to - w[i + 1].from = Overlap(c) /\ w[i].to < w[i + 1].to
  <2>1. at[i] + c.size < total  BY <1>7
  <2>2. i \in 1..k /\ i + 1 \in 1..k  BY <1>2
  <2>3. at[i] \in Nat /\ at[i + 1] = at[i] + d  BY <2>2, <1>4
  <2>4. /\ Least(at[i] + c.size, total) = at[i] + c.size
        /\ Least(at[i + 1] + c.size, total) > at[i] + c.size
    <3> DEFINE e == at[i] + c.size
               f == at[i + 1] + c.size
    <3>1. e \in Int /\ f \in Int /\ e < total /\ e < f
      <4> DEFINE a == at[i]
                 b == at[i + 1]
      <4>1. a \in Nat /\ b = a + d /\ a + c.size < total  BY <2>1, <2>3
      <4> HIDE DEF a, b
      <4>2. b \in Nat /\ a < b  BY <1>3a, <4>1
      <4>3. a + c.size \in Int /\ b + c.size \in Int /\ a + c.size < b + c.size
        BY <1>3a, <4>1, <4>2
      <4> QED  BY <4>1, <4>3 DEF a, b
    <3> HIDE DEF e, f
    <3>2. Least(e, total) = e /\ Least(f, total) > e  BY <3>1 DEF Least
    <3> QED  BY <3>2 DEF e, f
  <2>5. /\ w[i].to = at[i] + c.size /\ w[i + 1].from = at[i] + d
        /\ w[i + 1].to > at[i] + c.size
    BY <1>6, <2>2, <2>3, <2>4
  <2> QED  BY <1>3, <2>3, <2>5
<1>14. Covers(w, total, c)  BY <1>9, <1>10, <1>11, <1>13 DEF Covers
<1>15. Slices(w, total)  BY <1>2, <1>12 DEF Slices
<1> QED  BY <1>14, <1>15 DEF w

(* The windows are those of the file's tokens, from extraction on.          *)
TextInv == pc \in Pipeline \ {"extract"} => text.windows = Windows(Tokens[file], cfg.chunk)

LEMMA TextInit == Init => TextInv
  BY DEF Init, TextInv, Pipeline, OpenAICalls

LEMMA TextStep == TextInv /\ [Next]_vars => TextInv'
<1> SUFFICES ASSUME TextInv, [Next]_vars PROVE TextInv'
  OBVIOUS
<1>1. CASE Connect
  BY <1>1 DEF Connect, Begin, Reply, TextInv, Pipeline, OpenAICalls
<1>2. CASE Receive
  BY <1>2 DEF Receive, Begin, Reply, TextInv, Pipeline, OpenAICalls
<1>3. CASE ExtractAndChunk
  <2>1. UNCHANGED <<file, cfg>>  BY <1>3 DEF ExtractAndChunk, input
  <2>2. CASE text'.windows = Windows(Tokens[file], cfg.chunk)  BY <2>1, <2>2 DEF TextInv
  <2>3. CASE pc' = "done"  BY <2>3 DEF TextInv, Pipeline, OpenAICalls
  <2> QED  BY <1>3, <2>2, <2>3 DEF ExtractAndChunk, Reply, Begin
<1>4. ASSUME UNCHANGED <<text, file, cfg>>, pc \in Pipeline \ {"extract"} \/ UNCHANGED pc
      PROVE  TextInv'
  BY <1>4 DEF TextInv
<1>5. CASE Retry \/ Embed \/ Upsert \/ EmbedQuery \/ ReadChunks \/ FindSiblings
  <2>1. pc \in Pipeline \ {"extract"} /\ UNCHANGED <<text, file, cfg>>
    BY <1>5, Zenon DEF Retry, Embed, Upsert, EmbedQuery, ReadChunks, FindSiblings, Ended,
                input, Pipeline, OpenAICalls
  <2> QED  BY <2>1, <1>4
<1>6. CASE Score \/ Judge \/ SummariseWhole \/ SummariseBatch \/ Timeout
  <2>1. pc \in Pipeline \ {"extract"} /\ UNCHANGED <<text, file, cfg>>
    BY <1>6 DEF Score, Judge, SummariseWhole, SummariseBatch, Timeout, Ended,
                input, Pipeline, OpenAICalls
  <2> QED  BY <2>1, <1>4
<1>7. CASE UNCHANGED vars
  BY <1>7, <1>4 DEF vars, input
<1> QED
  BY <1>1, <1>2, <1>3, <1>5, <1>6, <1>7 DEF Next, Work

(* The windows of every text, whatever the chunk setting, cover it without  *)
(* a gap up to the limit, share the overlap and none lies within another.   *)
THEOREM WindowsTheorem == Spec => []WindowsCoverText
<1>1. InputInv /\ TextInv => WindowsCoverText
  <2> SUFFICES ASSUME InputInv, TextInv, pc \in Pipeline \ {"extract"}
               PROVE  WindowsCoverText
    BY DEF WindowsCoverText
  <2>1. Tokens[file] \in Nat /\ ChunkSetting(cfg.chunk)
    BY DocumentAssumption DEF InputInv, ChunkSetting
  <2>2. text.windows = Windows(Tokens[file], cfg.chunk)  BY DEF TextInv
  <2>3. Covers(text.windows, Tokens[file], cfg.chunk)  BY <2>1, <2>2, WindowsOfText
  <2> QED  BY <2>3 DEF Covers, WindowsCoverText
<1> QED  BY InputInit, InputStep, TextInit, TextStep, <1>1, PTL DEF Spec

-----------------------------------------------------------------------------
(* The download.                                                            *)

(* What was received is never more than the cap but in a call that ends.    *)
BlockInv ==
    /\ received \in Nat
    /\ pc \in {"fetch", "body"} => received <= MaxBlocks /\ answer = "none"
    /\ pc \in Pipeline \/ answer \notin {"none", "502"}
          => received = file.size /\ received <= MaxBlocks

LEMMA BlockInit == Init => BlockInv
  BY DocumentAssumption DEF Init, BlockInv, Pipeline, OpenAICalls

LEMMA BlockStep == BlockInv /\ [Next]_vars => BlockInv'
<1> SUFFICES ASSUME BlockInv, [Next]_vars PROVE BlockInv'
  OBVIOUS
<1>1. CASE Connect
  BY <1>1 DEF Connect, Begin, Reply, BlockInv, Pipeline, OpenAICalls, input
<1>2. CASE Receive
  <2>0. /\ pc = "body" /\ received \in Nat /\ received <= MaxBlocks /\ answer = "none"
        /\ UNCHANGED file /\ MaxBlocks \in Nat
    BY <1>2, DocumentAssumption DEF Receive, BlockInv, input
  <2>1. CASE received' = received + 1 /\ Reply("502")
    BY <2>0, <2>1 DEF Begin, Reply, BlockInv, Pipeline, OpenAICalls
  <2>2. CASE /\ received' = received + 1 /\ ~(received' > MaxBlocks)
             /\ Begin("body") /\ UNCHANGED answer
    BY <2>0, <2>2 DEF Begin, BlockInv, Pipeline, OpenAICalls
  <2>3. CASE received = file.size /\ Begin("extract") /\ UNCHANGED <<received, answer>>
    BY <2>0, <2>3 DEF Begin, BlockInv, Pipeline, OpenAICalls
  <2>4. CASE Reply("502") /\ UNCHANGED received
    BY <2>0, <2>4 DEF Begin, Reply, BlockInv, Pipeline, OpenAICalls
  <2> QED  BY <1>2, <2>1, <2>2, <2>3, <2>4, Zenon DEF Receive
<1>3. ASSUME pc \in Pipeline, UNCHANGED <<received, file>>, pc' \notin {"fetch", "body"}
      PROVE  BlockInv'
  BY <1>3 DEF BlockInv
<1>4. CASE ExtractAndChunk \/ Embed \/ Upsert \/ EmbedQuery \/ ReadChunks \/ FindSiblings
  <2>1. UNCHANGED <<received, file>> /\ pc \in Pipeline
    BY <1>4, Zenon DEF ExtractAndChunk, Embed, Upsert, EmbedQuery, ReadChunks,
                       FindSiblings, Ended, input, Pipeline, OpenAICalls
  <2>2. pc' \notin {"fetch", "body"}
    <3>1. CASE ExtractAndChunk  BY <3>1 DEF ExtractAndChunk, Reply, Begin
    <3>2. CASE Embed \/ Upsert  BY <3>2, Zenon DEF Embed, Upsert, Begin
    <3>3. CASE EmbedQuery  BY <3>3 DEF EmbedQuery, Begin
    <3>4. CASE ReadChunks \/ FindSiblings  BY <3>4 DEF ReadChunks, FindSiblings, Begin
    <3> QED  BY <1>4, <3>1, <3>2, <3>3, <3>4
  <2> QED  BY <2>1, <2>2, <1>3
<1>5. CASE Retry
  BY <1>5 DEF Retry, BlockInv, reply, input, OpenAICalls
<1>6. CASE Score \/ Judge \/ SummariseWhole \/ SummariseBatch \/ Timeout
  <2>1. UNCHANGED <<received, file>> /\ pc \in Pipeline
    BY <1>6 DEF Score, Judge, SummariseWhole, SummariseBatch, Timeout, Ended, input,
                Pipeline, OpenAICalls
  <2>2. pc' \notin {"fetch", "body"}
    BY <1>6, SummariseGoes, BatchGoes
       DEF Score, Judge, SummariseWhole, SummariseBatch, Timeout, Begin, Finish, Reply
  <2> QED  BY <2>1, <2>2, <1>3
<1>7. CASE UNCHANGED vars
  BY <1>7 DEF vars, BlockInv, input, reply
<1> QED
  BY <1>1, <1>2, <1>4, <1>5, <1>6, <1>7 DEF Next, Work

(* Whatever is extracted was downloaded whole and is within the cap, a file *)
(* of exactly the cap included.                                             *)
THEOREM DownloadTheorem == Spec => []OnlyWholeFiles
<1>1. BlockInv => OnlyWholeFiles
  BY DocumentAssumption DEF BlockInv, OnlyWholeFiles
<1> QED  BY BlockInit, BlockStep, <1>1, PTL DEF Spec

-----------------------------------------------------------------------------
(* The verdict of a file without text.                                      *)

NoReadableText(f) == f.ext # "xlsx" /\ \A n \in ReadersFind(f) : n < MinChars

LEMMA NoTextIsEmpty ==
  ASSUME NEW f, NoReadableText(f)
  PROVE  Extract(f).empty = TRUE
<1>1. CASE f.ext = "pdf"
  <2>1. Joined(Nonblank(f.plumber)) < MinChars /\ Joined(Nonblank(f.pypdf)) < MinChars
    BY <1>1 DEF NoReadableText, ReadersFind
  <2> QED  BY <1>1, <2>1 DEF Extract, ExtractPdf, Extraction
<1>2. CASE f.ext \in {"docx", "csv"}
  <2>1. Joined(Nonblank(f.parts)) < MinChars
    BY <1>2 DEF NoReadableText, ReadersFind
  <2> QED  BY <1>2, <2>1 DEF Extract, ExtractDocx, ExtractCsv, Extraction
<1>3. CASE f.ext \notin {"pdf", "docx", "csv"}
  <2>1. Extract(f) = NoExtraction
    BY <1>3 DEF Extract, NoReadableText
  <2>2. 0 < MinChars  BY MinCharsAssumption
  <2>3. NoExtraction.empty = (0 < MinChars)  BY DEF NoExtraction, Extraction
  <2>4. (0 < MinChars) = TRUE  BY <2>2
  <2> QED  BY <2>1, <2>3, <2>4, Zenon
<1> QED  BY <1>1, <1>2, <1>3

(* A file without text is extracted to nothing, and so its verdict is       *)
(* capped; the judge is never called for it.                                *)
NoTextInv ==
    /\ pc \in Pipeline \ {"extract"} => text.quality = Extract(file.data)
    /\ NoReadableText(file.data)
         => /\ verdict.status # "Compliant" /\ computed.score <= 45
            /\ judge = "none" /\ pc # "judge"

LEMMA NoTextInit == Init => NoTextInv
<1> SUFFICES ASSUME Init PROVE NoTextInv
  OBVIOUS
<1>1. computed.score = 0  BY Zenon DEF Init, NoResult
<1>2. computed.score <= 45
  <2>1. 0 <= 45  OBVIOUS
  <2> QED  BY <1>1, <2>1, Zenon
<1>3. verdict.status # "Compliant"
  <2>1. verdict.status = "Under Review"  BY Zenon DEF Init, NoVerdict
  <2> QED  BY <2>1, Zenon
<1>4. pc \notin Pipeline /\ judge = "none"  BY DEF Init, Pipeline, OpenAICalls
<1>5. pc # "judge"  BY <1>4 DEF Pipeline, OpenAICalls
<1> QED  BY <1>2, <1>3, <1>4, <1>5, Zenon DEF NoTextInv

(* A verdict computed from an empty extraction.                             *)
LEMMA EmptyOutcome ==
  ASSUME InputInv, text.quality.empty = TRUE, NEW r \in Outcomes
  PROVE  r.score <= 45 /\ r.status # "Compliant" /\ r.judge = FALSE
<1>1. PICK content \in ContentCosines, quality \in Qualities(text.quality) :
          r \in Compute(Signals(content, quality), text.quality, cfg)
  BY DEF Outcomes
<1> DEFINE raw == Raw(Signals(content, quality))
<1>2. PICK n \in Rounded(raw) : r = Result(n, text.quality, cfg)
  BY <1>1 DEF Compute
<1>3. n \in 0..100
  <2>1. raw \in Int
    <3>1. Signals(content, quality) \in SignalRange  BY <1>1, SignalsTyped
    <3> QED  BY <3>1, RawBounds
  <2> HIDE DEF raw
  <2> QED  BY <2>1, RoundedBounds
<1> QED  BY <1>2, <1>3, CappedTheorem

LEMMA NoTextStep == InputInv /\ NoTextInv /\ [Next]_vars => NoTextInv'
<1> SUFFICES ASSUME InputInv, NoTextInv, [Next]_vars PROVE NoTextInv'
  OBVIOUS
<1>1. ASSUME UNCHANGED <<scoring, file>>, pc' # "judge",
             pc' \in Pipeline \ {"extract"} => text'.quality = Extract(file.data)
      PROVE  NoTextInv'
  BY <1>1 DEF NoTextInv, scoring
<1>2. ASSUME UNCHANGED <<scoring, file, text>>, pc' # "judge", pc \in Pipeline \ {"extract"}
      PROVE  NoTextInv'
  BY <1>2 DEF NoTextInv, scoring
<1>3. CASE Connect
  <2>1. UNCHANGED <<scoring, file>> /\ pc' \notin Pipeline
    BY <1>3 DEF Connect, Begin, Reply, input, Pipeline, OpenAICalls
  <2> QED  BY <2>1, <1>1 DEF Pipeline, OpenAICalls
<1>4. CASE Receive
  <2>1. UNCHANGED <<scoring, file>> /\ pc' \notin Pipeline \ {"extract"}
    BY <1>4 DEF Receive, Begin, Reply, input, Pipeline, OpenAICalls
  <2> QED  BY <2>1, <1>1 DEF Pipeline, OpenAICalls
<1>5. CASE ExtractAndChunk
  <2>1. UNCHANGED <<scoring, file>> /\ pc' # "judge"
    BY <1>5 DEF ExtractAndChunk, Reply, Begin, input
  <2>2. text'.quality = Extract(file.data) \/ pc' = "done"
    BY <1>5 DEF ExtractAndChunk, Reply, Begin
  <2> QED  BY <2>1, <2>2, <1>1 DEF Pipeline, OpenAICalls
<1>6. CASE Retry
  BY <1>6 DEF Retry, NoTextInv, scoring, input
<1>7. CASE Embed \/ Upsert \/ EmbedQuery
  <2>1. UNCHANGED <<scoring, file, text>> /\ pc \in Pipeline \ {"extract"}
    BY <1>7, Zenon DEF Embed, Upsert, EmbedQuery, Ended, input, Pipeline, OpenAICalls
  <2>2. pc' # "judge"  BY <1>7, Zenon DEF Embed, Upsert, EmbedQuery, Begin
  <2> QED  BY <2>1, <2>2, <1>2
<1>8. CASE ReadChunks \/ FindSiblings
  <2>1. UNCHANGED <<scoring, file, text>> /\ pc \in Pipeline \ {"extract"}
    BY <1>8 DEF ReadChunks, FindSiblings, input, Pipeline, OpenAICalls
  <2>2. pc' # "judge"  BY <1>8 DEF ReadChunks, FindSiblings, Begin
  <2> QED  BY <2>1, <2>2, <1>2
<1>9. CASE Score
  <2>1. pc = "score" /\ UNCHANGED <<file, text, judge>>  BY <1>9 DEF Score, input
  <2>2. PICK r \in Outcomes :
          /\ computed' = r
          /\ verdict' = [status |-> r.status, score |-> r.score]
          /\ IF r.judge /\ cfg.key
             THEN Begin("judge") /\ UNCHANGED <<writing, reply>>
             ELSE Summarise
    BY <1>9 DEF Score
  <2>3. text.quality = Extract(file.data)
    BY <2>1 DEF NoTextInv, Pipeline
  <2>4. ASSUME NoReadableText(file.data)
        PROVE  /\ verdict'.status # "Compliant" /\ computed'.score <= 45
               /\ judge' = "none" /\ pc' # "judge"
    <3>1. r.score <= 45 /\ r.status # "Compliant" /\ r.judge = FALSE
      BY <2>3, <2>4, NoTextIsEmpty, EmptyOutcome
    <3>2. Summarise  BY <2>2, <3>1
    <3>3. pc' # "judge"  BY <3>2, SummariseGoes
    <3>4. judge = "none"  BY <2>4 DEF NoTextInv
    <3> QED  BY <2>1, <2>2, <3>1, <3>3, <3>4
  <2> QED  BY <2>1, <2>3, <2>4 DEF NoTextInv
<1>10. CASE Judge
  <2>1. pc = "judge" /\ UNCHANGED <<file, text>>  BY <1>10 DEF Judge, Ended, input
  <2> QED  BY <2>1 DEF NoTextInv, Pipeline, OpenAICalls
<1>11. CASE SummariseWhole \/ SummariseBatch \/ Timeout
  <2>1. UNCHANGED <<scoring, file, text>> /\ pc \in Pipeline \ {"extract"}
    BY <1>11 DEF SummariseWhole, SummariseBatch, Timeout, Ended, input, Pipeline, OpenAICalls
  <2>2. pc' # "judge"
    BY <1>11, BatchGoes
       DEF SummariseWhole, SummariseBatch, Timeout, Begin, Finish, Reply
  <2> QED  BY <2>1, <2>2, <1>2
<1>12. CASE UNCHANGED vars
  BY <1>12 DEF vars, NoTextInv, scoring, input
<1> QED
  BY <1>3, <1>4, <1>5, <1>6, <1>7, <1>8, <1>9, <1>10, <1>11, <1>12 DEF Next, Work

(* A file in which no reader finds text is never compliant, never above 45  *)
(* and never shown to the judge, whatever its vectors, bands and failures.  *)
THEOREM NoTextTheorem == Spec => []NoTextNeverCompliant
<1>1. NoTextInv => NoTextNeverCompliant
  BY DEF NoTextInv, NoTextNeverCompliant, NoReadableText
<1> QED  BY InputInit, InputStep, NoTextInit, NoTextStep, <1>1, PTL DEF Spec

-----------------------------------------------------------------------------
(* What an outage may add to the score.                                     *)

Unscored == {"fetch", "body", "extract", "embed", "upsert", "query", "read", "siblings", "score"}
Scored   == {"judge", "single", "map", "reduce", "done"}

Near == {Distance(d) : d \in truth.siblings}

(* The signals of the same file if every dependency had answered.           *)
HealthySignals(quality) ==
    [content |-> Alignment(HasChunks, truth.content), name |-> Clamp(0, truth.name, Unit),
     quality |-> quality, duplication |-> Duplication(Near)]

(* Before the score nothing is computed, and the siblings are the true ones *)
(* or none.                                                                 *)
OutageInv ==
    /\ pc \in Unscored \cup Scored
    /\ got.nearest = {} \/ got.nearest = Near
    /\ pc \in Unscored => computed = NoResult
    /\ OutageRaisesAtMostDuplication

LEMMA OutageInit == Init => OutageInv
<1> SUFFICES ASSUME Init PROVE OutageInv
  OBVIOUS
<1>1. got.nearest = {}  BY DEF Init
<1>2. computed = NoResult /\ pc \in Unscored  BY DEF Init, Unscored
<1> QED  BY <1>1, <1>2 DEF OutageInv, OutageRaisesAtMostDuplication

(* With all chunks in hand, or none, no signal but the duplication is       *)
(* better than that of a call without failures.                             *)
LEMMA NoBetterSignals ==
  ASSUME InputInv, got.chunks \in {{}, AllChunks}, NEW content \in ContentCosines,
         NEW quality \in Qualities(text.quality)
  PROVE  LET s == Signals(content, quality)
             h == HealthySignals(quality)
         IN /\ h \in SignalRange
            /\ s.content <= h.content /\ s.name <= h.name /\ s.quality = h.quality
<1>1. truth.content \in Int /\ truth.name \in Int /\ truth.siblings \subseteq Int
  BY DocumentAssumption DEF InputInv
<1>2. Signals(content, quality) \in SignalRange  BY SignalsTyped
<1>3. Duplication(Near) \in 0..Unit
  <2>1. Near \in SUBSET Int  BY <1>1 DEF Near, Distance, Unit
  <2> QED  BY <2>1, DuplicationRange
<1>4. quality \in 0..Unit  BY CharsTyped, QualityRange
<1>5. Clamp(0, truth.name, Unit) \in 0..Unit  <2>1. Alignment(TRUE, truth.name) \in 0..Unit  BY <1>1, AlignmentRange
  <2> QED  BY <2>1 DEF Alignment
<1>6. Alignment(HasChunks, truth.content) \in 0..Unit
  BY <1>1, AlignmentRange DEF HasChunks
<1>7. HealthySignals(quality) \in SignalRange
  BY <1>3, <1>4, <1>5, <1>6 DEF HealthySignals, SignalRange
<1>8. Alignment(Centroid /\ got.query, content) <= Alignment(HasChunks, truth.content)
  <2>1. CASE Centroid /\ got.query
    <3>1. got.chunks = AllChunks /\ HasChunks
      BY <2>1 DEF Centroid, HasChunks, AllChunks
    <3>2. content = truth.content  BY <3>1 DEF ContentCosines
    <3>3. Alignment(Centroid /\ got.query, content) = Alignment(HasChunks, truth.content)
      BY <2>1, <3>1, <3>2 DEF Alignment
    <3> QED  BY <3>3, <1>6
  <2>2. CASE ~(Centroid /\ got.query)
    <3>1. Alignment(Centroid /\ got.query, content) = 0  BY <2>2 DEF Alignment
    <3> QED  BY <3>1, <1>6
  <2> QED  BY <2>1, <2>2
<1>9. Alignment(got.query, truth.name) <= Clamp(0, truth.name, Unit)
  <2>1. CASE got.query  BY <2>1, <1>5 DEF Alignment
  <2>2. CASE ~got.query  BY <2>2, <1>5 DEF Alignment
  <2> QED  BY <2>1, <2>2
<1> QED  BY <1>7, <1>8, <1>9 DEF Signals, HealthySignals

LEMMA OutcomesClose ==
  ASSUME InputInv, got.chunks \in {{}, AllChunks}, NEW r \in Outcomes
  PROVE  \E healthy \in HealthyScores : r.score <= healthy + Weight.duplication
<1>1. PICK content \in ContentCosines, quality \in Qualities(text.quality) :
          r \in Compute(Signals(content, quality), text.quality, cfg)
  BY DEF Outcomes
<1> DEFINE s == Signals(content, quality)
           h == HealthySignals(quality)
<1>2. /\ h \in SignalRange /\ s \in SignalRange
      /\ s.content <= h.content /\ s.name <= h.name /\ s.quality = h.quality
  BY <1>1, NoBetterSignals, SignalsTyped
<1>3. r \in Compute(s, text.quality, cfg)  BY <1>1
<1>4. PICK best \in Compute(h, text.quality, cfg) : r.score <= best.score + 12
  <2> HIDE DEF s, h
  <2> QED  BY <1>2, <1>3, ScoresClose
<1>5. best.score \in HealthyScores
  BY <1>1, <1>4, Zenon DEF HealthyScores, HealthySignals, Near
<1>6. Weight.duplication = 12  BY DEF Weight
<1> QED  BY <1>4, <1>5, <1>6

(* After the score what it came from stays.                                 *)
LEMMA ScoreStands ==
  ASSUME OutageInv, pc \in Scored, pc' \in Scored,
         UNCHANGED <<computed, got, text, truth, cfg>>
  PROVE  OutageInv'
<1>1. /\ UNCHANGED <<Near, AllChunks, HealthyScores>>
  BY Zenon DEF Near, AllChunks, HealthyScores, HasChunks
<1>2. OutageRaisesAtMostDuplication'
  BY <1>1 DEF OutageInv, OutageRaisesAtMostDuplication
<1> QED  BY <1>1, <1>2 DEF OutageInv, Unscored, Scored

(* Before it nothing is computed.                                           *)
LEMMA NothingScored ==
  ASSUME OutageInv, pc \in Unscored, pc' \in Unscored \cup {"done"},
         UNCHANGED <<computed, truth>>, got'.nearest \in {got.nearest, Near}
  PROVE  OutageInv'
<1>1. UNCHANGED Near  BY DEF Near
<1>2. computed' = NoResult  BY DEF OutageInv
<1> QED  BY <1>1, <1>2, Zenon DEF OutageInv, OutageRaisesAtMostDuplication, Scored, Unscored, NoResult

LEMMA OutageStep == InputInv /\ OutageInv /\ [Next]_vars => OutageInv'
<1> SUFFICES ASSUME InputInv, OutageInv, [Next]_vars PROVE OutageInv'
  OBVIOUS
<1>1. CASE Connect
  BY <1>1, NothingScored DEF Connect, Begin, Reply, input, scoring, Unscored
<1>2. CASE Receive
  BY <1>2, NothingScored DEF Receive, Begin, Reply, input, scoring, Unscored
<1>3. CASE ExtractAndChunk
  BY <1>3, NothingScored DEF ExtractAndChunk, Reply, Begin, input, scoring, Unscored
<1>4. CASE Retry
  <2>1. UNCHANGED <<pc, computed, got, text, truth, cfg>>
    BY <1>4 DEF Retry, input, scoring
  <2>2. CASE pc \in Unscored  BY <2>1, <2>2, NothingScored
  <2>3. CASE pc \in Scored  BY <2>1, <2>3, ScoreStands
  <2> QED  BY <2>2, <2>3 DEF OutageInv
<1>5. CASE Embed
  <2>1. PICK ok \in BOOLEAN : got' = [got EXCEPT !.vectors = ok]  BY <1>5, Zenon DEF Embed
  <2>2. got'.nearest = got.nearest  BY <2>1 DEF InputInv, Supplied
  <2>3. pc = "embed" /\ pc' \in {"upsert", "query"} /\ UNCHANGED <<computed, truth>>
    BY <1>5, Zenon DEF Embed, Ended, Begin, input, scoring
  <2> QED  BY <2>2, <2>3, NothingScored DEF Unscored
<1>6. CASE Upsert
  <2>1. \/ UNCHANGED got
        \/ \E kept : got' = [got EXCEPT !.stored = TRUE, !.chunks = kept]
    BY <1>6, Zenon DEF Upsert
  <2>2. got'.nearest = got.nearest  BY <2>1, Zenon DEF InputInv, Supplied
  <2>3. pc = "upsert" /\ pc' = "query" /\ UNCHANGED <<computed, truth>>
    BY <1>6, Zenon DEF Upsert, Begin, input, scoring
  <2> QED  BY <2>2, <2>3, NothingScored DEF Unscored
<1>7. CASE EmbedQuery
  <2>1. PICK ok \in BOOLEAN : got' = [got EXCEPT !.query = ok]  BY <1>7, Zenon DEF EmbedQuery
  <2>2. got'.nearest = got.nearest  BY <2>1 DEF InputInv, Supplied
  <2>3. pc = "query" /\ pc' \in {"read", "score"} /\ UNCHANGED <<computed, truth>>
    BY <1>7, Zenon DEF EmbedQuery, Ended, Begin, input, scoring
  <2> QED  BY <2>2, <2>3, NothingScored DEF Unscored
<1>8. CASE ReadChunks
  <2>1. got' = got \/ got' = [got EXCEPT !.chunks = {}]  BY <1>8, Zenon DEF ReadChunks
  <2>2. got'.nearest = got.nearest  BY <2>1 DEF InputInv, Supplied
  <2>3. pc = "read" /\ pc' \in {"siblings", "score"} /\ UNCHANGED <<computed, truth>>
    BY <1>8, Zenon DEF ReadChunks, Begin, input, scoring
  <2> QED  BY <2>2, <2>3, NothingScored DEF Unscored
<1>9. CASE FindSiblings
  <2>1. got' = got \/ got' = [got EXCEPT !.nearest = Near]  BY <1>9, Zenon DEF FindSiblings, Near
  <2>2. got'.nearest \in {got.nearest, Near}  BY <2>1 DEF InputInv, Supplied
  <2>3. pc = "siblings" /\ pc' = "score" /\ UNCHANGED <<computed, truth>>
    BY <1>9, Zenon DEF FindSiblings, Begin, input, scoring
  <2> QED  BY <2>2, <2>3, NothingScored DEF Unscored
<1>10. CASE Score
  <2>1. /\ pc = "score" /\ UNCHANGED <<got, text, truth, cfg>>
        /\ computed' \in Outcomes
    BY <1>10, Zenon DEF Score, input
  <2>2. pc' \in Scored
    <3>1. CASE Begin("judge")  BY <3>1 DEF Begin, Scored
    <3>2. CASE Summarise  BY <3>2, SummariseGoes DEF Scored
    <3> QED  BY <1>10, <3>1, <3>2, Zenon DEF Score
  <2>3. UNCHANGED <<Near, AllChunks, HealthyScores>>
    BY <2>1, Zenon DEF Near, AllChunks, HealthyScores, HasChunks
  <2>4. OutageRaisesAtMostDuplication'
    <3> SUFFICES ASSUME got.chunks \in {{}, AllChunks}
                 PROVE  \E healthy \in HealthyScores :
                            computed'.score <= healthy + Weight.duplication
      BY <2>1, <2>3 DEF OutageRaisesAtMostDuplication
    <3> QED  BY <2>1, OutcomesClose
  <2> QED
    BY <2>1, <2>2, <2>3, <2>4 DEF OutageInv, Scored, Unscored
<1>11. CASE Judge \/ SummariseWhole \/ SummariseBatch
  <2>1. pc \in Scored /\ UNCHANGED <<computed, got, text, truth, cfg>>
    BY <1>11, Zenon DEF Judge, SummariseWhole, SummariseBatch, Ended, input, scoring, Scored
  <2>2. pc' \in Scored
    BY <1>11, SummariseGoes, BatchGoes
       DEF Judge, SummariseWhole, SummariseBatch, Begin, Finish, Reply, Scored
  <2> QED  BY <2>1, <2>2, ScoreStands
<1>12. CASE Timeout
  <2>1. pc' = "done" /\ UNCHANGED <<computed, got, text, truth, cfg>>
    BY <1>12 DEF Timeout, input, scoring
  <2>2. CASE pc \in Unscored  BY <2>1, <2>2, NothingScored
  <2>3. CASE pc \in Scored  BY <2>1, <2>3, ScoreStands DEF Scored
  <2> QED  BY <2>2, <2>3 DEF OutageInv
<1>13. CASE UNCHANGED vars
  <2>1. UNCHANGED <<pc, computed, got, text, truth, cfg>>
    BY <1>13 DEF vars, input, scoring
  <2>2. CASE pc \in Unscored  BY <2>1, <2>2, NothingScored
  <2>3. CASE pc \in Scored  BY <2>1, <2>3, ScoreStands
  <2> QED  BY <2>2, <2>3 DEF OutageInv
<1> QED
  BY <1>1, <1>2, <1>3, <1>4, <1>5, <1>6, <1>7, <1>8, <1>9, <1>10, <1>11, <1>12,
     <1>13 DEF Next, Work

(* Failures never make a score better by more than the 12 points of the     *)
(* duplication signal, whatever the file, its vectors and the bands.        *)
THEOREM OutageScoreTheorem == Spec => []OutageRaisesAtMostDuplication
<1>1. OutageInv => OutageRaisesAtMostDuplication  BY DEF OutageInv
<1> QED  BY InputInit, InputStep, OutageInit, OutageStep, <1>1, PTL DEF Spec

-----------------------------------------------------------------------------
(* The text the summariser is given.                                        *)

Piece(w) == [i \in 1..(w.to - w.from) |-> w.from + i]

Join(windows, kept, sofar, i) ==
    IF i \in kept
    THEN (IF sofar = <<>> THEN <<>> ELSE Append(sofar, 0)) \o Piece(windows[i])
    ELSE sofar

TokensOf(w) == (w.from + 1)..w.to

LEMMA RangeOfConcat ==
  ASSUME NEW s \in Seq(Nat), NEW t \in Seq(Nat)
  PROVE  ToSet(s \o t) = ToSet(s) \cup ToSet(t)
<1>1. /\ DOMAIN s = 1..Len(s) /\ DOMAIN t = 1..Len(t)
      /\ DOMAIN (s \o t) = 1..(Len(s) + Len(t)) /\ Len(s) \in Nat /\ Len(t) \in Nat
  OBVIOUS
<1>2. /\ \A i \in 1..Len(s) : (s \o t)[i] = s[i]
      /\ \A i \in 1..Len(t) : (s \o t)[i + Len(s)] = t[i]
  OBVIOUS
<1>3. ASSUME NEW x \in ToSet(s \o t) PROVE x \in ToSet(s) \cup ToSet(t)
  <2>1. PICK i \in 1..(Len(s) + Len(t)) : x = (s \o t)[i]  BY <1>1 DEF ToSet
  <2>2. CASE i \in 1..Len(s)  BY <1>1, <1>2, <2>1, <2>2 DEF ToSet
  <2>3. CASE i \notin 1..Len(s)
    <3>1. i - Len(s) \in 1..Len(t) /\ (i - Len(s)) + Len(s) = i  BY <1>1, <2>3
    <3>2. x = t[i - Len(s)]  BY <1>2, <2>1, <3>1
    <3> QED  BY <1>1, <3>1, <3>2 DEF ToSet
  <2> QED  BY <2>2, <2>3
<1>4. ASSUME NEW x \in ToSet(s) PROVE x \in ToSet(s \o t)
  <2>1. PICK i \in 1..Len(s) : x = s[i]  BY <1>1 DEF ToSet
  <2>2. i \in DOMAIN (s \o t) /\ x = (s \o t)[i]  BY <1>1, <1>2, <2>1
  <2> QED  BY <2>2 DEF ToSet
<1>5. ASSUME NEW x \in ToSet(t) PROVE x \in ToSet(s \o t)
  <2>1. PICK i \in 1..Len(t) : x = t[i]  BY <1>1 DEF ToSet
  <2>2. i + Len(s) \in DOMAIN (s \o t) /\ x = (s \o t)[i + Len(s)]  BY <1>1, <1>2, <2>1
  <2> QED  BY <2>2 DEF ToSet
<1> QED  BY <1>3, <1>4, <1>5

LEMMA PieceIs ==
  ASSUME NEW total, NEW windows, Slices(windows, total), NEW i \in 1..Len(windows)
  PROVE  /\ Piece(windows[i]) \in Seq(Nat)
         /\ ToSet(Piece(windows[i])) = TokensOf(windows[i])
<1> DEFINE a == windows[i].from
           b == windows[i].to
           p == [j \in 1..(b - a) |-> a + j]
<1>1. a \in Nat /\ b \in Nat /\ a < b  BY DEF Slices
<1>2. Piece(windows[i]) = p /\ TokensOf(windows[i]) = (a + 1)..b
  BY DEF Piece, TokensOf
<1> HIDE DEF a, b
<1>3. p \in Seq(Nat) /\ DOMAIN p = 1..(b - a)  BY <1>1
<1>4. ASSUME NEW x \in (a + 1)..b PROVE x \in ToSet(p)
  <2>1. x - a \in 1..(b - a) /\ p[x - a] = x  BY <1>1
  <2> QED  BY <2>1, <1>3 DEF ToSet
<1>5. ASSUME NEW x \in ToSet(p) PROVE x \in (a + 1)..b
  <2>1. PICK j \in 1..(b - a) : x = a + j  BY <1>3 DEF ToSet
  <2> QED  BY <2>1, <1>1
<1> QED  BY <1>2, <1>3, <1>4, <1>5

LEMMA JoinIs ==
  ASSUME NEW total, NEW windows, Slices(windows, total), NEW i \in 1..Len(windows), NEW kept,
         NEW sofar \in Seq(Nat)
  PROVE  /\ Join(windows, kept, sofar, i) \in Seq(Nat)
         /\ ToSet(Join(windows, kept, sofar, i)) \ Newline =
              (ToSet(sofar) \ Newline) \cup (IF i \in kept THEN TokensOf(windows[i]) ELSE {})
<1>1. CASE i \notin kept  BY <1>1 DEF Join
<1>2. CASE i \in kept
  <2> DEFINE head == IF sofar = <<>> THEN <<>> ELSE Append(sofar, 0)
             piece == Piece(windows[i])
  <2>1. piece \in Seq(Nat) /\ ToSet(piece) = TokensOf(windows[i])  BY PieceIs
  <2>2. Join(windows, kept, sofar, i) = head \o piece  BY <1>2 DEF Join
  <2>3. head \in Seq(Nat) /\ ToSet(head) \ Newline = ToSet(sofar) \ Newline
    <3>1. CASE sofar = <<>>  BY <3>1
    <3>2. CASE sofar # <<>>
      <4>1. <<0>> \in Seq(Nat) /\ ToSet(<<0>>) = Newline  BY DEF ToSet, Newline
      <4>2. Append(sofar, 0) = sofar \o <<0>>  OBVIOUS
      <4>3. ToSet(Append(sofar, 0)) = ToSet(sofar) \cup Newline
        BY <4>1, <4>2, RangeOfConcat
      <4>4. head = Append(sofar, 0)  BY <3>2
      <4> QED  BY <4>3, <4>4
    <3> QED  BY <3>1, <3>2
  <2>4. \A x \in TokensOf(windows[i]) : x \notin Newline
    BY DEF TokensOf, Newline, Slices
  <2> HIDE DEF head, piece
  <2>5. head \o piece \in Seq(Nat)  BY <2>1, <2>3
  <2>6. ToSet(head \o piece) = ToSet(head) \cup TokensOf(windows[i])
    BY <2>1, <2>3, RangeOfConcat
  <2> QED  BY <1>2, <2>2, <2>3, <2>4, <2>5, <2>6
<1> QED  BY <1>1, <1>2

(* It is made of the tokens of the chunks in hand.                          *)
LEMMA JoinedIs ==
  ASSUME NEW total, NEW windows, Slices(windows, total),
         NEW kept \in SUBSET (1..Len(windows))
  PROVE  /\ JoinedChunks(windows, kept) \in Seq(Nat)
         /\ ToSet(JoinedChunks(windows, kept)) \ Newline = UNION {TokensOf(windows[i]) : i \in kept}
<1> DEFINE n == Len(windows)
           idx == [i \in DOMAIN windows |-> i]
           Computes(it) == it = [s \in SUBSET (1..n) |->
                                IF s = {} THEN <<>>
                                ELSE Join(windows, kept, it[s \ {Max(s)}], idx[Max(s)])]
           fold == CHOOSE it : Computes(it)
<1>1. DOMAIN windows = 1..n /\ DOMAIN idx = 1..n /\ n \in Nat  BY DEF Slices
<1>2. \A s \in SUBSET (1..n) : s # {} => Max(s) \in 1..n /\ idx[Max(s)] = Max(s)
  BY <1>1, MaxOfPositions
<1>3. \E it : Computes(it)
  <2> DEFINE V == Seq(Nat)
             none == <<>>
             step == [i \in 1..n |-> [v \in V |-> Join(windows, kept, v, i)]]
  <2>1. step \in [1..n -> [V -> V]] /\ none \in V  BY JoinIs
  <2>2. \A i \in 1..n, v \in V : step[i][v] = Join(windows, kept, v, i)  OBVIOUS
  <2>3. V = Seq(Nat) /\ none = <<>>  OBVIOUS
  <2> HIDE DEF V, none, step, Computes, idx, n
  <2>4. n \in Nat /\ none \in V  BY <1>1, <2>1
  <2>5. PICK it \in [SUBSET (1..n) -> V] : Folds(it, n, none, step)
    BY <2>1, <2>4, FoldExists
  <2>6. ASSUME NEW s \in SUBSET (1..n), s # {}
        PROVE  it[s] = Join(windows, kept, it[s \ {Max(s)}], idx[Max(s)])
    <3>1. it[s \ {Max(s)}] \in V  OBVIOUS
    <3> QED  BY <1>2, <2>2, <2>5, <2>6, <3>1 DEF Folds
  <2>7. Computes(it)  BY <2>3, <2>5, <2>6 DEF Folds, Computes
  <2> QED  BY <2>7
<1>4. Computes(fold)
  <2> HIDE DEF Computes
  <2> QED  BY <1>3
<1>5. JoinedChunks(windows, kept) = fold[1..n]
  <2>1. JoinedChunks(windows, kept) = fold[DOMAIN idx]
    BY <1>1, Zenon DEF JoinedChunks, Join, Piece, FoldLeftDomain, FoldLeft, MapThenFoldSet
  <2> QED  BY <1>1, <2>1
<1> HIDE DEF fold
<1> DEFINE g(i) == fold[1..i]
           Told(i) == UNION {TokensOf(windows[j]) : j \in kept \cap 1..i}
           P == {i \in 0..n : g(i) \in Seq(Nat) /\ ToSet(g(i)) \ Newline = Told(i)}
<1>6. g(0) = <<>>  BY <1>4
<1>7. ASSUME NEW i \in 1..n PROVE g(i) = Join(windows, kept, g(i - 1), i)
  <2>1. Max(1..i) = i /\ (1..i) \ {Max(1..i)} = 1..(i - 1)  BY <1>1, MaxOfInterval
  <2>2. 1..i \in SUBSET (1..n) /\ 1..i # {}
    <3> HIDE DEF n
    <3>1. \A j \in 1..i : j \in 1..n  BY <1>1
    <3>2. i \in 1..i  OBVIOUS
    <3> QED  BY <3>1, <3>2
  <2>3. idx[i] = i  BY <1>1
  <2> HIDE DEF idx, n
  <2> QED  BY <1>4, <2>1, <2>2, <2>3
<1>8. 0 \in P
  <2>1. ToSet(<<>>) = {} /\ <<>> \in Seq(Nat)  BY DEF ToSet
  <2>2. 1..0 = {}  OBVIOUS
  <2>3. Told(0) = {}  BY <2>2
  <2>4. g(0) \in Seq(Nat) /\ ToSet(g(0)) \ Newline = Told(0)  BY <1>6, <2>1, <2>3
  <2> QED  BY <1>1, <2>4
<1>9. ASSUME NEW i \in 1..n, i - 1 \in P PROVE i \in P
  <2>1. /\ g(i) \in Seq(Nat)
        /\ ToSet(g(i)) \ Newline = Told(i - 1) \cup (IF i \in kept THEN TokensOf(windows[i]) ELSE {})
    BY <1>7, <1>9, JoinIs
  <2>2. kept \cap 1..i =
          (kept \cap 1..(i - 1)) \cup (IF i \in kept THEN {i} ELSE {})
    BY <1>1
  <2>3. Told(i) = Told(i - 1) \cup (IF i \in kept THEN TokensOf(windows[i]) ELSE {})
    BY <2>2
  <2> QED  BY <2>1, <2>3
<1>10. n \in P
  <2> HIDE DEF P
  <2>1. \A i \in 1..n : i - 1 \in P => i \in P  BY <1>9
  <2>2. \A i \in 0..n : i \in P  BY <1>1, <1>8, <2>1, InductionUpTo
  <2> QED  BY <1>1, <2>2
<1>11. kept \cap 1..n = kept  OBVIOUS
<1> QED  BY <1>5, <1>10, <1>11

-----------------------------------------------------------------------------
(* What the summary rests on.                                               *)

(* The first k tokens of a text.                                            *)
First(s, k) == {s[j] : j \in 1..k}

LEMMA SliceIs ==
  ASSUME NEW s \in Seq(Nat), NEW m \in Nat \ {0}, NEW n \in Nat, m <= n + 1, n <= Len(s)
  PROVE  First(s, m - 1) \cup ToSet(SubSeq(s, m, n)) = First(s, n)
<1> DEFINE t == SubSeq(s, m, n)
<1>1. /\ DOMAIN t = 1..(n + 1 - m)
      /\ \A i \in 1..(n + 1 - m) : t[i] = s[m + i - 1]
  OBVIOUS
<1> HIDE DEF t
<1>2. ASSUME NEW x \in ToSet(t) PROVE x \in First(s, n)
  <2>1. PICK i \in 1..(n + 1 - m) : x = s[m + i - 1]  BY <1>1 DEF ToSet
  <2>2. m + i - 1 \in 1..n  OBVIOUS
  <2> QED  BY <2>1, <2>2 DEF First
<1>3. ASSUME NEW x \in First(s, m - 1) PROVE x \in First(s, n)
  BY <1>3 DEF First
<1>4. ASSUME NEW x \in First(s, n), x \notin First(s, m - 1) PROVE x \in ToSet(t)
  <2>1. PICK j \in 1..n : x = s[j]  BY DEF First
  <2>2. j \notin 1..(m - 1)  BY <1>4, <2>1 DEF First
  <2>3. (j + 1) - m \in 1..(n + 1 - m) /\ m + ((j + 1) - m) - 1 = j  BY <2>2
  <2>4. x = t[(j + 1) - m]  BY <1>1, <2>1, <2>3
  <2> QED  BY <1>1, <2>3, <2>4 DEF ToSet
<1> QED  BY <1>2, <1>3, <1>4 DEF t

LEMMA FirstAll ==
  ASSUME NEW s \in Seq(Nat)
  PROVE  First(s, Len(s)) = ToSet(s)
  BY DEF First, ToSet

(* b batches of the text's characters.                                      *)
Upto(s, b) == Least(b * BatchSize, Len(s))

LEMMA UptoIs ==
  ASSUME NEW s \in Seq(Nat), NEW b \in Nat
  PROVE  /\ Upto(s, b) \in Nat /\ Upto(s, b) <= Len(s)
         /\ b * BatchSize <= Len(s) => Upto(s, b) = b * BatchSize
         /\ Len(s) <= b * BatchSize => Upto(s, b) = Len(s)
         /\ (b + 1) * BatchSize = b * BatchSize + BatchSize
         /\ b * BatchSize \in Nat
<1> DEFINE e == b * BatchSize
<1>1. BatchSize \in Nat \ {0}  BY DocumentAssumption
<1>2. e \in Nat /\ (b + 1) * BatchSize = e + BatchSize  BY <1>1, Times
<1>3. Len(s) \in Nat  OBVIOUS
<1> HIDE DEF e
<1>4. /\ Least(e, Len(s)) \in Nat /\ Least(e, Len(s)) <= Len(s)
      /\ e <= Len(s) => Least(e, Len(s)) = e
      /\ Len(s) <= e => Least(e, Len(s)) = Len(s)
  BY <1>2, <1>3 DEF Least
<1> QED  BY <1>2, <1>4 DEF e, Upto

(* A text has the batches its length takes.                                 *)
LEMMA BatchesIs ==
  ASSUME NEW s \in Seq(Nat), NEW b \in Nat
  PROVE  b < Batches(s) <=> b * BatchSize < Len(s)
<1> DEFINE q == Batches(s)
           B == BatchSize
           n == Len(s)
<1>1. B \in Nat \ {0} /\ n \in Nat  BY DocumentAssumption
<1>2. q = (n + B - 1) \div B  BY DEF Batches
<1> HIDE DEF q, B, n
<1>3. q \in Nat /\ q * B <= n + B - 1 /\ n + B - 1 < q * B + B
  <2>1. n + B - 1 \in Nat  BY <1>1
  <2> QED  BY <1>1, <1>2, <2>1
<1>4. b * B \in Nat  BY <1>1, Times
<1>5. ASSUME b < q PROVE b * B < n
  <2>1. b + 1 <= q  BY <1>3, <1>5
  <2>2. (b + 1) * B <= q * B  BY <1>1, <1>3, <2>1
  <2>3. (b + 1) * B = b * B + B  BY <1>1, Times
  <2> QED  BY <1>1, <1>3, <1>4, <2>2, <2>3
<1>6. ASSUME q <= b PROVE n <= b * B
  <2>1. q * B <= b * B  BY <1>1, <1>3, <1>6
  <2> QED  BY <1>1, <1>3, <1>4, <2>1
<1>7. b < q <=> b * B < n  BY <1>1, <1>3, <1>4, <1>5, <1>6
<1> QED  BY <1>7 DEF q, B, n

(* The next batch goes on where the last one ended.                         *)
LEMMA NextBatch ==
  ASSUME NEW s \in Seq(Nat), NEW b \in Nat, b * BatchSize <= Len(s)
  PROVE  First(s, Upto(s, b)) \cup ToSet(Batch(s, b + 1)) = First(s, Upto(s, b + 1))
<1> DEFINE e == b * BatchSize
           m == Upto(s, b + 1)
<1>1. e \in Nat /\ Upto(s, b) = e /\ BatchSize \in Nat  BY UptoIs, DocumentAssumption
<1>2. m \in Nat /\ m <= Len(s) /\ e <= m
  <2>1. (b + 1) * BatchSize = e + BatchSize  BY UptoIs
  <2>2. b + 1 \in Nat /\ Len(s) \in Nat /\ e <= Len(s)  OBVIOUS
  <2>3. m \in Nat /\ m <= Len(s)  BY <2>2, UptoIs
  <2>4. m = Least(e + BatchSize, Len(s))  BY <2>1 DEF Upto
  <2> HIDE DEF e, m
  <2> QED  BY <1>1, <2>2, <2>3, <2>4 DEF Least
<1>3. Batch(s, b + 1) = SubSeq(s, e + 1, m)
  <2>1. (b + 1) - 1 = b  OBVIOUS
  <2> QED  BY <2>1 DEF Batch, Upto
<1> HIDE DEF e, m
<1>4. (e + 1) - 1 = e /\ e + 1 \in Nat \ {0} /\ e + 1 <= m + 1  BY <1>1, <1>2
<1>5. First(s, (e + 1) - 1) \cup ToSet(SubSeq(s, e + 1, m)) = First(s, m)
  BY <1>2, <1>4, SliceIs
<1> QED  BY <1>1, <1>3, <1>4, <1>5 DEF m

Given == UNION {TokensOf(text.windows[i]) : i \in got.chunks}

(* The chunks are slices of the text; before they are upserted, none is in  *)
(* hand.                                                                    *)
ChunkInv ==
    /\ Slices(text.windows, Tokens[file])
    /\ got.chunks \subseteq AllChunks
    /\ pc \in {"fetch", "body", "extract"} => got.chunks = {}

LEMMA ChunkInit == Init => ChunkInv
  BY DEF Init, ChunkInv, Slices, NoText, AllChunks

LEMMA ChunkStep == InputInv /\ ChunkInv /\ [Next]_vars => ChunkInv'
<1> SUFFICES ASSUME InputInv, ChunkInv, [Next]_vars PROVE ChunkInv'
  OBVIOUS
<1>1. ASSUME UNCHANGED <<text, file>>, got'.chunks \in {got.chunks, {}},
             pc' \notin {"fetch", "body", "extract"} \/ pc \in {"fetch", "body", "extract"}
      PROVE  ChunkInv'
  BY <1>1 DEF ChunkInv, AllChunks
<1>2. CASE Connect \/ Receive
  <2>1. UNCHANGED <<text, file, got>> /\ pc \in {"fetch", "body", "extract"}
    BY <1>2, Zenon DEF Connect, Receive, input
  <2> QED  BY <2>1, <1>1
<1>3. CASE ExtractAndChunk
  <2>1. UNCHANGED <<file, got>> /\ pc = "extract"  BY <1>3 DEF ExtractAndChunk, input
  <2>0. \/ text'.windows = Windows(Tokens[file], cfg.chunk)
        \/ UNCHANGED text
    BY <1>3 DEF ExtractAndChunk
  <2>2. Tokens[file] \in Nat /\ ChunkSetting(cfg.chunk)
    BY DocumentAssumption DEF InputInv, ChunkSetting
  <2>3. Slices(text'.windows, Tokens[file])
    <3>1. CASE text'.windows = Windows(Tokens[file], cfg.chunk)  BY <3>1, <2>2, WindowsOfText
    <3> QED  BY <2>0, <3>1 DEF ChunkInv
  <2>4. got'.chunks = {}  BY <2>1 DEF ChunkInv
  <2> QED  BY <2>1, <2>3, <2>4 DEF ChunkInv
<1>4. CASE Retry
  <2>1. UNCHANGED <<text, file, got, pc>>  BY <1>4 DEF Retry, input
  <2> QED  BY <2>1, <1>1
<1>5. CASE Embed
  <2>1. PICK ok \in BOOLEAN : got' = [got EXCEPT !.vectors = ok]  BY <1>5, Zenon DEF Embed
  <2>2. got'.chunks = got.chunks  BY <2>1 DEF InputInv, Supplied
  <2>3. pc' \in {"upsert", "query"} /\ UNCHANGED <<text, file>>
    BY <1>5, Zenon DEF Embed, Begin, input
  <2> QED  BY <2>2, <2>3, <1>1
<1>6. CASE Upsert
  <2>1. \/ UNCHANGED got
        \/ \E kept \in SUBSET AllChunks :
              got' = [got EXCEPT !.stored = TRUE, !.chunks = kept]
    <3>1. AllChunks \in SUBSET AllChunks  OBVIOUS
    <3>2. \A kept \in SUBSET AllChunks \ {{}} : kept \in SUBSET AllChunks  OBVIOUS
    <3> QED  BY <1>6, <3>1, <3>2, Zenon DEF Upsert
  <2>2. got'.chunks \subseteq AllChunks  BY <2>1, Zenon DEF InputInv, Supplied, ChunkInv
  <2>3. pc' = "query" /\ UNCHANGED <<text, file>>
    BY <1>6, Zenon DEF Upsert, Begin, input
  <2> QED  BY <2>2, <2>3 DEF ChunkInv, AllChunks
<1>7. CASE EmbedQuery
  <2>1. PICK ok \in BOOLEAN : got' = [got EXCEPT !.query = ok]  BY <1>7, Zenon DEF EmbedQuery
  <2>2. got'.chunks = got.chunks  BY <2>1 DEF InputInv, Supplied
  <2>3. pc' \in {"read", "score"} /\ UNCHANGED <<text, file>>
    BY <1>7, Zenon DEF EmbedQuery, Begin, input
  <2> QED  BY <2>2, <2>3, <1>1
<1>8. CASE ReadChunks
  <2>1. got' = got \/ got' = [got EXCEPT !.chunks = {}]  BY <1>8, Zenon DEF ReadChunks
  <2>2. got'.chunks \in {got.chunks, {}}  BY <2>1 DEF InputInv, Supplied
  <2>3. pc' \in {"siblings", "score"} /\ UNCHANGED <<text, file>>
    BY <1>8, Zenon DEF ReadChunks, Begin, input
  <2> QED  BY <2>2, <2>3, <1>1
<1>9. CASE FindSiblings
  <2>1. got' = got \/ got' = [got EXCEPT !.nearest = Near]  BY <1>9, Zenon DEF FindSiblings, Near
  <2>2. got'.chunks = got.chunks  BY <2>1 DEF InputInv, Supplied
  <2>3. pc' = "score" /\ UNCHANGED <<text, file>>
    BY <1>9, Zenon DEF FindSiblings, Begin, input
  <2> QED  BY <2>2, <2>3, <1>1
<1>10. CASE Score \/ Judge \/ SummariseWhole \/ SummariseBatch \/ Timeout
  <2>1. UNCHANGED <<text, file, got>>
    BY <1>10, Zenon DEF Score, Judge, SummariseWhole, SummariseBatch, Timeout, input
  <2>2. pc' \notin {"fetch", "body", "extract"}
    BY <1>10, SummariseGoes, BatchGoes
       DEF Score, Judge, SummariseWhole, SummariseBatch, Timeout, Begin, Finish, Reply
  <2> QED  BY <2>1, <2>2, <1>1
<1>11. CASE UNCHANGED vars
  <2>1. UNCHANGED <<text, file, got, pc>>  BY <1>11 DEF vars, input
  <2> QED  BY <2>1, <1>1
<1> QED
  BY <1>2, <1>3, <1>4, <1>5, <1>6, <1>7, <1>8, <1>9, <1>10, <1>11 DEF Next, Work

LEMMA CombinedIs ==
  ASSUME InputInv, ChunkInv
  PROVE  /\ Combined \in Seq(Nat) /\ ToSet(Combined) \ Newline = Given
         /\ Given \subseteq 1..Tokens[file]
<1>1. got.chunks \in SUBSET (1..Len(text.windows))  BY DEF ChunkInv, AllChunks
<1>2. Slices(text.windows, Tokens[file])  BY DEF ChunkInv
<1>3. Combined \in Seq(Nat) /\ ToSet(Combined) \ Newline = Given
  BY <1>1, <1>2, JoinedIs DEF Combined, Given
<1>4. ASSUME NEW i \in got.chunks PROVE TokensOf(text.windows[i]) \subseteq 1..Tokens[file]
  <2> DEFINE a == text.windows[i].from
             b == text.windows[i].to
             total == Tokens[file]
  <2>0. total \in Nat  BY DocumentAssumption DEF InputInv
  <2>1. a \in Nat /\ b \in Nat /\ b <= total  BY <1>1, <1>2 DEF Slices
  <2>2. TokensOf(text.windows[i]) = (a + 1)..b  BY DEF TokensOf
  <2> HIDE DEF a, b, total
  <2>3. \A x \in (a + 1)..b : x \in 1..total  BY <2>0, <2>1
  <2> QED  BY <2>2, <2>3 DEF total
<1> QED  BY <1>3, <1>4 DEF Given

(* Every token of the chunks in hand is heard or lost by the call that      *)
(* writes the summary; none is before the summary, and in between those of  *)
(* the batches so far.  Nothing is lost as long as each gave a phrase.      *)
HeardInv ==
    /\ pc \in Unscored \cup Scored
    /\ pc \in Unscored \cup {"judge", "single"} => heard = {} /\ lost = {} /\ phrases = 0
    /\ pc = "map" => /\ batch \in Nat \ {0}
                     /\ (batch - 1) * BatchSize < Len(Combined)
                     /\ heard \cup lost = First(Combined, Upto(Combined, batch - 1)) \ Newline
                     /\ phrases \in 0..(batch - 1)
                     /\ phrases = batch - 1 => lost = {}
    /\ pc = "reduce" => heard \cup lost = Given /\ (phrases = batch => lost = {})
    /\ heard \cup lost \subseteq Given
    /\ pc # "done" => summary = "none"
    /\ summary = "llm" => heard \cup lost = Given /\ (phrases = batch => lost = {})

LEMMA HeardInit == Init => HeardInv
  BY DEF Init, HeardInv, Unscored

LEMMA FirstWithin ==
  ASSUME NEW s \in Seq(Nat), NEW b \in Nat
  PROVE  First(s, Upto(s, b)) \subseteq ToSet(s)
<1>1. Upto(s, b) \in Nat /\ Upto(s, b) <= Len(s)  BY UptoIs
<1> QED  BY <1>1 DEF First, ToSet

(* The first call of the summary.                                           *)
LEMMA SummariseHears ==
  ASSUME InputInv, ChunkInv, HeardInv, pc \in {"score", "judge"}, Summarise,
         UNCHANGED <<text, got>>
  PROVE  HeardInv'
<1> DEFINE s == Combined
<1>1. s \in Seq(Nat)  BY CombinedIs
<1>2. UNCHANGED <<Given, Combined>>  BY DEF Given, Combined
<1>3. heard = {} /\ lost = {} /\ phrases = 0 /\ summary = "none"
  BY DEF HeardInv, Unscored
<1>4. CASE Finish("standin") /\ UNCHANGED writing
  <2>1. pc' = "done" /\ summary' = "standin" /\ heard' = {} /\ lost' = {}
    BY <1>3, <1>4 DEF Finish, Reply, Begin, writing
  <2> QED  BY <2>1 DEF HeardInv, Unscored, Scored
<1>5. CASE Begin("single") /\ UNCHANGED <<writing, reply>>
  <2>1. /\ pc' = "single" /\ summary' = "none"
        /\ heard' = {} /\ lost' = {} /\ phrases' = 0
    BY <1>3, <1>5 DEF Begin, reply, writing
  <2> QED  BY <2>1 DEF HeardInv, Unscored, Scored
<1>6. CASE /\ Len(s) > SinglePass /\ Begin("map") /\ batch' = 1
           /\ UNCHANGED <<phrases, heard, lost, reply>>
  <2>1. /\ pc' = "map" /\ batch' = 1 /\ summary' = "none"
        /\ heard' = {} /\ lost' = {} /\ phrases' = 0
    BY <1>3, <1>6 DEF Begin, reply
  <2>2. 0 * BatchSize = 0 /\ Len(s) \in Nat /\ 0 < Len(s)
    BY <1>1, <1>6, DocumentAssumption
  <2>3. First(s, Upto(s, 0)) = {}
    <3>1. 1..0 = {}  OBVIOUS
    <3>2. 0 \in Nat /\ 0 * BatchSize <= Len(s)  BY <2>2
    <3>3. Upto(s, 0) = 0 * BatchSize  BY <1>1, <3>2, UptoIs
    <3> QED  BY <2>2, <3>1, <3>3 DEF First
  <2>4. batch' - 1 = 0 /\ batch' \in Nat \ {0} /\ phrases' \in 0..0  BY <2>1
  <2> HIDE DEF s
  <2>5. (batch' - 1) * BatchSize < Len(s)  BY <2>2, <2>4
  <2>6. heard' \cup lost' = First(s, Upto(s, batch' - 1)) \ Newline  BY <2>1, <2>3, <2>4
  <2> QED
    BY <1>2, <2>1, <2>4, <2>5, <2>6 DEF HeardInv, Unscored, Scored, s
<1> QED  BY <1>4, <1>5, <1>6 DEF Summarise

(* A batch's tokens are heard or lost.                                      *)
LEMMA BatchCounts ==
  ASSUME InputInv, ChunkInv, HeardInv, pc = "map", NEW kept \in BOOLEAN, AfterBatch(kept)
  PROVE  /\ heard' \cup lost' = First(Combined, Upto(Combined, batch)) \ Newline
         /\ heard' \cup lost' \subseteq Given
         /\ phrases' \in 0..batch
         /\ phrases' = batch => lost' = {}
<1> DEFINE s == Combined
           b == batch
           tokens == TokensIn(Batch(s, b))
<1>1. s \in Seq(Nat) /\ ToSet(s) \ Newline = Given /\ Len(s) \in Nat  BY CombinedIs
<1>2. /\ b \in Nat \ {0} /\ (b - 1) * BatchSize < Len(s)
      /\ heard \cup lost = First(s, Upto(s, b - 1)) \ Newline
      /\ phrases \in 0..(b - 1) /\ (phrases = b - 1 => lost = {})
  BY DEF HeardInv
<1>3. /\ phrases' = IF kept THEN phrases + 1 ELSE phrases
      /\ heard' = IF kept THEN heard \cup tokens ELSE heard
      /\ lost' = IF kept THEN lost ELSE lost \cup tokens
  BY DEF AfterBatch
<1>4. First(s, Upto(s, b - 1)) \cup ToSet(Batch(s, b)) = First(s, Upto(s, b))
  <2>1. b - 1 \in Nat /\ (b - 1) + 1 = b  BY <1>2
  <2>2. (b - 1) * BatchSize <= Len(s)
    <3>1. (b - 1) * BatchSize \in Nat  BY <1>1, <2>1, UptoIs
    <3> QED  BY <1>1, <1>2, <3>1
  <2>3. First(s, Upto(s, b - 1)) \cup ToSet(Batch(s, (b - 1) + 1))
          = First(s, Upto(s, (b - 1) + 1))
    <3> HIDE DEF s, b
    <3> QED  BY <1>1, <2>1, <2>2, NextBatch
  <2> QED  BY <2>1, <2>3
<1>5. First(s, Upto(s, b)) \subseteq ToSet(s)  BY <1>1, <1>2, FirstWithin
<1>6. heard' \cup lost' = heard \cup lost \cup tokens  BY <1>3
<1>7. heard' \cup lost' = First(s, Upto(s, b)) \ Newline
  BY <1>2, <1>4, <1>6 DEF TokensIn
<1>8. heard' \cup lost' \subseteq Given  BY <1>1, <1>5, <1>7
<1>9. phrases' \in 0..b /\ (phrases' = b => lost' = {})
  <2> HIDE DEF b, tokens
  <2>1. CASE kept  BY <1>2, <1>3, <2>1
  <2>2. CASE ~kept  BY <1>2, <1>3, <2>2
  <2> QED  BY <2>1, <2>2
<1> QED  BY <1>7, <1>8, <1>9

(* What comes after a batch.                                                *)
LEMMA AfterBatchHears ==
  ASSUME InputInv, ChunkInv, HeardInv, pc = "map", NEW kept \in BOOLEAN, AfterBatch(kept),
         UNCHANGED <<text, got>>
  PROVE  HeardInv'
<1> DEFINE s == Combined
           b == batch
<1>1. s \in Seq(Nat) /\ ToSet(s) \ Newline = Given /\ Len(s) \in Nat  BY CombinedIs
<1>2. UNCHANGED <<Given, Combined>>  BY DEF Given, Combined
<1>3. b \in Nat \ {0} /\ summary = "none"  BY DEF HeardInv
<1>4. /\ heard' \cup lost' = First(s, Upto(s, b)) \ Newline
      /\ heard' \cup lost' \subseteq Given
      /\ phrases' \in 0..b /\ (phrases' = b => lost' = {})
  BY BatchCounts
<1>5. b < Batches(s) <=> b * BatchSize < Len(s)  BY <1>1, <1>3, BatchesIs
<1>6. CASE b < Batches(s) /\ Begin("map") /\ batch' = b + 1 /\ UNCHANGED reply
  <2>1. pc' = "map" /\ batch' = b + 1 /\ summary' = "none"
    BY <1>3, <1>6 DEF Begin, reply
  <2>2. batch' \in Nat \ {0} /\ batch' - 1 = b  BY <1>3, <2>1
  <2>3. (batch' - 1) * BatchSize < Len(s)  BY <1>5, <1>6, <2>2
  <2> HIDE DEF s, b
  <2> QED
    BY <1>2, <1>4, <2>1, <2>2, <2>3 DEF HeardInv, Unscored, Scored, s
<1>7. CASE /\ b >= Batches(s) /\ UNCHANGED batch
           /\ (Begin("reduce") /\ UNCHANGED reply) \/ Finish("standin")
  <2>1. heard' \cup lost' = Given
    <3>1. b * BatchSize \in Nat /\ Len(s) <= b * BatchSize
      <4>1. b * BatchSize \in Nat  BY <1>1, <1>3, UptoIs
      <4>2. Batches(s) \in Int  BY <1>1, DocumentAssumption DEF Batches
      <4> QED  BY <1>1, <1>3, <1>5, <1>7, <4>1, <4>2
    <3>2. Upto(s, b) = Len(s)  BY <1>1, <1>3, <3>1, UptoIs
    <3> QED  BY <1>1, <1>4, <3>2, FirstAll
  <2>2. phrases' = batch' => lost' = {}  BY <1>4, <1>7
  <2>3. CASE Begin("reduce") /\ UNCHANGED reply
    BY <1>2, <1>3, <2>1, <2>2, <2>3 DEF Begin, reply, HeardInv, Unscored, Scored
  <2>4. CASE Finish("standin")
    BY <1>2, <1>3, <2>1, <2>4 DEF Finish, Reply, Begin, HeardInv, Unscored, Scored
  <2> QED  BY <1>7, <2>3, <2>4
<1> QED  BY <1>6, <1>7 DEF AfterBatch

(* One call that writes the summary.                                        *)
LEMMA WholeHears ==
  ASSUME InputInv, ChunkInv, HeardInv, SummariseWhole
  PROVE  HeardInv'
<1>1. /\ pc \in {"single", "reduce"} /\ pc' = "done"
      /\ UNCHANGED <<text, got, batch, phrases, lost>>
      /\ heard' = IF pc = "single" /\ summary' = "llm" THEN TokensIn(Combined) ELSE heard
  BY DEF SummariseWhole, Ended, Finish, Reply, Begin
<1>2. UNCHANGED Given  BY <1>1 DEF Given
<1>3. TokensIn(Combined) = Given  BY CombinedIs DEF TokensIn
<1>4. CASE pc = "single"
  <2>1. heard = {} /\ lost = {}  BY <1>4 DEF HeardInv
  <2> QED  BY <1>1, <1>2, <1>3, <1>4, <2>1 DEF HeardInv, Unscored, Scored
<1>5. CASE pc = "reduce"
  <2>1. heard' = heard  BY <1>1, <1>5
  <2> QED  BY <1>1, <1>2, <1>5, <2>1 DEF HeardInv, Unscored, Scored
<1> QED  BY <1>1, <1>4, <1>5

LEMMA HeardStep == InputInv /\ ChunkInv /\ HeardInv /\ [Next]_vars => HeardInv'
<1> SUFFICES ASSUME InputInv, ChunkInv, HeardInv, [Next]_vars PROVE HeardInv'
  OBVIOUS
<1>1. ASSUME UNCHANGED <<heard, lost, phrases, summary>>, pc \in Unscored,
             pc' \in Unscored \cup {"judge", "done"}
      PROVE  HeardInv'
  BY <1>1 DEF HeardInv, Unscored, Scored
<1>2. ASSUME UNCHANGED <<pc, text, got, batch, phrases, heard, lost, summary>>
      PROVE  HeardInv'
  <2>1. UNCHANGED <<Given, Combined>>  BY <1>2 DEF Given, Combined
  <2> QED  BY <1>2, <2>1 DEF HeardInv
<1>3. CASE Connect
  BY <1>3, <1>1 DEF Connect, Begin, Reply, writing, Unscored
<1>4. CASE Receive
  BY <1>4, <1>1 DEF Receive, Begin, Reply, writing, Unscored
<1>5. CASE ExtractAndChunk
  BY <1>5, <1>1 DEF ExtractAndChunk, Begin, Reply, writing, Unscored
<1>6. CASE Retry  BY <1>6, <1>2 DEF Retry, writing, reply
<1>7. CASE Embed
  BY <1>7, <1>1, Zenon DEF Embed, Ended, Begin, writing, reply, Unscored
<1>8. CASE Upsert
  BY <1>8, <1>1, Zenon DEF Upsert, Begin, writing, reply, Unscored
<1>9. CASE EmbedQuery
  BY <1>9, <1>1, Zenon DEF EmbedQuery, Ended, Begin, writing, reply, Unscored
<1>10. CASE ReadChunks \/ FindSiblings
  BY <1>10, <1>1, Zenon DEF ReadChunks, FindSiblings, Begin, writing, reply, Unscored
<1>11. CASE Score
  <2>1. pc = "score" /\ UNCHANGED <<text, got>>  BY <1>11 DEF Score
  <2>2. CASE Begin("judge") /\ UNCHANGED <<writing, reply>>
    BY <2>1, <2>2, <1>1 DEF Begin, writing, reply, Unscored
  <2>3. CASE Summarise  BY <2>1, <2>3, SummariseHears
  <2> QED  BY <1>11, <2>2, <2>3 DEF Score
<1>12. CASE Judge
  <2>1. pc = "judge" /\ Summarise /\ UNCHANGED <<text, got>>  BY <1>12 DEF Judge, Ended
  <2> QED  BY <2>1, SummariseHears
<1>13. CASE SummariseWhole  BY <1>13, WholeHears
<1>14. CASE SummariseBatch
  <2>1. pc = "map" /\ UNCHANGED <<text, got>>  BY <1>14 DEF SummariseBatch, Ended
  <2>2. CASE \E kept \in BOOLEAN : AfterBatch(kept)  BY <2>1, <2>2, AfterBatchHears
  <2>3. CASE Reply("fallback") /\ UNCHANGED <<writing, summary>>
    <3>1. UNCHANGED Given  BY <2>1 DEF Given
    <3>2. /\ pc' = "done" /\ summary' = "none" /\ UNCHANGED <<heard, lost>>
          /\ heard \cup lost \subseteq Given
      BY <2>1, <2>3 DEF Reply, Begin, writing, HeardInv
    <3> QED  BY <3>1, <3>2 DEF HeardInv, Unscored, Scored
  <2> QED  BY <1>14, <2>2, <2>3 DEF SummariseBatch
<1>15. CASE Timeout
  <2>1. /\ pc' = "done" /\ UNCHANGED <<text, got, heard, lost, summary>> /\ pc # "done"
    BY <1>15 DEF Timeout, writing, Pipeline, OpenAICalls
  <2>2. UNCHANGED Given  BY <2>1 DEF Given
  <2> QED  BY <2>1, <2>2 DEF HeardInv, Unscored, Scored
<1>16. CASE UNCHANGED vars
  BY <1>16, <1>2 DEF vars, writing, reply
<1> QED
  BY <1>3, <1>4, <1>5, <1>6, <1>7, <1>8, <1>9, <1>10, <1>11, <1>12, <1>13, <1>14,
     <1>15, <1>16 DEF Next, Work

(* A summary by the LLM accounts for the whole document: every token that   *)
(* was neither cut by the chunk limit nor lost by Weaviate is behind it, or *)
(* was in a batch that gave no phrase, and none is lost if every batch gave *)
(* one, whatever the text's length and the batch size.                      *)
THEOREM SummaryTheorem == Spec => []SummaryCoversDocument
<1>1. HeardInv => SummaryCoversDocument
  BY Zenon DEF HeardInv, SummaryCoversDocument, Given, TokensOf
<1> QED
  BY InputInit, InputStep, ChunkInit, ChunkStep, HeardInit, HeardStep, <1>1, PTL DEF Spec

-----------------------------------------------------------------------------
(* Types.                                                                   *)

Verdicts == [status : Statuses, score : 0..100]

(* What the other invariants leave open.                                    *)
RestInv ==
    /\ attempt \in 1..MaxAttempts
    /\ received <= MaxBlocks + 1
    /\ batch \in Nat /\ phrases \in Nat
    /\ computed \in Results /\ verdict \in Verdicts
    /\ judge \in {"none", "replied", "failed"}
    /\ summary \in {"none", "standin", "llm", "None"}
    /\ answer \in {"none", "502", "fallback", "degraded", "full"}

LEMMA RestInit == Init => RestInv
<1> SUFFICES ASSUME Init PROVE RestInv
  OBVIOUS
<1>1. computed = [status |-> "Under Review", score |-> 0, judge |-> FALSE]
  BY Zenon DEF Init, NoResult
<1>2. verdict = [status |-> "Under Review", score |-> 50]  BY Zenon DEF Init, NoVerdict
<1>3. computed \in Results /\ verdict \in Verdicts
  <2>1. "Under Review" \in Statuses  BY DEF Statuses
  <2>2. 0 \in 0..100 /\ 50 \in 0..100  OBVIOUS
  <2>3. computed \in Results  BY <1>1, <2>1, <2>2, Zenon DEF Results
  <2>4. verdict \in Verdicts  BY <1>2, <2>1, <2>2, Zenon DEF Verdicts
  <2> QED  BY <2>3, <2>4
<1>4. attempt \in 1..MaxAttempts /\ received <= MaxBlocks + 1
  BY DocumentAssumption DEF Init
<1> QED  BY <1>3, <1>4 DEF Init, RestInv

(* A call begins with its first attempt.                                    *)
LEMMA BeginAttempts ==
  ASSUME NEW p, Begin(p)
  PROVE  attempt' \in 1..MaxAttempts
  BY DocumentAssumption DEF Begin

LEMMA SummariseTypes ==
  ASSUME RestInv, Summarise
  PROVE  /\ attempt' \in 1..MaxAttempts /\ batch' \in Nat /\ phrases' \in Nat
         /\ summary' \in {"none", "standin", "llm", "None"}
         /\ answer' \in {"none", "502", "fallback", "degraded", "full"}
<1>1. PICK p : Begin(p)  BY SummariseBegins
<1>2. attempt' \in 1..MaxAttempts  BY <1>1, BeginAttempts
<1>3. batch' \in Nat /\ phrases' \in Nat  BY DEF Summarise, RestInv, writing
<1>4. /\ summary' \in {"none", "standin", "llm", "None"}
      /\ answer' \in {"none", "502", "fallback", "degraded", "full"}
  BY DEF Summarise, RestInv, Finish, Reply, reply
<1> QED  BY <1>2, <1>3, <1>4

(* The judge's score is clamped.                                            *)
LEMMA JudgedScoreRange ==
  ASSUME NEW score \in 0..100, NEW said \in SUBSET Int
  PROVE  JudgedScore(score, said) \in 0..100
<1>1. CASE said = {}  BY <1>1 DEF JudgedScore
<1>2. CASE said # {}
  <2> DEFINE n == CHOOSE x \in said : TRUE
  <2>1. n \in Int  BY <1>2
  <2>2. JudgedScore(score, said) = Clamp(0, n, 100)  BY <1>2 DEF JudgedScore
  <2> HIDE DEF n
  <2> QED  BY <2>1, <2>2 DEF Clamp
<1> QED  BY <1>1, <1>2

LEMMA RestStep == InputInv /\ VerdictInv /\ BlockInv /\ RestInv /\ [Next]_vars => RestInv'
<1> SUFFICES ASSUME InputInv, VerdictInv, BlockInv, RestInv, [Next]_vars PROVE RestInv'
  OBVIOUS
<1>1. ASSUME NEW p, Begin(p), received' <= MaxBlocks + 1,
             UNCHANGED <<batch, phrases, computed, verdict, judge, summary>>,
             UNCHANGED answer \/ answer' \in {"502", "fallback"}
      PROVE  RestInv'
  BY <1>1, BeginAttempts DEF RestInv
<1>2. CASE Connect
  BY <1>2, <1>1 DEF Connect, Reply, scoring, writing, RestInv
<1>3. CASE Receive
  <2>1. UNCHANGED <<batch, phrases, computed, verdict, judge, summary>> /\ pc = "body"
    BY <1>3 DEF Receive, scoring, writing
  <2>2. received \in Nat /\ received <= MaxBlocks /\ MaxBlocks \in Nat
    BY <2>1, DocumentAssumption DEF BlockInv
  <2>3. received' <= MaxBlocks + 1
    <3>1. received' \in {received, received + 1}  BY <1>3 DEF Receive
    <3> QED  BY <2>2, <3>1
  <2>4. \E p : Begin(p) /\ (UNCHANGED answer \/ answer' = "502")
    BY <1>3, Zenon DEF Receive, Reply
  <2> QED  BY <2>1, <2>3, <2>4, <1>1
<1>4. CASE ExtractAndChunk
  <2>1. \E p : Begin(p) /\ (UNCHANGED answer \/ answer' = "fallback")
    BY <1>4, Zenon DEF ExtractAndChunk, Reply
  <2> QED  BY <1>4, <2>1, <1>1 DEF ExtractAndChunk, scoring, writing, RestInv
<1>5. CASE Retry
  <2>1. attempt' \in 1..MaxAttempts
    BY <1>5, DocumentAssumption DEF Retry, RestInv
  <2> QED  BY <1>5, <2>1 DEF Retry, scoring, writing, reply, RestInv
<1>6. CASE Embed \/ Upsert \/ EmbedQuery \/ ReadChunks \/ FindSiblings
  <2>1. \E p : Begin(p)
    BY <1>6, Zenon DEF Embed, Upsert, EmbedQuery, ReadChunks, FindSiblings
  <2>2. UNCHANGED <<received, batch, phrases, computed, verdict, judge, summary, answer>>
    BY <1>6, Zenon DEF Embed, Upsert, EmbedQuery, ReadChunks, FindSiblings, scoring, writing, reply
  <2> QED  BY <2>1, <2>2, <1>1 DEF RestInv
<1>7. CASE Score
  <2>1. PICK r \in Outcomes :
          /\ computed' = r
          /\ verdict' = [status |-> r.status, score |-> r.score]
          /\ IF r.judge /\ cfg.key
             THEN Begin("judge") /\ UNCHANGED <<writing, reply>>
             ELSE Summarise
    BY <1>7 DEF Score
  <2>2. UNCHANGED <<received, judge>>  BY <1>7 DEF Score
  <2>3. computed' \in Results /\ verdict' \in Verdicts
    BY <2>1, OutcomesTyped DEF Verdicts
  <2>4. CASE Begin("judge") /\ UNCHANGED <<writing, reply>>
    BY <2>2, <2>3, <2>4, BeginAttempts DEF writing, reply, RestInv
  <2>5. CASE Summarise
    BY <2>2, <2>3, <2>5, SummariseTypes DEF RestInv
  <2> QED  BY <2>1, <2>4, <2>5
<1>8. CASE Judge
  <2>1. PICK ok \in BOOLEAN, r \in JudgeReplies :
          /\ judge' = IF ok THEN "replied" ELSE "failed"
          /\ verdict' =
               [status |-> NormalizeStatus(IF ok THEN r.words ELSE WordsOf(computed.status)),
                score  |-> JudgedScore(computed.score, IF ok THEN r.score ELSE {computed.score})]
    BY <1>8 DEF Judge
  <2>2. Summarise /\ UNCHANGED <<received, computed>>  BY <1>8 DEF Judge
  <2>3. JudgedScore(computed.score, IF ok THEN r.score ELSE {computed.score}) \in 0..100
    <3> DEFINE said == IF ok THEN r.score ELSE {computed.score}
    <3>1. said \in SUBSET Int  BY DocumentAssumption DEF VerdictInv
    <3>2. JudgedScore(computed.score, said) \in 0..100
      <4> HIDE DEF said
      <4> QED  BY <3>1, JudgedScoreRange DEF VerdictInv
    <3> QED  BY <3>2
  <2>4. \A words : NormalizeStatus(words) \in Statuses
    BY Zenon DEF NormalizeStatus, Statuses
  <2>6. verdict' \in Verdicts  BY <2>1, <2>3, <2>4 DEF Verdicts
  <2>5. judge' \in {"replied", "failed"}  BY <2>1
  <2> QED  BY <2>2, <2>5, <2>6, SummariseTypes DEF RestInv
<1>9. CASE SummariseWhole
  <2>1. summary' \in {"standin", "llm", "None"} /\ answer' \in {"degraded", "full"}
    BY <1>9 DEF SummariseWhole, Finish, Reply, Written
  <2>2. Begin("done")  BY <1>9 DEF SummariseWhole, Finish, Reply
  <2>3. UNCHANGED <<received, batch, phrases, computed, verdict, judge>>
    BY <1>9 DEF SummariseWhole, scoring
  <2> QED  BY <2>1, <2>2, <2>3, BeginAttempts DEF RestInv
<1>10. CASE SummariseBatch
  <2>1. UNCHANGED <<received, computed, verdict, judge>>  BY <1>10 DEF SummariseBatch, scoring
  <2>2. ASSUME NEW kept \in BOOLEAN, AfterBatch(kept) PROVE RestInv'
    <3>1. PICK p : Begin(p)  BY <2>2, AfterBatchBegins
    <3>2. attempt' \in 1..MaxAttempts  BY <3>1, BeginAttempts
    <3>3. batch' \in Nat /\ phrases' \in Nat
      BY <2>2 DEF AfterBatch, RestInv
    <3>4. /\ summary' \in {"none", "standin", "llm", "None"}
          /\ answer' \in {"none", "502", "fallback", "degraded", "full"}
      BY <2>2 DEF AfterBatch, RestInv, Finish, Reply, reply
    <3> QED  BY <2>1, <3>2, <3>3, <3>4 DEF RestInv
  <2>3. CASE \E kept \in BOOLEAN : AfterBatch(kept)  BY <2>2, <2>3
  <2>5. CASE Reply("fallback") /\ UNCHANGED <<writing, summary>>
    BY <2>1, <2>5, BeginAttempts DEF Reply, writing, RestInv
  <2> QED  BY <1>10, <2>3, <2>5, Zenon DEF SummariseBatch
<1>11. CASE Timeout
  BY <1>11 DEF Timeout, metering, scoring, writing, RestInv
<1>12. CASE UNCHANGED vars
  BY <1>12 DEF vars, metering, scoring, writing, reply, RestInv
<1> QED
  BY <1>2, <1>3, <1>4, <1>5, <1>6, <1>7, <1>8, <1>9, <1>10, <1>11, <1>12 DEF Next, Work

(* A slice is from one position to another.                                 *)
LEMMA SlicesTyped ==
  ASSUME NEW w, NEW total, Slices(w, total)
  PROVE  w \in Seq([from : Nat, to : Nat])
<1>1. w \in Seq(Span)  BY DEF Slices
<1>2. ASSUME NEW i \in 1..Len(w) PROVE w[i] \in [from : Nat, to : Nat]
  <2>1. w[i] \in Span  BY <1>1
  <2>2. w[i].from \in Nat /\ w[i].to \in Nat  BY DEF Slices
  <2> QED  BY <2>1, <2>2 DEF Span
<1> DEFINE T == [from : Nat, to : Nat]
<1>3. Len(w) \in Nat /\ w \in [1..Len(w) -> T]
  <2>1. Len(w) \in Nat /\ DOMAIN w = 1..Len(w) /\ w = [i \in 1..Len(w) |-> w[i]]
    BY <1>1
  <2> HIDE DEF T
  <2> QED  BY <1>2, <2>1 DEF T
<1> HIDE DEF T
<1>4. w \in Seq(T)  BY <1>3
<1> QED  BY <1>4 DEF T

(* Every variable of a call has its type, what the dependencies supplied    *)
(* and the windows included; a score, the judge's too, is of 0..100, and a  *)
(* summary rests on tokens of the file alone.                               *)
THEOREM TypeTheorem == Spec => []TypeOK
<1>1. InputInv /\ LogInv /\ VerdictInv /\ BlockInv /\ ChunkInv /\ HeardInv /\ RestInv => TypeOK
  <2> SUFFICES ASSUME InputInv, LogInv, VerdictInv, BlockInv, ChunkInv, HeardInv, RestInv
               PROVE  TypeOK
    OBVIOUS
  <2>1. pc \in Pipeline \cup {"fetch", "body", "done"}
    BY DEF HeardInv, Unscored, Scored, Pipeline, OpenAICalls
  <2>2. received \in 0..(MaxBlocks + 1)
    BY DocumentAssumption DEF BlockInv, RestInv
  <2>3. heard \cup lost \subseteq 1..Tokens[file]
    <3>1. Given \subseteq 1..Tokens[file]  BY CombinedIs
    <3> QED  BY <3>1 DEF HeardInv
  <2>4. {calls, rows, unlogged, batch, phrases} \subseteq Nat  BY DEF LogInv, RestInv
  <2>5. text.windows \in Seq([from : Nat, to : Nat])  BY SlicesTyped DEF ChunkInv
  <2>6. got \in [vectors : BOOLEAN, stored : BOOLEAN, query : BOOLEAN,
                 chunks : SUBSET AllChunks, nearest : SUBSET Int]
    <3>1. got \in Supplied /\ got.chunks \in SUBSET AllChunks  BY DEF InputInv, ChunkInv
    <3> QED  BY <3>1 DEF Supplied
  <2>7. /\ computed \in [status : Statuses, score : 0..100, judge : BOOLEAN]
        /\ verdict \in [status : Statuses, score : 0..100]
    BY DEF RestInv, Results, Verdicts
  <2> QED
    BY <2>1, <2>2, <2>3, <2>4, <2>5, <2>6, <2>7, Zenon DEF TypeOK, InputInv, RestInv
<1> QED
  BY InputInit, InputStep, LogInit, LogStep, VerdictInit, VerdictStep, BlockInit, BlockStep,
     ChunkInit, ChunkStep, HeardInit, HeardStep, RestInit, RestStep, <1>1, PTL DEF Spec
=============================================================================

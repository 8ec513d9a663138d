------------------------------ MODULE Document ------------------------------
(***************************************************************************)
(* How one call of /analyze arrives at its verdict, after a cache miss:    *)
(* the download, the text, the OpenAI calls with their retries and their   *)
(* rows in the call log, the signals, the score, the judge and the         *)
(* summary.  What becomes of the verdict in the stores, and how calls      *)
(* interleave, is Analyze's; here the call is alone.                       *)
(***************************************************************************)
EXTENDS Ingest, Scoring

CONSTANTS
    Files,          \* the files a URL may serve, with their size in blocks
    MaxBlocks,      \* MAX_BYTES, in blocks
    Tokens,         \* [Files -> Nat]: how many tokens the extracted text encodes to
    Configs,        \* bands, judge band, API key and chunk settings
    Cosines,        \* cosines of the plan with the document
    NameCosines,    \* cosines of the plan with the file name
    Siblings,       \* the nearest sibling's true distance: {} or {d}
    JudgeReplies,   \* [words, score]
    MaxAttempts,    \* stop_after_attempt
    SinglePass,     \* _SINGLE_PASS_CHARS, in characters; a token has one
    BatchSize,      \* _BATCH_CHARS
    Faults          \* the failures the environment may inject

Dependencies == {"http", "openai", "weaviate", "mongo", "timeout"}

ASSUME DocumentAssumption ==
    /\ MaxBlocks \in Nat /\ MaxAttempts \in Nat \ {0}
    /\ SinglePass \in Nat /\ BatchSize \in Nat \ {0}
    /\ Tokens \in [Files -> Nat]
    /\ \A f \in Files : Tokens[f] = 0 <=> Extract(f.data).chars = 0
    /\ \A f \in Files : Extract(f.data).chars \in Nat
    /\ Cosines \subseteq Int /\ NameCosines \subseteq Int
    /\ \A r \in JudgeReplies : r.score \subseteq Int
    /\ \A near \in Siblings : near \subseteq Int
    /\ \A c \in Configs : {c.inSync, c.reviewing, c.judgeLow, c.judgeHigh} \subseteq Nat
    /\ \A c \in Configs : /\ c.chunk.size \in Nat \ {0}
                          /\ {c.chunk.overlap, c.chunk.max} \subseteq Nat
    /\ Faults \subseteq Dependencies

VARIABLES
    pc,         \* where the call is
    file,       \* what the URL serves
    cfg,        \* the settings
    truth,      \* what the vectors would say of the document
    received,   \* blocks downloaded
    text,       \* extraction and windows
    got,        \* what the dependencies have supplied
    attempt,    \* attempt number of the OpenAI call in flight
    calls,      \* OpenAI calls begun
    rows,       \* rows in ai_call_log
    unlogged,   \* rows that MongoDB did not take
    computed,   \* what compute() returned
    verdict,    \* status and score, after the judge
    judge,      \* what became of the judge
    batch,      \* the map phase's batch in flight
    phrases,    \* how many batches have a phrase
    heard,      \* tokens of the document behind the summary, or behind its phrases
    lost,       \* tokens of the batches that have no phrase
    summary,    \* where the summary's text comes from
    answer      \* what the caller was told

input    == <<file, cfg, truth>>
metering == <<attempt, calls, rows, unlogged>>
scoring  == <<computed, verdict, judge>>
writing  == <<batch, phrases, heard, lost>>
reply    == <<summary, answer>>
vars     == <<pc, input, received, text, got, metering, scoring, writing, reply>>

OpenAICalls == {"embed", "query", "judge", "single", "map", "reduce"}
Pipeline    == OpenAICalls \cup {"extract", "upsert", "read", "siblings", "score"}

NoText   == [quality |-> NoExtraction, windows |-> <<>>]
NoVerdict == [status |-> "Under Review", score |-> 50]
NoResult == [status |-> "Under Review", score |-> 0, judge |-> FALSE]

Init ==
    /\ pc = "fetch"
    /\ file \in Files
    /\ cfg \in Configs
    /\ truth \in [content : Cosines, name : NameCosines, siblings : Siblings]
    /\ received = 0
    /\ text = NoText
    /\ got = [vectors |-> FALSE, stored |-> FALSE, query |-> FALSE, chunks |-> {},
              nearest |-> {}]
    /\ attempt = 1 /\ calls = 0 /\ rows = 0 /\ unlogged = 0
    /\ computed = NoResult /\ verdict = NoVerdict /\ judge = "none"
    /\ batch = 0 /\ phrases = 0 /\ heard = {} /\ lost = {}
    /\ summary = "none" /\ answer = "none"

-----------------------------------------------------------------------------
(* Helpers.                                                                 *)

Fails(kind) == kind \in Faults

(* Go on at p; an OpenAI call begins with its first attempt.                *)
Begin(p) ==
    /\ pc' = p
    /\ attempt' = 1
    /\ calls' = IF p \in OpenAICalls THEN calls + 1 ELSE calls

Reply(kind) == Begin("done") /\ answer' = kind

(* calllog.append: a row MongoDB does not take is dropped.                  *)
Log ==
    \/ rows' = rows + 1 /\ UNCHANGED unlogged
    \/ Fails("mongo") /\ unlogged' = unlogged + 1 /\ UNCHANGED rows

(* Mutant of Ended: a failed call leaves no row.                            *)
EndedSilently(p, ok) ==
    /\ pc = p
    /\ IF ok THEN cfg.key /\ Log ELSE Fails("openai") /\ UNCHANGED <<rows, unlogged>>

(* The OpenAI call p ends: it is answered, or raises after its last attempt *)
(* or on an error that is not retried, or its reply is no JSON.  It leaves  *)
(* one row either way.                                                      *)
Ended(p, ok) ==
    /\ pc = p
    /\ IF ok THEN cfg.key ELSE Fails("openai") \/ ~cfg.key
    /\ Log

AllChunks == 1..Len(text.windows)
HasChunks == text.windows # <<>>

(* embed_failed or weaviate_failed.                                         *)
Degraded == HasChunks /\ ~got.stored

Centroid == got.chunks # {}

-----------------------------------------------------------------------------
(* Download.                                                                *)

(* The response's status and type are looked at before its body.            *)
Connect ==
    /\ pc = "fetch"
    /\ \/ Begin("body") /\ UNCHANGED answer
       \/ Fails("http") /\ Reply("502")
    /\ UNCHANGED <<input, received, text, got, rows, unlogged, scoring, writing, summary>>

(* Mutant of Receive: reading stops at the cap.                             *)
ReceiveUpToCap ==
    /\ pc = "body"
    /\ IF received < Least(file.size, MaxBlocks)
       THEN received' = received + 1 /\ Begin("body") /\ UNCHANGED answer
       ELSE Begin("extract") /\ UNCHANGED <<received, answer>>
    /\ UNCHANGED <<input, text, got, rows, unlogged, scoring, writing, summary>>

(* A block is counted before it is kept; more than the cap is a             *)
(* FetchSizeError, a broken connection a FetchError.                        *)
Receive ==
    /\ pc = "body"
    /\ \/ /\ received < file.size
          /\ received' = received + 1
          /\ IF received' > MaxBlocks THEN Reply("502") ELSE Begin("body") /\ UNCHANGED answer
       \/ /\ received = file.size
          /\ Begin("extract")
          /\ UNCHANGED <<received, answer>>
       \/ /\ Fails("http")
          /\ Reply("502")
          /\ UNCHANGED received
    /\ UNCHANGED <<input, text, got, rows, unlogged, scoring, writing, summary>>

-----------------------------------------------------------------------------
(* Steps 4 to 7: extract, chunk, embed, upsert.                             *)

(* The encoder raises on a text that spells one of its special tokens.      *)
ExtractAndChunk ==
    /\ pc = "extract"
    /\ \/ /\ text' = [quality |-> Extract(file.data),
                      windows |-> Windows(Tokens[file], cfg.chunk)]
          /\ Begin(IF text'.windows # <<>> THEN "embed" ELSE "query")
          /\ UNCHANGED answer
       \/ Tokens[file] > 0 /\ Reply("fallback") /\ UNCHANGED text
    /\ UNCHANGED <<input, received, got, rows, unlogged, scoring, writing, summary>>

(* Mutant of Retry: the attempts are not limited.                           *)
RetryForever ==
    /\ pc \in OpenAICalls
    /\ Fails("openai") \/ ~cfg.key
    /\ attempt' = (attempt % MaxAttempts) + 1
    /\ UNCHANGED <<pc, input, received, text, got, calls, rows, unlogged, scoring,
                   writing, reply>>

(* Any error status, a rate limit or a lost connection: back off, try again. *)
Retry ==
    /\ pc \in OpenAICalls
    /\ Fails("openai") \/ ~cfg.key
    /\ attempt < MaxAttempts
    /\ attempt' = attempt + 1
    /\ UNCHANGED <<pc, input, received, text, got, calls, rows, unlogged, scoring,
                   writing, reply>>

Embed ==
    /\ \E ok \in BOOLEAN :
        /\ Ended("embed", ok)
        /\ got' = [got EXCEPT !.vectors = ok]
        /\ Begin(IF ok THEN "upsert" ELSE "query")
    /\ UNCHANGED <<input, received, text, scoring, writing, reply>>

(* All objects are stored, or some, or insert_many raises.                  *)
Upsert ==
    /\ pc = "upsert"
    /\ \/ got' = [got EXCEPT !.stored = TRUE, !.chunks = AllChunks]
       \/ /\ Fails("weaviate")
          /\ \E kept \in SUBSET AllChunks \ {{}} :
                got' = [got EXCEPT !.stored = TRUE, !.chunks = kept]
       \/ Fails("weaviate") /\ UNCHANGED got
    /\ Begin("query")
    /\ UNCHANGED <<input, received, text, rows, unlogged, scoring, writing, reply>>

-----------------------------------------------------------------------------
(* Step 8: the signals, the score, the judge.                               *)

EmbedQuery ==
    /\ \E ok \in BOOLEAN :
        /\ Ended("query", ok)
        /\ got' = [got EXCEPT !.query = ok]
        /\ Begin(IF got.stored THEN "read" ELSE "score")
    /\ UNCHANGED <<input, received, text, scoring, writing, reply>>

(* What was stored is read back, or nothing is.                             *)
ReadChunks ==
    /\ pc = "read"
    /\ \/ Begin("siblings") /\ UNCHANGED got
       \/ Fails("weaviate") /\ Begin("score") /\ got' = [got EXCEPT !.chunks = {}]
    /\ UNCHANGED <<input, received, text, rows, unlogged, scoring, writing, reply>>

(* sibling_similarities: `dist or 1.0` takes a distance of 0.0 for none.    *)
Distance(d) == IF d = 0 THEN Unit ELSE d

FindSiblings ==
    /\ pc = "siblings"
    /\ \/ got' = [got EXCEPT !.nearest = {Distance(d) : d \in truth.siblings}]
       \/ Fails("weaviate") /\ UNCHANGED got
    /\ Begin("score")
    /\ UNCHANGED <<input, received, text, rows, unlogged, scoring, writing, reply>>

(* The signals, given the cosine of what was read back with the plan.       *)
Signals(content, quality) ==
    [content     |-> Alignment(Centroid /\ got.query, content),
     name        |-> Alignment(got.query, truth.name),
     quality     |-> quality,
     duplication |-> Duplication(got.nearest)]

(* Part of the chunks may have any centroid.                                *)
ContentCosines == IF got.chunks = AllChunks THEN {truth.content} ELSE Cosines

Outcomes == UNION {Compute(Signals(content, quality), text.quality, cfg) :
                      content \in ContentCosines, quality \in Qualities(text.quality)}

-----------------------------------------------------------------------------
(* Step 9: the summary.                                                     *)

Newline == {0}

(* The chunks kept of the windows, in order, each a sequence of token       *)
(* positions, joined by a newline.                                          *)
JoinedChunks(windows, kept) ==
    LET tokens(w) == [i \in 1..(w.to - w.from) |-> w.from + i]
        join(sofar, i) ==
            IF i \in kept
            THEN (IF sofar = <<>> THEN <<>> ELSE Append(sofar, 0)) \o tokens(windows[i])
            ELSE sofar
    IN FoldLeftDomain(join, <<>>, windows)

(* The text the summariser is given: the chunks read back.                  *)
Combined == JoinedChunks(text.windows, got.chunks)

(* Mutant of Batches: the rest that does not fill a batch is left out.      *)
FullBatches(s) == Len(s) \div BatchSize

Batches(s) == (Len(s) + BatchSize - 1) \div BatchSize

Batch(s, i) == SubSeq(s, (i - 1) * BatchSize + 1, Least(i * BatchSize, Len(s)))

TokensIn(s) == ToSet(s) \ Newline

(* The pipeline is over; Analyze has the steps that store the verdict.      *)
Finish(source) ==
    /\ summary' = source
    /\ Reply(IF Degraded THEN "degraded" ELSE "full")

(* one_liner, up to its first call: with no key or no text the stand-in.    *)
Summarise ==
    LET s == Combined IN
    \/ /\ ~cfg.key \/ s = <<>>
       /\ Finish("standin")
       /\ UNCHANGED writing
    \/ /\ cfg.key /\ s # <<>> /\ Len(s) <= SinglePass
       /\ Begin("single")
       /\ UNCHANGED <<writing, reply>>
    \/ /\ cfg.key /\ Len(s) > SinglePass
       /\ Begin("map")
       /\ batch' = 1
       /\ UNCHANGED <<phrases, heard, lost, reply>>

Score ==
    /\ pc = "score"
    /\ \E r \in Outcomes :
        /\ computed' = r
        /\ verdict' = [status |-> r.status, score |-> r.score]
        /\ IF r.judge /\ cfg.key
           THEN Begin("judge") /\ UNCHANGED <<writing, reply>>
           ELSE Summarise
    /\ UNCHANGED <<input, received, text, got, rows, unlogged, judge>>

(* A failed judge "replies" the computed verdict.  A score that is not a    *)
(* number is ignored, the status beside it is not.                          *)
Judge ==
    /\ \E ok \in BOOLEAN, r \in JudgeReplies :
        /\ Ended("judge", ok)
        /\ judge' = IF ok THEN "replied" ELSE "failed"
        /\ verdict' =
             [status |-> NormalizeStatus(IF ok THEN r.words ELSE WordsOf(computed.status)),
              score  |-> JudgedScore(computed.score, IF ok THEN r.score ELSE {computed.score})]
    /\ Summarise
    /\ UNCHANGED <<input, received, text, got, computed>>

(* The reply's text, blank, or null.  str(None) is the text "None".         *)
Written(content) ==
    CASE content = "text"  -> "llm"
      [] content = "blank" -> "standin"
      [] content = "null"  -> "None"

SummariseWhole ==
    /\ \E ok \in BOOLEAN, content \in {"text", "blank", "null"} :
        /\ Ended("single", ok) \/ Ended("reduce", ok)
        /\ Finish(Written(IF ok THEN content ELSE "blank"))
    /\ heard' = IF pc = "single" /\ summary' = "llm" THEN TokensIn(Combined) ELSE heard
    /\ UNCHANGED <<input, received, text, got, scoring, batch, phrases, lost>>

(* A batch's phrase is kept or left out; then go on with the next batch,    *)
(* reduce the phrases, or give up if there are none.                        *)
AfterBatch(kept) ==
    LET s == Combined
        tokens == TokensIn(Batch(s, batch)) IN
    /\ phrases' = IF kept THEN phrases + 1 ELSE phrases
    /\ heard' = IF kept THEN heard \cup tokens ELSE heard
    /\ lost' = IF kept THEN lost ELSE lost \cup tokens
    /\ \/ /\ batch < Batches(s)
          /\ Begin("map")
          /\ batch' = batch + 1
          /\ UNCHANGED reply
       \/ /\ batch >= Batches(s)
          /\ IF phrases' > 0 THEN Begin("reduce") /\ UNCHANGED reply ELSE Finish("standin")
          /\ UNCHANGED batch

(* A failed batch, or a blank phrase, is left out; a null phrase raises.    *)
SummariseBatch ==
    /\ \/ \E ok \in BOOLEAN : Ended("map", ok) /\ AfterBatch(ok)
       \/ Ended("map", TRUE) /\ AfterBatch(FALSE)
       \/ Ended("map", TRUE) /\ Reply("fallback") /\ UNCHANGED <<writing, summary>>
    /\ UNCHANGED <<input, received, text, got, scoring>>

(* wait_for cancels the call wherever it awaits.                            *)
Timeout ==
    /\ Fails("timeout")
    /\ pc \in Pipeline \ {"extract", "score"}
    /\ pc' = "done"
    /\ answer' = "fallback"
    /\ UNCHANGED <<input, received, text, got, metering, scoring, writing, summary>>

Work ==
    \/ Connect \/ Receive \/ ExtractAndChunk
    \/ Retry \/ Embed \/ Upsert
    \/ EmbedQuery \/ ReadChunks \/ FindSiblings \/ Score \/ Judge
    \/ SummariseWhole \/ SummariseBatch

Next == Work \/ Timeout

Spec == Init /\ [][Next]_vars

(* Every await ends by itself: the HTTP client, the OpenAI client and the   *)
(* store drivers have timeouts of their own.  The timer is not needed.      *)
FairSpec == Spec /\ WF_vars(Work)

-----------------------------------------------------------------------------
(* Properties.                                                              *)

(* Every variable has its type; a score, the judge's too, is of 0..100.     *)
TypeOK ==
    /\ pc \in Pipeline \cup {"fetch", "body", "done"}
    /\ file \in Files /\ cfg \in Configs
    /\ truth \in [content : Cosines, name : NameCosines, siblings : Siblings]
    /\ received \in 0..(MaxBlocks + 1)
    /\ text.quality \in {NoExtraction, Extract(file.data)}
    /\ text.windows \in Seq([from : Nat, to : Nat])
    /\ got \in [vectors : BOOLEAN, stored : BOOLEAN, query : BOOLEAN,
                chunks : SUBSET AllChunks, nearest : SUBSET Int]
    /\ attempt \in 1..MaxAttempts
    /\ {calls, rows, unlogged, batch, phrases} \subseteq Nat
    /\ computed \in [status : Statuses, score : 0..100, judge : BOOLEAN]
    /\ verdict \in [status : Statuses, score : 0..100]
    /\ judge \in {"none", "replied", "failed"}
    /\ heard \cup lost \subseteq 1..Tokens[file]
    /\ summary \in {"none", "standin", "llm", "None"}
    /\ answer \in {"none", "502", "fallback", "degraded", "full"}

(* Whatever is extracted was downloaded whole and is within the cap, a file *)
(* of exactly the cap included; a larger one is a 502.                      *)
OnlyWholeFiles ==
    /\ pc \in Pipeline => received = file.size /\ file.size <= MaxBlocks
    /\ file.size > MaxBlocks => answer \in {"none", "502"}

(* What the readers of a file's format find in it.                          *)
ReadersFind(f) ==
    CASE f.ext = "pdf" -> {Joined(Nonblank(f.plumber)), Joined(Nonblank(f.pypdf))}
      [] f.ext \in {"docx", "csv"} -> {Joined(Nonblank(f.parts))}
      [] OTHER -> {}

(* A file in which no reader finds 30 characters (a scan, an empty or a     *)
(* corrupt file) is never compliant, never scores above 45 and is never     *)
(* shown to the judge, whatever its vectors, the bands and the failures.    *)
(* Workbooks are left out: their sheets' names count as text.               *)
NoTextNeverCompliant ==
    file.data.ext # "xlsx" /\ (\A n \in ReadersFind(file.data) : n < MinChars)
        => /\ verdict.status # "Compliant"
           /\ computed.score <= 45
           /\ judge = "none"

(* A verdict that lost its chunks or its plan vector to an outage is not    *)
(* compliant and not shown to the judge, if both begin above 50: Analyze    *)
(* relies on it where it lets the judge be called only with a centroid.     *)
OutageNeverCompliant ==
    (pc \in {"judge", "single", "map", "reduce"} \/ answer \in {"degraded", "full"})
    /\ ~(Centroid /\ got.query) /\ cfg.inSync > 50 /\ cfg.judgeLow > 50
        => verdict.status # "Compliant" /\ judge = "none" /\ pc # "judge"

(* The scores of the same file if every dependency had answered.            *)
HealthyScores ==
    {r.score : r \in UNION {Compute(
        [content |-> Alignment(HasChunks, truth.content), name |-> Clamp(0, truth.name, Unit),
         quality |-> quality, duplication |-> Duplication({Distance(d) : d \in truth.siblings})],
        text.quality, cfg) : quality \in Qualities(text.quality)}}

(* Failures never make a score better by more than the 12 points of the     *)
(* duplication signal, which takes a failed search for "no sibling"; only a *)
(* document of which Weaviate kept a part may score anything.               *)
OutageRaisesAtMostDuplication ==
    computed # NoResult /\ got.chunks \in {{}, AllChunks}
        => \E healthy \in HealthyScores : computed.score <= healthy + Weight.duplication

(* A judge that failed leaves status and score as computed.                 *)
FailedJudgeChangesNothing ==
    judge = "failed" => verdict = [status |-> computed.status, score |-> computed.score]

(* An identical sibling leaves no duplication points: the score is at most  *)
(* that of the other three signals.                                         *)
IdenticalSiblingIsDuplicate ==
    computed # NoResult /\ got.nearest # {} /\ truth.siblings = {0}
        => Duplication(got.nearest) = 0

(* The windows cover the text from its first token, to its last unless the  *)
(* limit cut it; neighbours share exactly the overlap, and none lies within *)
(* another.                                                                 *)
WindowsCoverText ==
    LET w == text.windows
        c == cfg.chunk
        total == Tokens[file] IN
    pc \in Pipeline \ {"extract"} =>
        /\ w = <<>> <=> total = 0
        /\ c.max # 0 => Len(w) <= c.max
        /\ w # <<>> => /\ w[1].from = 0
                       /\ Last(w).to = total \/ Len(w) = c.max
        /\ \A i \in 1..(Len(w) - 1) : /\ w[i].to - w[i + 1].from = Overlap(c)
                                      /\ w[i].to < w[i + 1].to

(* A summary by the LLM accounts for the whole document, the rest that does *)
(* not fill a batch included: every token that was neither cut by the chunk *)
(* limit nor lost by Weaviate is behind it, or was in a batch that gave no  *)
(* phrase; and no token is lost if every batch gave one.  That such a batch *)
(* is left out of a summary still called the LLM's is what the code does.   *)
SummaryCoversDocument ==
    summary = "llm" =>
        /\ heard \cup lost = UNION {(text.windows[i].from + 1)..text.windows[i].to :
                                        i \in got.chunks}
        /\ phrases = batch => lost = {}

(* The call log misses no OpenAI call but those MongoDB refused and, if the *)
(* timer cut the pipeline, the one in flight.                               *)
EveryCallLogged ==
    LET ended == rows + unlogged IN
    /\ pc \in OpenAICalls => calls = ended + 1
    /\ pc \notin OpenAICalls \cup {"done"} => calls = ended
    /\ answer \in {"degraded", "full"} => calls = ended
    /\ answer = "fallback" => calls \in {ended, ended + 1}

(* The retries end: every call is answered without the timer's help.        *)
Finishes == <>(answer # "none")

=============================================================================

------------------------------- MODULE Analyze -------------------------------
(***************************************************************************)
(* The document pipeline of the service: POST /v1/integrity/analyze and    *)
(* POST /v1/integrity/rescan over the two stores they share, the dedup     *)
(* cache and audit state in MongoDB and the document chunks in Weaviate.   *)
(*                                                                         *)
(* Handlers are coroutines of one event loop; every store call runs in a   *)
(* worker thread that the coroutine awaits.  A coroutine is cancelled by   *)
(* asyncio.wait_for, its worker thread is not: a job the thread has begun  *)
(* goes on against the stores after the caller has been answered.          *)
(***************************************************************************)
EXTENDS Integers

CONSTANTS
    Requests,       \* calls of /analyze
    Rescans,        \* calls of /rescan
    Attachments,    \* attachment ids, each of one tenant
    Contents,       \* file bytes, told apart by their sha256
    Targets,        \* [Requests -> SUBSET Attachments]: what a call may be for
    Bytes,          \* [Attachments -> SUBSET Contents]: what its URL may serve
    ChunkCount,     \* [Contents -> Nat]: chunks extracted, 0 for a scan or an empty file
    Lows,           \* the outcomes of "score < 60" considered
    Overlap,        \* whether two open /analyze calls may be about one attachment
    Faults,         \* the failures the environment may inject
    MaxCrashes,     \* bound on process restarts
    None

FaultKinds == {"fetch", "extract", "openai", "weaviate", "mongo", "timeout", "crash"}

ASSUME ConstantsAssumption ==
    /\ Targets \in [Requests -> SUBSET Attachments]
    /\ Bytes \in [Attachments -> SUBSET Contents]
    /\ ChunkCount \in [Contents -> Nat]
    /\ Lows \subseteq BOOLEAN
    /\ Overlap \in BOOLEAN
    /\ Faults \subseteq FaultKinds
    /\ MaxCrashes \in Nat
    /\ None \notin Requests \cup Attachments \cup Contents

VARIABLES
    cache,      \* ai_analysis_cache: bytes -> the call whose verdict is stored
    analyzed,   \* ai_audit_state.all_analyzed: how often each verdict was pushed
    notable,    \* ai_audit_state.notable: the low verdicts pushed
    chunks,     \* the DocChunk objects in Weaviate
    pc,         \* where the coroutine of each /analyze call is
    thread,     \* the store step its worker thread will take next
    att,        \* the call's attachment id
    content,    \* the bytes it fetched
    work,       \* what its pipeline has computed
    answer,     \* what the caller was told
    served,     \* on a hit, whose verdict the caller was given
    scanPc,     \* where each /rescan call is
    scan,       \* its request and loop variables
    stored,     \* history: verdicts ever written to ai_analysis_cache
    quiet,      \* history: attachments of a rescan no /analyze call raced with
    pending,    \* history: attachments promised a re-run, not analyzed since
    promised,   \* history: calls that were the first after such a promise
    crashes     \* restarts so far

mongo    == <<cache, analyzed, notable>>
request  == <<pc, thread, att, content, work, answer, served>>
scanning == <<scanPc, scan>>
history  == <<quiet, pending, promised, crashes>>
vars     == <<mongo, chunks, request, scanning, stored, history>>

-----------------------------------------------------------------------------
(* One DocChunk object: the properties upsert_chunks gives it, and the call *)
(* whose insert_many created it (its UUID).                                 *)
Chunk == [att : Attachments, content : Contents, index : Nat, by : Requests]

ChunksFor(r) == {[att |-> att[r], content |-> content[r], index |-> i, by |-> r] :
                    i \in 0..(ChunkCount[content[r]] - 1)}

(* The dependencies whose loss lowers a verdict without degrading it.       *)
Inputs == {"query", "chunks", "siblings", "summary"}

(* embedded: the chunk vectors were obtained; upserted: weaviate_ok;        *)
(* seen: the chunks read back; missing: inputs lost on the way; low: the    *)
(* final score is below the notable threshold.                              *)
Work    == [embedded : BOOLEAN, upserted : BOOLEAN, seen : SUBSET Chunk,
            missing : SUBSET Inputs, low : BOOLEAN]
NoWork  == [embedded |-> FALSE, upserted |-> FALSE, seen |-> {},
            missing |-> {}, low |-> FALSE]

Pipeline == {"embed", "upsert", "query", "read", "siblings", "score",
             "put", "count", "similar"}
Open     == {"fetch", "lookup"} \cup Pipeline
Jobs     == {"delete", "insert", "put", "count", "notable"}
Answers  == {"400", "502", "500", "hit", "full", "degraded", "fallback"}

Scan   == [force : BOOLEAN, todo : SUBSET Attachments,
           current : Attachments \cup {None}, scheduled : SUBSET Attachments]
NoScan == [force |-> FALSE, todo |-> {}, current |-> None, scheduled |-> {}]

Init ==
    /\ cache = [c \in Contents |-> None]
    /\ analyzed = [r \in Requests |-> 0]
    /\ notable = {}
    /\ chunks = {}
    /\ pc = [r \in Requests |-> "idle"]
    /\ thread = [r \in Requests |-> "none"]
    /\ att = [r \in Requests |-> None]
    /\ content = [r \in Requests |-> None]
    /\ work = [r \in Requests |-> NoWork]
    /\ answer = [r \in Requests |-> "none"]
    /\ served = [r \in Requests |-> None]
    /\ scanPc = [s \in Rescans |-> "idle"]
    /\ scan = [s \in Rescans |-> NoScan]
    /\ stored = {}
    /\ quiet = [s \in Rescans |-> {}]
    /\ pending = {}
    /\ promised = {}
    /\ crashes = 0

-----------------------------------------------------------------------------
(* Helpers of the handlers.                                                 *)

Fails(kind) == kind \in Faults

Goto(r, label) == pc' = [pc EXCEPT ![r] = label]

Reply(r, kind) ==
    /\ pc' = [pc EXCEPT ![r] = "done"]
    /\ answer' = [answer EXCEPT ![r] = kind]

(* The worker thread moves to its next step; its coroutine, if it is still  *)
(* awaiting, keeps awaiting.                                                *)
ThreadGoes(r, job) == thread' = [thread EXCEPT ![r] = job]

(* The worker thread is done (or raised): the awaiting coroutine goes on at *)
(* "label"; an abandoned job has nobody to tell.                            *)
Resume(r, from, label) ==
    IF pc[r] = from THEN Goto(r, label) ELSE UNCHANGED pc

(* A thread that raises outside an inner try ends the pipeline in the       *)
(* catch-all of analyze(), which answers the reviewing fallback.            *)
RaiseInto(r, from) ==
    IF pc[r] = from THEN Reply(r, "fallback") ELSE UNCHANGED <<pc, answer>>

HasChunks(r) == ChunkCount[content[r]] > 0

(* Mutant of Degraded: forgets weaviate_failed.                             *)
DegradedByEmbeddingOnly(r) == HasChunks(r) /\ ~work[r].embedded

Degraded(r)  == HasChunks(r) /\ ~work[r].upserted
Centroid(r)  == work[r].seen # {}

Lose(r, input) == [work EXCEPT ![r].missing = @ \cup {input}]

Busy(a) == \E r \in Requests : pc[r] \in Open /\ att[r] = a

-----------------------------------------------------------------------------
(* POST /analyze, up to the cache check: outside the timeout guard.         *)

(* _require_tenant: a blank tenantKey is refused before anything else.      *)
Refuse(r) ==
    /\ pc[r] = "idle"
    /\ Reply(r, "400")
    /\ UNCHANGED <<mongo, chunks, thread, att, content, work, served, scanning,
                   stored, history>>

Arrive(r) ==
    /\ pc[r] = "idle"
    /\ \E a \in Targets[r] :
        /\ Overlap \/ ~Busy(a)
        /\ att' = [att EXCEPT ![r] = a]
        /\ promised' = IF a \in pending THEN promised \cup {r} ELSE promised
        /\ pending' = pending \ {a}
        /\ quiet' = [s \in Rescans |-> quiet[s] \ {a}]
    /\ Goto(r, "fetch")
    /\ UNCHANGED <<mongo, chunks, thread, content, work, answer, served, scanning,
                   stored, crashes>>

(* A FetchError is a 502; anything else the URL makes httpx raise is not    *)
(* caught and becomes a 500.                                                *)
Fetch(r) ==
    /\ pc[r] = "fetch"
    /\ \/ /\ \E c \in Bytes[att[r]] : content' = [content EXCEPT ![r] = c]
          /\ Goto(r, "lookup")
          /\ UNCHANGED answer
       \/ /\ Fails("fetch")
          /\ Reply(r, "502") \/ Reply(r, "500")
          /\ UNCHANGED content
    /\ UNCHANGED <<mongo, chunks, thread, att, work, served, scanning, stored, history>>

(* cache.get; on a miss the pipeline extracts and chunks before it first    *)
(* awaits, so no other step comes between.                                  *)
Lookup(r) ==
    /\ pc[r] = "lookup"
    /\ \/ /\ cache[content[r]] # None
          /\ served' = [served EXCEPT ![r] = cache[content[r]]]
          /\ Reply(r, "hit")
       \/ /\ cache[content[r]] = None
          /\ Goto(r, IF HasChunks(r) THEN "embed" ELSE "query")
          /\ UNCHANGED <<served, answer>>
       \/ /\ cache[content[r]] = None
          /\ Fails("extract")
          /\ Reply(r, "fallback")
          /\ UNCHANGED served
       \/ /\ Fails("mongo")
          /\ Reply(r, "500")
          /\ UNCHANGED served
    /\ UNCHANGED <<mongo, chunks, thread, att, content, work, scanning, stored, history>>

-----------------------------------------------------------------------------
(* _run_pipeline, steps 6 and 7: embed the chunks, upsert them.             *)

Embed(r) ==
    /\ pc[r] = "embed"
    /\ \/ /\ work' = [work EXCEPT ![r].embedded = TRUE]
          /\ Goto(r, "upsert")
          /\ ThreadGoes(r, "delete")
       \/ /\ Fails("openai")
          /\ Goto(r, "query")
          /\ UNCHANGED <<work, thread>>
    /\ UNCHANGED <<mongo, chunks, att, content, answer, served, scanning, stored, history>>

(* Mutants of DeleteChunks: insert without deleting; go on to insert when   *)
(* the delete raised.                                                       *)
SkipDelete(r) ==
    /\ thread[r] = "delete"
    /\ ThreadGoes(r, "insert")
    /\ UNCHANGED <<mongo, chunks, pc, att, content, work, answer, served, scanning,
                   stored, history>>

DeleteBestEffort(r) ==
    /\ thread[r] = "delete"
    /\ chunks' \in {{k \in chunks : k.att # att[r]}}
                      \cup (IF Fails("weaviate") THEN {chunks} ELSE {})
    /\ ThreadGoes(r, "insert")
    /\ UNCHANGED <<mongo, pc, att, content, work, answer, served, scanning, stored,
                   history>>

(* upsert_chunks, first half: ensure_tenant and delete_by_attachment.       *)
DeleteChunks(r) ==
    /\ thread[r] = "delete"
    /\ LET rest == {k \in chunks : k.att # att[r]} IN
        \/ /\ chunks' = rest
           /\ ThreadGoes(r, "insert")
           /\ UNCHANGED pc
        \/ /\ Fails("weaviate")
           /\ chunks' \in {chunks, rest}
           /\ ThreadGoes(r, "none")
           /\ Resume(r, "upsert", "query")
    /\ UNCHANGED <<mongo, att, content, work, answer, served, scanning, stored, history>>

(* upsert_chunks, second half: insert_many.  It raises if no object could   *)
(* be stored; objects it could not store among others are only reported in  *)
(* its result, which is not looked at.                                      *)
InsertChunks(r) ==
    /\ thread[r] = "insert"
    /\ ThreadGoes(r, "none")
    /\ Resume(r, "upsert", "query")
    /\ \E kept \in SUBSET ChunksFor(r), raised \in BOOLEAN :
        /\ Fails("weaviate") \/ (kept = ChunksFor(r) /\ ~raised)
        /\ kept = {} => raised
        /\ chunks' = chunks \cup kept
        /\ work' = [work EXCEPT ![r].upserted = (pc[r] = "upsert" /\ ~raised)]
    /\ UNCHANGED <<mongo, att, content, answer, served, scanning, stored, history>>

-----------------------------------------------------------------------------
(* Step 8: the plan and filename vectors, the chunks read back, the nearest *)
(* sibling, the score and the optional judge; step 9: the one-liner.        *)

EmbedQuery(r) ==
    /\ pc[r] = "query"
    /\ \/ UNCHANGED work
       \/ Fails("openai") /\ work' = Lose(r, "query")
    /\ Goto(r, IF work[r].upserted THEN "read" ELSE "score")
    /\ UNCHANGED <<mongo, chunks, thread, att, content, answer, served, scanning,
                   stored, history>>

ReadChunks(r) ==
    /\ pc[r] = "read"
    /\ LET found == {k \in chunks : k.att = att[r]} IN
        \/ /\ work' = [work EXCEPT ![r].seen = found]
           /\ Goto(r, IF found # {} THEN "siblings" ELSE "score")
        \/ /\ Fails("weaviate")
           /\ work' = Lose(r, "chunks")
           /\ Goto(r, "score")
    /\ UNCHANGED <<mongo, chunks, thread, att, content, answer, served, scanning,
                   stored, history>>

FindSiblings(r) ==
    /\ pc[r] = "siblings"
    /\ \/ UNCHANGED work
       \/ Fails("weaviate") /\ work' = Lose(r, "siblings")
    /\ Goto(r, "score")
    /\ UNCHANGED <<mongo, chunks, thread, att, content, answer, served, scanning,
                   stored, history>>

(* The one-liner calls OpenAI only if chunks were read back, and so does    *)
(* the judge: without a centroid the default weights keep the score below   *)
(* its band.  A failed call leaves a stand-in text, a malformed map phrase  *)
(* raises.  A degraded verdict is answered here, since it has no centroid   *)
(* to look up similar files with; any other goes on to be persisted.        *)
Score(r) ==
    /\ pc[r] = "score"
    /\ \E low \in Lows, lost \in SUBSET {"summary"} :
        /\ lost # {} => Fails("openai") /\ Centroid(r)
        /\ work' = [work EXCEPT ![r].low = low, ![r].missing = @ \cup lost]
    /\ \/ /\ Degraded(r)
          /\ Reply(r, "degraded")
          /\ UNCHANGED thread
       \/ /\ ~Degraded(r)
          /\ Goto(r, "put")
          /\ ThreadGoes(r, "put")
          /\ UNCHANGED answer
       \/ /\ Fails("openai") /\ Centroid(r)
          /\ Reply(r, "fallback")
          /\ UNCHANGED thread
    /\ UNCHANGED <<mongo, chunks, att, content, served, scanning, stored, history>>

-----------------------------------------------------------------------------
(* Step 10: cache.put, then aggregate.update.  A MongoDB call that raises   *)
(* may or may not have been applied.                                        *)

(* Mutants of StoreVerdict: the cached value is the attachment; the key is   *)
(* the attachment in place of the bytes.                                    *)
StoreAttachment(r) ==
    /\ cache' = [cache EXCEPT ![content[r]] = att[r]]
    /\ stored' = stored \cup {r}

StoreByAttachment(r) ==
    /\ cache' = [c \in Contents |-> IF c \in Bytes[att[r]] THEN r ELSE cache[c]]
    /\ stored' = stored \cup {r}

StoreVerdict(r) ==
    /\ cache' = [cache EXCEPT ![content[r]] = r]
    /\ stored' = stored \cup {r}

(* Mutant of Put: a failed cache.put is swallowed.                          *)
PutBestEffort(r) ==
    /\ thread[r] = "put"
    /\ StoreVerdict(r) \/ (Fails("mongo") /\ UNCHANGED <<cache, stored>>)
    /\ ThreadGoes(r, IF pc[r] = "put" THEN "count" ELSE "none")
    /\ Resume(r, "put", "count")
    /\ UNCHANGED <<analyzed, notable, chunks, att, content, work, answer, served,
                   scanning, history>>

Put(r) ==
    /\ thread[r] = "put"
    /\ \/ /\ StoreVerdict(r)
          /\ ThreadGoes(r, IF pc[r] = "put" THEN "count" ELSE "none")
          /\ Resume(r, "put", "count")
          /\ UNCHANGED answer
       \/ /\ Fails("mongo")
          /\ StoreVerdict(r) \/ UNCHANGED <<cache, stored>>
          /\ ThreadGoes(r, "none")
          /\ RaiseInto(r, "put")
    /\ UNCHANGED <<analyzed, notable, chunks, att, content, work, served, scanning,
                   history>>

(* aggregate.update returned: look up similar files if there is a centroid, *)
(* else answer.                                                             *)
AfterCount(r) ==
    IF pc[r] # "count" THEN UNCHANGED <<pc, answer>>
    ELSE IF Centroid(r) THEN Goto(r, "similar") /\ UNCHANGED answer
    ELSE Reply(r, "full")

(* Mutants of Count: a failed update is swallowed; it is tried again.       *)
CountBestEffort(r) ==
    /\ thread[r] = "count"
    /\ analyzed' \in {analyzed, [analyzed EXCEPT ![r] = @ + 1]}
    /\ analyzed' = analyzed => Fails("mongo")
    /\ ThreadGoes(r, "none")
    /\ AfterCount(r)
    /\ UNCHANGED <<cache, notable, chunks, att, content, work, served, scanning,
                   stored, history>>

CountAgain(r) ==
    /\ thread[r] = "count"
    /\ analyzed' = [analyzed EXCEPT ![r] = @ + 1]
    /\ \/ ThreadGoes(r, "none") /\ AfterCount(r)
       \/ Fails("mongo") /\ UNCHANGED <<thread, pc, answer>>
    /\ UNCHANGED <<cache, notable, chunks, att, content, work, served, scanning,
                   stored, history>>

Count(r) ==
    /\ thread[r] = "count"
    /\ \/ /\ analyzed' = [analyzed EXCEPT ![r] = @ + 1]
          /\ IF work[r].low
             THEN ThreadGoes(r, "notable") /\ UNCHANGED <<pc, answer>>
             ELSE ThreadGoes(r, "none") /\ AfterCount(r)
       \/ /\ Fails("mongo")
          /\ analyzed' \in {analyzed, [analyzed EXCEPT ![r] = @ + 1]}
          /\ ThreadGoes(r, "none")
          /\ RaiseInto(r, "count")
    /\ UNCHANGED <<cache, notable, chunks, att, content, work, served, scanning,
                   stored, history>>

Notable(r) ==
    /\ thread[r] = "notable"
    /\ ThreadGoes(r, "none")
    /\ \/ /\ notable' = notable \cup {r}
          /\ AfterCount(r)
       \/ /\ Fails("mongo")
          /\ notable' \in {notable, notable \cup {r}}
          /\ RaiseInto(r, "count")
    /\ UNCHANGED <<cache, analyzed, chunks, att, content, work, served, scanning,
                   stored, history>>

(* Step 12: a failed lookup of similar files leaves an empty list.          *)
Similar(r) ==
    /\ pc[r] = "similar"
    /\ Reply(r, "full")
    /\ UNCHANGED <<mongo, chunks, thread, att, content, work, served, scanning,
                   stored, history>>

(* Mutant of Timeout: the guard ends before the verdict is persisted.       *)
TimeoutBeforePut(r) ==
    /\ Fails("timeout")
    /\ pc[r] \in Pipeline \ {"put", "count", "similar"}
    /\ Reply(r, "fallback")
    /\ UNCHANGED <<mongo, chunks, thread, att, content, work, served, scanning,
                   stored, history>>

(* wait_for cancels the coroutine.  A job its worker thread has not begun   *)
(* is dropped; one that has begun goes on.                                  *)
Timeout(r) ==
    /\ Fails("timeout")
    /\ pc[r] \in Pipeline
    /\ Reply(r, "fallback")
    /\ \/ UNCHANGED thread
       \/ thread[r] \in {"delete", "put", "count"} /\ ThreadGoes(r, "none")
    /\ UNCHANGED <<mongo, chunks, att, content, work, served, scanning, stored, history>>

-----------------------------------------------------------------------------
(* POST /rescan: for each attachment, forget its verdict and its chunks.    *)

RescanArrive(s) ==
    /\ scanPc[s] = "idle"
    /\ \E force \in BOOLEAN, todo \in SUBSET Attachments \ {{}} :
        /\ scan' = [scan EXCEPT ![s] = [NoScan EXCEPT !.force = force, !.todo = todo]]
        /\ quiet' = [quiet EXCEPT ![s] = {a \in todo : ~Busy(a)}]
    /\ scanPc' = [scanPc EXCEPT ![s] = "next"]
    /\ UNCHANGED <<mongo, chunks, request, stored, pending, promised, crashes>>

(* The loop is done with one attachment: go on with the next or return the  *)
(* 202, which promises the scheduled ones a re-run.  The promise is only    *)
(* recorded for those no /analyze call was open for meanwhile.              *)
RescanNext(s, a, done) ==
    /\ scan' = [scan EXCEPT ![s].todo = @ \ {a}, ![s].current = None,
                            ![s].scheduled = done]
    /\ IF scan[s].todo \subseteq {a}
       THEN /\ scanPc' = [scanPc EXCEPT ![s] = "done"]
            /\ pending' = pending \cup (done \cap quiet[s])
       ELSE /\ scanPc' = [scanPc EXCEPT ![s] = "next"]
            /\ UNCHANGED pending

CachedFor(a) == {c \in Contents : cache[c] # None /\ att[cache[c]] = a}

(* Without force: skip an attachment that has a cached verdict.             *)
RescanFind(s) ==
    /\ scanPc[s] = "next"
    /\ \E a \in scan[s].todo :
        \/ /\ scan[s].force \/ CachedFor(a) = {}
           /\ scan' = [scan EXCEPT ![s].current = a]
           /\ scanPc' = [scanPc EXCEPT ![s] = "forget"]
           /\ UNCHANGED pending
        \/ /\ ~scan[s].force
           /\ CachedFor(a) # {} \/ Fails("mongo")
           /\ RescanNext(s, a, scan[s].scheduled)
    /\ UNCHANGED <<mongo, chunks, request, stored, quiet, promised, crashes>>

(* Mutant of RescanForget: an attachment whose delete raised is scheduled.  *)
ForgetBestEffort(s) ==
    /\ scanPc[s] = "forget"
    /\ scanPc' = [scanPc EXCEPT ![s] = "purge"]
    /\ LET rest == [c \in Contents |->
                       IF c \in CachedFor(scan[s].current) THEN None ELSE cache[c]]
       IN cache' \in {rest} \cup (IF Fails("mongo") THEN {cache} ELSE {})
    /\ UNCHANGED <<analyzed, notable, chunks, request, scan, stored, history>>

RescanForget(s) ==
    /\ scanPc[s] = "forget"
    /\ LET a == scan[s].current
           rest == [c \in Contents |-> IF c \in CachedFor(a) THEN None ELSE cache[c]]
       IN \/ /\ cache' = rest
             /\ scanPc' = [scanPc EXCEPT ![s] = "purge"]
             /\ UNCHANGED <<scan, pending>>
          \/ /\ Fails("mongo")
             /\ cache' \in {cache, rest}
             /\ RescanNext(s, a, scan[s].scheduled)
    /\ UNCHANGED <<analyzed, notable, chunks, request, stored, quiet, promised, crashes>>

(* A failed Weaviate delete is tolerated: the attachment counts as          *)
(* scheduled all the same.                                                  *)
RescanPurge(s) ==
    /\ scanPc[s] = "purge"
    /\ LET a == scan[s].current
           rest == {k \in chunks : k.att # a}
       IN /\ \/ chunks' = rest
             \/ Fails("weaviate") /\ UNCHANGED chunks
          /\ RescanNext(s, a, scan[s].scheduled \cup {a})
    /\ UNCHANGED <<mongo, request, stored, quiet, promised, crashes>>

-----------------------------------------------------------------------------
(* The process restarts: every open call and every worker thread is gone,   *)
(* the stores remain.                                                       *)
Crash ==
    /\ Fails("crash")
    /\ crashes < MaxCrashes
    /\ crashes' = crashes + 1
    /\ pc' = [r \in Requests |-> IF pc[r] \in Open THEN "lost" ELSE pc[r]]
    /\ thread' = [r \in Requests |-> "none"]
    /\ scanPc' = [s \in Rescans |-> IF scanPc[s] \in {"idle", "done"}
                                    THEN scanPc[s] ELSE "lost"]
    /\ UNCHANGED <<mongo, chunks, att, content, work, answer, served, scan, stored,
                   quiet, pending, promised>>

AnalyzeStep(r) ==
    \/ Refuse(r) \/ Arrive(r) \/ Fetch(r) \/ Lookup(r)
    \/ Embed(r) \/ DeleteChunks(r) \/ InsertChunks(r)
    \/ EmbedQuery(r) \/ ReadChunks(r) \/ FindSiblings(r) \/ Score(r)
    \/ Put(r) \/ Count(r) \/ Notable(r) \/ Similar(r)
    \/ Timeout(r)

RescanStep(s) ==
    RescanArrive(s) \/ RescanFind(s) \/ RescanForget(s) \/ RescanPurge(s)

Next ==
    \/ \E r \in Requests : AnalyzeStep(r)
    \/ \E s \in Rescans : RescanStep(s)
    \/ Crash

Spec == Init /\ [][Next]_vars

(* The fetch ends: each read of at least a byte has its httpx timeout, and  *)
(* the body is cut off at MAX_BYTES.  The lookup ends as long as MongoDB    *)
(* answers or the driver raises.  wait_for bounds the pipeline.  Nothing is *)
(* assumed of OpenAI, of Weaviate or of the worker threads.                 *)
Fairness == \A r \in Requests : /\ WF_vars(Fetch(r))
                                /\ WF_vars(Lookup(r))
                                /\ WF_vars(Timeout(r))

FairSpec == Spec /\ Fairness

-----------------------------------------------------------------------------
(* Properties.                                                              *)

(* The stores, the coroutines, the worker threads and the rescan loops hold *)
(* values of their types; a worker thread, abandoned or not, only ever runs *)
(* for a call that has named its attachment and fetched its bytes.          *)
TypeOK ==
    /\ cache \in [Contents -> Requests \cup {None}]
    /\ analyzed \in [Requests -> Nat]
    /\ notable \subseteq Requests
    /\ chunks \subseteq Chunk
    /\ pc \in [Requests -> {"idle", "done", "lost"} \cup Open]
    /\ thread \in [Requests -> Jobs \cup {"none"}]
    /\ att \in [Requests -> Attachments \cup {None}]
    /\ content \in [Requests -> Contents \cup {None}]
    /\ \A r \in Requests :
          thread[r] # "none" => att[r] \in Attachments /\ content[r] \in Contents
    /\ work \in [Requests -> Work]
    /\ answer \in [Requests -> Answers \cup {"none"}]
    /\ served \in [Requests -> Requests \cup {None}]
    /\ scanPc \in [Rescans -> {"idle", "next", "forget", "purge", "done", "lost"}]
    /\ scan \in [Rescans -> Scan]
    /\ stored \subseteq Requests
    /\ quiet \in [Rescans -> SUBSET Attachments]
    /\ pending \subseteq Attachments
    /\ promised \subseteq Requests
    /\ crashes \in 0..MaxCrashes

(* An answer that does not call itself degraded is durable: its verdict was *)
(* written to the cache and counted in the audit state exactly once, and,   *)
(* if low, listed as notable, whatever failed, timed out or was abandoned   *)
(* around it.                                                               *)
FullAnswerIsDurable ==
    \A r \in Requests : answer[r] = "full" =>
        /\ r \in stored
        /\ analyzed[r] = 1
        /\ work[r].low => r \in notable

(* The stores are written in the order cache, all_analyzed, notable, once   *)
(* each: no failure, retry or abandoned thread makes the audit state know a *)
(* verdict the cache never held, or know it twice.                          *)
WrittenInOrder ==
    \A r \in Requests :
        /\ analyzed[r] <= 1
        /\ analyzed[r] = 1 => r \in stored
        /\ r \in notable => analyzed[r] = 1 /\ work[r].low

(* A verdict the pipeline itself knows to be degraded (the embeddings or    *)
(* the upsert failed) never reaches either store, not even from an          *)
(* abandoned thread and not after a timeout.                                *)
DegradedLeavesNoTrace ==
    \A r \in Requests :
        /\ r \in stored \/ analyzed[r] > 0 \/ thread[r] \in {"put", "count", "notable"}
        /\ HasChunks(r)
        => work[r].upserted

(* Bytes whose verdict was once answered as final stay deduplicated: unless *)
(* a rescan forgets them they stay in the cache, whatever later or          *)
(* concurrent calls on the same bytes run into.                             *)
FullAnswerStaysCached ==
    \A r \in Requests : answer[r] = "full" => cache[content[r]] # None

(* Every cached verdict is in the audit state, once its pipeline is over.   *)
CachedIsCounted ==
    \A c \in Contents : cache[c] # None /\ pc[cache[c]] \in {"done", "lost"}
                             /\ thread[cache[c]] = "none"
        => analyzed[cache[c]] = 1

(* Weaviate never holds two objects for one chunk of an attachment.         *)
NoDuplicateChunks ==
    \A k1, k2 \in chunks : k1.att = k2.att /\ k1.index = k2.index => k1 = k2

(* A stored verdict was computed from chunks of the very bytes it is filed  *)
(* under.                                                                   *)
VerdictFromOwnChunks ==
    \A r \in stored : work[r].seen \subseteq ChunksFor(r)

(* The first /analyze after a rescan answered that it scheduled the         *)
(* attachment is not served from the cache.  (Rescans that raced with an    *)
(* open call on the attachment are not held to it.)                         *)
RescanForcesRerun == \A r \in promised : answer[r] # "hit"

(* No verdict that lost one of its inputs to an outage is in the cache.     *)
OutageNeverCached ==
    \A c \in Contents : cache[c] # None => work[cache[c]].missing = {}

(* Every call that arrived is answered, unless a restart takes it, even if  *)
(* OpenAI, Weaviate and the worker threads never come back.                 *)
EveryCallAnswered ==
    \A r \in Requests : pc[r] = "fetch" ~> answer[r] # "none" \/ pc[r] = "lost"

=============================================================================

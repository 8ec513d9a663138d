# A verification of the Ready2Go AI service

The service scores documents of continuity plans. It keeps three stores: the
dedup cache and the rolling audit state in MongoDB, and the chunks of every
document, with their vectors, in Weaviate. OpenAI supplies embeddings, an
optional judge and the texts. The modules here model how requests, worker
threads, failures and restarts act on these stores, TLC checks small instances
of them, and TLAPS proves the main results for instances of any size.

## The system

| Part | State | Operations | Hard behaviour | What makes it correct |
|---|---|---|---|---|
| `POST /v1/integrity/analyze` (`app/api/integrity.py`) | per call: a coroutine and at most one worker thread | fetch, cache lookup, extract, chunk, embed, upsert, read back, score, summarise, persist | `wait_for` cancels the coroutine and not the thread; calls on one attachment overlap; every dependency may fail; restarts | an answer not called degraded is stored and counted once; a degraded one leaves no trace; every call is answered |
| `POST /v1/integrity/rescan` (same file) | loop over attachment ids | forget the cached verdict, delete the chunks | interleaves with open calls; each step may fail | the next call runs again |
| dedup cache (`app/store/cache.py`) | `ai_analysis_cache`, by content hash and model version | `get`, `put`, delete by attachment id | written apart from the audit state | holds only authoritative verdicts |
| audit state (`app/store/aggregate.py`) | `ai_audit_state`, one document per tenant | `update` (two writes), `read`, `mark_clean` | updates interleave with each other and with an audit | counters, full list and capped list agree; dirty until audited |
| `POST /v1/audit/summary` (`app/api/audit.py`, `app/summary/audit.py`) | the state it read | read, build, retry with fewer documents, mark clean | the LLM call lies between read and mark | one consistent moment; "degraded" means what it says |
| chunk store (`app/vectors/repo.py`) | `DocChunk` objects, per tenant | delete then insert, read all, nearest siblings | not atomic; tenant created on first use | one object per chunk, of the current bytes |
| Weaviate client (`app/vectors/client.py`) | one cached connection | connect, reconnect, close | concurrent reconnection without a lock, shut-down under a worker thread | no thread connects twice, none fails because another reconnected |
| OpenAI wrappers, call log (`app/llm`, `app/store/calllog.py`) | log rows | call with four attempts, append a row | retries against the request timeout; the log is written on the event loop | one row per call that ended |
| per-document summary (`app/summary/per_doc.py`) | none | one call, or one per batch and one to combine | batches that fail, are blank or null | every token is behind the summary, or in a batch that gave no phrase |
| scoring (`app/scoring`) | none | four signals, weighted score, bands, judge gate | rounding, band edges, overrides, signals lost to an outage | no text and no vectors is never compliant; failures do not improve a score |
| chunker (`app/ingest/chunk.py`) | none | sliding windows of tokens | the limits of overlap and `max_chunks` | the windows cover the text, share the overlap, none inside another |
| download, extraction (`app/ingest`) | none | stream with a size cap; PDF, DOCX, XLSX, CSV | slow servers, broken streams, readers that disagree | only whole files are scored |
| health, auth, middleware, logging, settings | counters, none | probes, token check | none | |
| seed scripts (`scripts/prep`) | the plans of the application's database | seed, verify, clean up | killed, started again, run at once; users act meanwhile | no duplicates, clean-up removes the seeder's plans and no other |

Handlers are coroutines of one event loop and meet only in the stores. Store
calls run in worker threads (`run_in_threadpool`); the call log is the
exception and runs on the loop. Analyze writes the cache, the audit state and
the chunk store; rescan deletes from the cache and the chunk store; the audit
reads the audit state and clears its dirty flag.

## The modules

**Analyze** models `/analyze` and `/rescan` over the cache, `all_analyzed`,
`notable` and the chunks. Each call has a `pc` (where its coroutine is) and a
`thread` (the store step its worker thread takes next). There is one action per
stretch between two awaits or per store write: `Refuse`, `Arrive`, `Fetch`,
`Lookup` (with extraction and chunking, which do not await), `Embed`,
`DeleteChunks` and `InsertChunks` (the halves of `upsert_chunks`),
`EmbedQuery`, `ReadChunks`, `FindSiblings`, `Score` (judge and one-liner),
`Put`, `Count`, `Notable` (the two writes of `aggregate.update`), `Similar`,
`Timeout`, `Crash`, and for a rescan `RescanArrive`, `RescanFind`,
`RescanForget`, `RescanPurge`. A verdict is identified with the call that
computed it, a file with its bytes; a score is only low (below 60) or not. A
store call that raises may or may not have been applied. After `Timeout` the
call is done and its thread goes on, unless the thread pool had not begun the
job. `stored`, `quiet`, `pending` and `promised` are history variables.

**VerdictLedger** says what a caller may rely on, with no thread, vector store
or rescan in it. **AnalyzeImplementsLedger** holds the refinement mapping: a
verdict is saved when `cache.put` is applied and counted when `all_analyzed`,
and `notable` if it is low, have it.

**AuditState** models `aggregate.py` and `/audit/summary`: `Push` and
`PushNotable` are the two writes of `update`, `Read`, `Build`, `Rebuild` and
`Clean` the handler. Scores, counters, the stable sort, the slices, the
half-to-even rounding and the posture are modelled as the code computes them. A
tenant may bring a history from before `all_analyzed` was kept. The dirty flag
is part of this module and not of Analyze.

**Ingest** has the readers of `extract.py` (two for PDF, with the rule when the
second is asked) and the windows of `chunk.py`. A text is its length, a page,
row or cell the length of its text; a window is an interval of token positions.
**Scoring** has the signals, the weighted score, the bands, the override for
files without text, the judge gate and the reading of the judge's reply, in
integers: signals of 1/10000, weights of 1/100. A rounding tie and the
logarithm of `extraction_quality`, which floats decide, may come out either
way within their range.

**Document** composes the two: one call after a cache miss, alone, from the
URL to the answer. Its actions are the stream (`Connect`, `Receive`),
`ExtractAndChunk` (whose encoder may raise), each OpenAI call with its attempts (`Retry`), its end and the
row it leaves (`Embed`, `EmbedQuery`, `Judge`, `SummariseWhole`,
`SummariseBatch`), with the tokens `heard` and `lost` by the summary, the Weaviate calls (`Upsert`, which may keep a part,
`ReadChunks`, `FindSiblings`), `Score` and `Timeout`. Analyze takes from here that
a call may be judged only with a centroid, and adds what Document leaves out:
other calls, worker threads, the stores after the verdict, restarts.

**ChunkStore** models `repo.py` and `client.py` call by call. An operation
(upsert, delete, read all, sibling search, readiness probe) is a sequence of
stages, each beginning with `get_client`: `Check`, `Connect`, `Return` of the
global, which another thread may have replaced in between. Then `Exists`,
`Create`, `Delete`, `Insert` (some objects may be lost), `Fetch` (one page) or
`Search`; `Raise` ends an operation whose call fails. `Boot` and `Shutdown` are
the lifespan of the process. `expected`, `disturbed`, `connects` and `excused`
are history.

**Seeds** models `seed_mongo.py`, `cleanup.py` and `verify.py` on the plans
collection: `Seed`, `FetchBytes`, `FindOne`, `Write`, `Cleanup`, `DeleteMany`,
`Kill` between any two steps, the dry run, and users of the application who
create plans, upload files and have them analyzed.

The **MC...** modules give the constants their values. **AnalyzeProofs** and
**AnalyzeLedgerProofs**, **AuditStateProofs**, **ScoringProofs**,
**DocumentProofs**, **ChunkStoreProofs** and **SeedsProofs** hold the theorems,
**RecursionProofs** the lemmas on recursion and folds they share.

## What is checked

| Run | Instance | Shows |
|---|---|---|
| `faults` | two overlapping calls, one attachment, two files (one without text), all faults, one restart, fairness of the clock | types; answers are durable; stores are written in order and once; degraded verdicts leave no trace; a final verdict stays cached; the pipeline implements the ledger; every call is answered unless the process dies |
| `one_at_a_time` | two calls that do not overlap, one rescan, files of one and two chunks, all faults but the timeout, one restart | no duplicate chunks; a verdict comes from chunks of its own bytes; a rescan forces a re-run |
| `document` | one call; twelve files of every format (scans, one- and multi-page texts, damaged, oversize), four configurations, all faults; 257,459 states | only whole files are scored; no text is never compliant, nor are lost chunks or a lost plan vector with bands above 50; failures do not improve a score beyond the duplication signal; a failed judge changes nothing; windows cover the text; a summary by the LLM accounts for every token of the document; no OpenAI call goes unlogged; the retries end |
| `store` | three threads with one of three workloads, one failure of Weaviate, start-up and shut-down; 498,944 states | nobody connects twice; an operation raises only for Weaviate's sake; an undisturbed read is complete; the nearest sibling comes first; operations end |
| `seed` | three runs of the scripts, three manifest documents, two acts of users; 8,540,260 states | re-runs add no duplicates; what was seeded is there; clean-up spares users' plans and takes every other; verify passes after a full seeding |
| `moment` | three updates with any of five verdicts, one audit of the whole corpus, new or legacy tenant, notable cap 2, fallback cap 1 | the capped list holds the worst; an audit tells of one moment, its average the nearest integer to the mean; for a tenant without a history, degraded means reduced, and not degraded the whole corpus |
| `retry` | two calls that do not overlap, timeouts | violated: duplicates after a timeout and a retry |
| `uncounted` | MongoDB faults | violated: a cached verdict that is never counted |
| `outage` | OpenAI faults | violated: a verdict that lost an input is cached |
| `rescan` | two attachments with the same bytes, no fault | violated: the call after a rescan hits the cache |
| `dirty` | two updates, two audits, no fault | violated: an unaudited verdict is marked clean |
| `duplicate` | a document with an identical sibling, no fault | violated: `dist or 1.0` scores it as unique |

The violated properties are statements of the repository's own comments and
messages; `PROJECT.json` quotes them. What holds and what does not belong
together: `NoDuplicateChunks` and `VerdictFromOwnChunks` hold for calls that
do not overlap as long as no call times out, and `retry` shows the timeout is
enough to break the first. `RescanForcesRerun` holds while no two attachments
share their bytes and no call is open during the rescan.

**Bounds.** Two calls suffice for every conflict between a call and the thread,
chunks or verdict another left behind, since a thread only ever conflicts with
one successor and the properties speak of pairs; a third call adds a repetition
and the proved properties hold for any number. One rescan, one restart,
chunk counts 0, 1 and 2 cover the cases the code tells apart (`if chunks`, a
version with fewer chunks than the last). Three updates exceed the notable cap
of 2 and the fallback cap of 1, so both slices cut. Calls and updates are
symmetric, and no run with a symmetry set checks liveness.

In `document` the numbers are scaled down and the proportions kept: `MAX_BYTES` is
2 blocks and files have 1, 2 (exactly the cap) or 3; texts have up to 6 tokens in
windows of 3 or 4 tokens, so there are none, one and several, with a last one that is
cut, full or dropped by the limit of 2; one configuration asks for more overlap
than a window has. A token counts as one character of the summary's text, whose
single-pass limit is 6 and whose batches have 5, so that both ways are taken,
with and without a rest. `MaxAttempts` is 2 where the code has 4: the attempts
after the first differ only in their back-off. The extraction limits 30 and 500
and the score bands are the code's own or, in two configurations, chosen so
that a capped or an outage score reaches a band. Cosines include a negative one.

In `store` a page has 2 objects where the code has 1000, and `a1` may have 3, so a
read takes a full and a short page; a read of 2 takes a full and an empty one.
The search limit of 2 is below the number of siblings' chunks. Three threads
are what a race for the client needs for one connection to be replaced twice;
more only repeat it (and the theorem has no bound). `MaxFailures` = 1 puts one
failure at each step of each operation; failures are independent of each other.

In `seed`, two documents share a plan of tenant A, so both the insert and the push
of the upsert occur; a user may hold the seeded plan's key and one of its file
names. Three runs allow a killed one, its repetition and a clean-up, in any order
and overlapping. `MaxUserActions` = 2 allows a plan and a file in it.

**Fairness.** Analyze's `FairSpec` assumes only that the fetch ends (each read
has its httpx timeout and the body is capped at `MAX_BYTES`, 50 MB), that the cache lookup
returns or raises, and that the timer of `wait_for` fires. Nothing is assumed of
OpenAI, of Weaviate or of the threads. The timer needs a running event loop:
the call log's synchronous insert (`calllog.py:38`) is assumed to return or
raise. Document's `FairSpec` shows the complement, that a call ends without the
timer: it assumes weak fairness of the call's own steps, which the timeouts
of the HTTP, OpenAI, Weaviate and MongoDB clients justify, and nothing of
`Timeout`. ChunkStore's assumes that each thread goes on, for the same reason.

**Other assumptions.** `asyncio.wait_for` cancels as in Python 3.12. A thread's
last step and the resumption of its coroutine are one step. An attachment
belongs to one tenant. In Analyze one `insert_many` is atomic and raises only
if all objects fail, the rescan's ids are taken in any order and chunks are
read at once: ChunkStore has the parts, Document the partial insert. Weaviate
is a sequence of objects in insertion order, strongly consistent, that answers a
filtered search with the nearest objects that pass the filter; a tenant, once
created, stays. MongoDB's single-document operations are atomic. The text of
answers, logging and timestamps are left out. Document counts tokens and does not
know their text: the encoder (`chunk.py:69`) raises `ValueError` on a text that spells
one of its special tokens, so any text may end in the fallback there.

**Limits of single properties.** `NoDuplicateChunks` and `VerdictFromOwnChunks` are
checked without overlap, so of what an upsert meets between its two steps they
see failures, a restart and later calls. `ReadIsComplete` leaves out reads that a
write on the same attachment disturbs. `FailedJudgeChangesNothing` speaks of a
judge that failed; what a judge that answers may say against itself is modelled,
but forbidden nowhere. `AuditTellsOneMoment` takes the sample as the code chooses
it, which for a tenant with a history is the old list or the new documents alone.
The type invariant of ChunkStore does not notice a thread that connects after
the shut-down; no property forbids it.

## Where code and words part

The violated runs above are the disagreements a run shows. Others were met while
modelling; the modules follow the code:

- `schemas.py:176-181` calls an audit degraded if it could not be produced from the
  full document set. A tenant from before `all_analyzed` was kept is audited from its
  capped `notable` list (`api/audit.py:55-62`), or, after its first new analysis, from
  the new documents alone, and is told `degraded: false`. `DegradedMeansReduced` leaves
  such tenants out.
- `per_doc.py:130-132` says every part of the document is summarised, so that the summary
  reflects the whole. A batch whose call failed or whose phrase is blank is dropped
  (lines 136-149), and the summary of the others is returned like any other.
  `SummaryCoversDocument` says what holds: only such batches are missing.
- `fetch.py` says 25 MB in its docstrings (lines 8, 9, 100, 110) where `MAX_BYTES` is
  50 MB (line 29). The models have the cap as a parameter.
- `cleanup.py:5-7` says clean-up cannot touch production data and removes all
  seed data. A seeded file pushed into a plan a user had created stays, since
  that plan has no mark (`ResidueOnlyInUserPlans` says nothing else stays); a file
  a user uploads into a seeded plan goes with it.
- With one entry in `SEED_OWNER_IDS` both tenants are one owner and
  `verify.py`, which asks for two, cannot pass: hence the two different owners
  in `FreshSeedVerifies`.
- `seed_mongo.py:173-186` uploads to Cloudinary before it looks whether the
  document is there, so re-runs and dry runs upload again.
- `extract.py:225-231` promises pypdf for a PDF that pdfplumber cannot open, but
  the caller asks pypdf only if there were pages (`PypdfOnly` and `Unopenable` in
  MCDocument).
- `extract.py:159` counts a sheet's heading as text: a workbook of two empty
  sheets has 30 characters or more and is not empty. `NoTextNeverCompliant`
  leaves workbooks out for it.
- `per_doc.py:76` turns a null reply into the summary "None"; in the map phase
  a null raises and the caller gets the fallback.
- `signals.py:87` says a text of `_MIN_CHARS_GOOD` characters has quality 0.80; the
  code gives 0.83.
- `main.py:55-60` says the vector features are degraded until Weaviate is
  reachable. If it is not at start-up, nobody creates the collection before the
  next start (`excused` counts a missing collection for it).
- A document uploaded anew as a scan has no chunks, so `upsert_chunks` is not
  called and the old version's chunks stay siblings of others (VerdictFromOwnChunks
  holds because such a call does not read them).
- `health.py:100` imports `_client` before `_db()` creates it, so the first probe
  pings nothing; `record_request` has no caller and the metrics stay zero.

## What is proved

Thirty-five theorems. Every invariant that a passing run checks is one of them,
and so is the refinement; the runs show a small instance, the theorems any. They
rest on the assumptions the modules name (`...Assumption`, `AuditConstants`),
which TLC evaluates in every run, and on the hypotheses stated with them.

**Analyze**, for any finite or infinite set of calls, rescans, attachments and
files, any set of faults and any bound on restarts:

- `TypeCorrect`: `TypeOK`. Its strengthening `TypeInv` adds that a call past the
  fetch has bytes, and one past its arrival an attachment, without which
  `HasChunks` and `ChunksFor` would be applied to no file; `TypeOK` itself says so
  of every call a worker thread is busy for.
- `FullAnswersAreDurable`, `WritesAreInOrder`, `DegradedVerdictsLeaveNoTrace`.
  None is inductive: what the stores hold depends on how far the thread got, and
  the coroutine knows that only while it awaits the thread. `LedgerInv` says for
  each call what the stores hold for every value of `thread` (`ThreadInv`), how
  `pc` and `thread` go together (`CoroutineInv`) and that what is on its way to
  the stores is not degraded (`UndegradedInv`). After a timeout only `ThreadInv`
  speaks of the call, and it is enough for the thread to go on in order. The
  proof has one step per action, and under it the call that takes the step and
  every other call, for which `RecordFrame` says nothing changed.
- `ChunksAreNeverDuplicated`, `VerdictsComeFromOwnChunks`, under `OneAtATime`:
  calls do not overlap and the timer is no fault. `Alone` says that two open
  calls are about different attachments and that a thread at work has its
  coroutine waiting; `ChunkInv` what Weaviate holds of the attachment: nothing
  between delete and insert, chunks of the call's own bytes from the insert
  until they are read back, and never a chunk twice.
- `RescansForceReruns`, which needs also `NoSharedFiles`: no two attachments
  have bytes in common. `FiledInv`: a verdict is filed under bytes of its call's
  attachment, hence with the only id that has them. `SweepInv`: an attachment a
  rescan has dealt with, and for which no call is open, has nothing cached,
  until the rescan is answered and after. `PromiseInv`: the first call that
  comes then finds nothing before its lookup and is no hit. The runs `retry` and
  `rescan` show that neither hypothesis can be dropped: one timeout breaks the
  first, one shared file the second.
- `AnalyzeKeepsItsPromise`: `Spec => KeepsItsPromise`, the refinement. `MapInv`
  adds `KeyInv` to `LedgerInv`: a call has no bytes before its fetch, a thread
  at work leaves its caller unanswered or with the fallback, and the cache files
  a stored verdict under the bytes of its call. `LedgerStays` and `LedgerMoves`
  say how the mapped ledger changes; then one lemma per recording or answering
  action names the ledger's step, and the other actions stutter.
- `FullAnswersStayCached`: without rescans, bytes with a final answer stay in
  the cache. The invariant is `StaysInv`, that every verdict ever stored still
  finds an entry under its bytes, perhaps a later call's.

**AuditState**, for any updates, audits, verdicts and caps, and any history a
tenant brings along:

- `HonestTheorem`, for a tenant without a history: an audit of the whole corpus
  called degraded had the cap's number of documents, fewer than the state
  counts; one not called so had all of them, and if it has no narrative then a
  smaller sample would not have helped. `HonestInv` adds that a second build only
  follows a first from more documents than the cap; `SourceCounts`, by `MomentInv`,
  that the list built from has every document counted.
- `TypeTheorem`: beside the types, an average stays within 0..100, because
  `Bounded` bounds the score total by 100 a document, and every notable list,
  stored or read, within its cap.
- `MomentTheorem`: the figures, the average, the posture and the sample of an
  answer are of one state. `MomentInv` says which: `TellsAll` of the tenant's
  document, `Seen` of what an audit has read, which is a prefix of the list
  there is now, `FromState` of its reply. The lemmas compute what the folds
  return, `PostureTells` and `AverageIs`; `AverageNearest` that the rounded average
  is the nearest integer to the mean, the even one of two.
- `NotableTheorem`: the capped list holds the worst. `ListsBut(c)` speaks of the
  list while some updates have made their first write and not their second: it
  is the worst of the tally `c`, that is of all that was counted but theirs.
  `ListsOneMore` shows that push, stable sort and slice keep that, whatever the
  order of the pushes.

**Scoring**: `CappedTheorem` and `ComputeTheorem` (no state): what `compute()`
may return, for every score and all signals in their range.

**Document**, for any files, settings, signals and failures:

- `LogTheorem`, `OutageTheorem`, `JudgeTheorem`. `LogInv` adds to the property
  that a call is done exactly if answered; `InputInv` keeps the inputs in their
  ranges, from which `VerdictInv` gets, by `ComputeTheorem`, what every verdict
  of a lost input can be.
- `WindowsTheorem`: the windows of a text of any length cover it. The loop of
  `chunk.py` is a recursive function; `SlideInv` is its loop invariant, and
  `WindowsOfText` draws the property from it for every size, overlap and limit.
- `DownloadTheorem`: only whole files are scored. `BlockInv` counts the blocks.
- `NoTextTheorem`: a file in which no reader finds text counts as empty,
  whichever reader is asked (`NoTextIsEmpty`), so its score is capped and no
  judge is called.
- `OutageScoreTheorem`: a verdict of lost inputs is better than that of the
  healthy call by at most the weight of duplication, each rounded by itself.
  `OutageInv`: the siblings found are the true ones or none.
- `SummaryTheorem`: every token is behind a summary of the LLM or was in a batch
  without a phrase, and none is lost if every batch gave one. `HeardInv`: while
  batch n is in flight the tokens heard or lost are those of the n - 1 batches
  before it, and as long as there are as many phrases none is lost; the last
  batch ends where the text does.
- `TypeTheorem`: `TypeOK`, of every variable of the call.

**ChunkStore**, for any finite set of threads, any workload, page size and
number of failures:

- `RaiseTheorem` and `ConnectTheorem`. `RaiseInv`: past its register stage an
  upsert's tenant exists, so its insert cannot meet an unknown one.
  `ConnectInv`: while the process is up every connection made is open and the
  cached one is among them, a thread that has connected never stands before
  `Connect` again, and the connections are as many as the threads that
  connected, or one, made at start-up.
- `TypeTheorem`: `TypeInv` adds that where a thread is, the part of its
  operation and the result go together (`Located`).
- `ReadTheorem`: an undisturbed paged read is complete, sorted and without
  repetition. `Reading` says that the pages so far are the first `offset`
  objects of the attachment; `ObjectsInv` that no object is there twice, since a
  thread inserts once and is done then. `SortedIs` shows that the sort returns a
  permutation in order.
- `SearchTheorem`: the nearest sibling comes first although the limit cuts
  chunks and not documents (`BestOfEach`, `NearestFirstIs`).

**Seeds**, for any manifest, owner setting, number of runs and users, runs that
overlap included:

- `UserPlansStay`, `ResidueTheorem`. `MarkInv`: a plan has the mark exactly if
  no user created it.
- `SeededStays`. `SeedInv`: a document a run counts as done is in its plan,
  where only `DeleteMany` could take it away.
- `IdempotentTheorem`. `IdemInv`: as long as no two runs overlapped, at most one
  is under way (`OneRun`), what it looked up is still so when it writes
  (`LookedUp`), and no plan has a seeded file twice (`NoTwins`).
- `FreshTheorem`: verify passes. `DealtInv`: the documents a run has fetched are
  those it has done and the one at hand, so that after a whole run all are
  there. `FilesInv`: a marked plan has a file, and, while no user has touched
  it, only files verify accepts.
- `TypeTheorem`: `TypeOK`, the runs' own data and the history included. `DataInv` has
  the loop index within the manifest (`ManifestIs`: of some length but 0) and the
  history beside it.

**RecursionProofs** has what the loops and folds need. Its induction is over
sets of numbers (`InductionUpTo`) or of sequences (`SequenceInduction`), from
the well-foundedness of `<`, so no theorem takes an operator as a parameter.
`RecursionExists` and `RunsExist` say that a function defined by recursion on a
natural number exists; `FoldExists` that the community modules' folds do, and
`FoldChain` that a fold over a sequence goes from value to value.

Some definitions have the form that can be reasoned about. `Sorted` of
ChunkStore names the k-th object as the one that k-1 come before, where
`SortSeq` would do the same; `InsertAt` does AuditState's insertion and
`WorstLow` folds it. In ChunkStore the objects an instance begins with are by
writers in `Earlier`, which are not its threads, and have distances in
`Distance`. Two assumptions of Document are those of the code's own use: the
chunk size of `chunk.py` is positive (`CHUNK_TOKENS` is 500; no setting changes
it), and the length of an extracted text is a natural number.
`FreshSeedVerifies` asks for two different owners, as `SEED_OWNER_IDS` may list
one id twice and verify counts owners.

Only model-checked:

- liveness (`EveryCallAnswered`, `Finishes`, `OperationsEnd`): fairness and
  `ENABLED` are out of TLAPS's reach here;
- the violated runs, which show traces;
- the length `Extract` gives a file: it is built with `SelectSeq`, which the
  provers do not see into, so the theorems hold for whatever length it is.

## What is left

1. A refinement of ChunkStore: that the paged read implements an atomic one for
   a thread nobody disturbs.
2. An abstract AuditState, with `update` as one step, implemented by the two
   writes up to the updates under way.
3. Chunks of three calls in Analyze, if a smaller abstraction of the threads
   brings the states within reach of TLC; the theorems hold for any number.

## Not modelled

The HTTP shell (token check, correlation ids, logging, settings, validation):
one decision per request, no state shared with the pipeline. The seeder's
upload to Cloudinary, whose result is only a stored URL. The health probes
other than Weaviate's, and the metrics, which nothing writes. The parsers of the
file formats and the tokenizer (libraries), back-off times, prompts and wording,
and the deployment files. `PROJECT.json` gives the reason part by part.

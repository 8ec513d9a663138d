----------------------------- MODULE AnalyzeProofs -----------------------------
(***************************************************************************)
(* Theorems about Analyze, for any number of calls, rescans, attachments,  *)
(* files and restarts: first for any set of faults, then what the chunks   *)
(* in Weaviate and the promise of a rescan rest on when calls about one    *)
(* attachment do not overlap and no pipeline is abandoned.                 *)
(***************************************************************************)
EXTENDS Analyze, TLAPS

(* A call past its fetch names an attachment and bytes; a rescan in its     *)
(* loop body names an attachment.  TypeOK alone is not inductive: it allows *)
(* None there.                                                              *)
Named ==
    /\ \A r \in Requests :
        /\ pc[r] \in Open => att[r] \in Attachments
        /\ pc[r] \in Open \ {"fetch"} => content[r] \in Contents
    /\ \A s \in Rescans :
        scanPc[s] \in {"forget", "purge"} => scan[s].current \in Attachments

TypeInv == TypeOK /\ Named

LEMMA ChunksForType ==
    ASSUME NEW r \in Requests, att[r] \in Attachments, content[r] \in Contents
    PROVE  ChunksFor(r) \subseteq Chunk
  BY ConstantsAssumption DEF ChunksFor, Chunk

(* What the steps of a pipeline do to its working record keeps its type.    *)
LEMMA EmbedWork ==
    ASSUME work \in [Requests -> Work], NEW r \in Requests, Embed(r)
    PROVE  work' \in [Requests -> Work]
  BY DEF Embed, Work

LEMMA InsertWork ==
    ASSUME work \in [Requests -> Work], NEW r \in Requests, InsertChunks(r)
    PROVE  work' \in [Requests -> Work]
<1>1. PICK raised \in BOOLEAN :
        work' = [work EXCEPT ![r].upserted = (pc[r] = "upsert" /\ ~raised)]
  BY DEF InsertChunks
<1>2. QED
  BY <1>1 DEF Work

LEMMA LoseWork ==
    ASSUME work \in [Requests -> Work], NEW r \in Requests, NEW input \in Inputs
    PROVE  Lose(r, input) \in [Requests -> Work]
  BY DEF Lose, Work

LEMMA QueryWork ==
    ASSUME work \in [Requests -> Work], NEW r \in Requests, EmbedQuery(r)
    PROVE  work' \in [Requests -> Work]
  BY LoseWork DEF EmbedQuery, Inputs

LEMMA ReadWork ==
    ASSUME work \in [Requests -> Work], chunks \subseteq Chunk,
           NEW r \in Requests, ReadChunks(r)
    PROVE  work' \in [Requests -> Work]
<1> DEFINE found == {k \in chunks : k.att = att[r]}
<1>1. CASE work' = [work EXCEPT ![r].seen = found]
  <2>1. found \in SUBSET Chunk
    OBVIOUS
  <2> HIDE DEF found
  <2>2. QED
    BY <1>1, <2>1 DEF Work
<1>2. CASE work' = Lose(r, "chunks")
  BY <1>2, LoseWork DEF Inputs
<1>3. QED
  BY <1>1, <1>2 DEF ReadChunks

LEMMA SiblingsWork ==
    ASSUME work \in [Requests -> Work], NEW r \in Requests, FindSiblings(r)
    PROVE  work' \in [Requests -> Work]
  BY LoseWork DEF FindSiblings, Inputs

LEMMA ScoreWork ==
    ASSUME work \in [Requests -> Work], NEW r \in Requests, Score(r)
    PROVE  work' \in [Requests -> Work]
<1>1. PICK low \in Lows, lost \in SUBSET {"summary"} :
        work' = [work EXCEPT ![r].low = low, ![r].missing = @ \cup lost]
  BY DEF Score
<1>2. low \in BOOLEAN /\ lost \in SUBSET Inputs
  BY ConstantsAssumption DEF Inputs
<1>3. QED
  BY <1>1, <1>2 DEF Work

(* What the steps of a rescan do to its loop variables keeps their type.    *)
LEMMA ScanUpdates ==
    ASSUME NEW v \in [Rescans -> Scan], NEW s \in Rescans, NEW a \in Attachments,
           NEW done \in SUBSET Attachments
    PROVE  /\ [v EXCEPT ![s].current = a] \in [Rescans -> Scan]
           /\ [v EXCEPT ![s].current = a][s].current = a
           /\ [v EXCEPT ![s].todo = @ \ {a}, ![s].current = None,
                        ![s].scheduled = done] \in [Rescans -> Scan]
           /\ v[s].scheduled \in SUBSET Attachments
           /\ v[s].todo \in SUBSET Attachments
  BY DEF Scan

LEMMA ScanToAttachment ==
    ASSUME scan \in [Rescans -> Scan], NEW s \in Rescans, NEW a \in Attachments,
           scan' = [scan EXCEPT ![s].current = a]
    PROVE  scan' \in [Rescans -> Scan] /\ scan'[s].current = a
  BY DEF Scan

(* Leaving the loop body for an attachment keeps a rescan's type.           *)
LEMMA RescanNextType ==
    ASSUME TypeInv, NEW s \in Rescans, NEW a \in Attachments,
           NEW done \in SUBSET Attachments, RescanNext(s, a, done)
    PROVE  /\ scan' \in [Rescans -> Scan]
           /\ scanPc' \in [Rescans -> {"idle", "next", "forget", "purge", "done", "lost"}]
           /\ pending' \subseteq Attachments
           /\ \A t \in Rescans : scanPc'[t] \in {"forget", "purge"} =>
                                   scan'[t].current \in Attachments
<1> USE DEF TypeInv, TypeOK, RescanNext
<1>1. scan' \in [Rescans -> Scan]
  BY ScanUpdates
<1>2. scanPc' \in [Rescans -> {"idle", "next", "forget", "purge", "done", "lost"}]
  OBVIOUS
<1>3. pending' \subseteq Attachments
  OBVIOUS
<1>4. ASSUME NEW t \in Rescans, scanPc'[t] \in {"forget", "purge"}
      PROVE  scan'[t].current \in Attachments
  <2>1. t # s /\ scanPc'[t] = scanPc[t]
    BY <1>4
  <2>2. scan'[t] = scan[t]
    BY <2>1
  <2>3. QED
    BY <1>4, <2>1, <2>2 DEF Named
<1>5. QED
  BY <1>1, <1>2, <1>3, <1>4

LEMMA InitTypeInv == Init => TypeInv
  BY ConstantsAssumption DEF Init, TypeInv, TypeOK, Named, Open, Pipeline, Jobs, Work,
     NoWork, Answers, Scan, NoScan, Chunk, Inputs

LEMMA NextTypeInv == TypeInv /\ [Next]_vars => TypeInv'
<1> SUFFICES ASSUME TypeInv, [Next]_vars PROVE TypeInv'
  OBVIOUS
<1> USE ConstantsAssumption
    DEF TypeInv, TypeOK, Named, Open, Pipeline, Jobs, Answers, mongo, request, scanning,
        history, Goto, Reply, ThreadGoes
<1>1. CASE UNCHANGED vars
  BY <1>1 DEF vars
<1>2. ASSUME NEW r \in Requests, Refuse(r) PROVE TypeInv'
  BY <1>2 DEF Refuse
<1>3. ASSUME NEW r \in Requests, Arrive(r) PROVE TypeInv'
  BY <1>3 DEF Arrive
<1>4. ASSUME NEW r \in Requests, Fetch(r) PROVE TypeInv'
  BY <1>4 DEF Fetch
<1>5. ASSUME NEW r \in Requests, Lookup(r) PROVE TypeInv'
  BY <1>5 DEF Lookup
<1>6. ASSUME NEW r \in Requests, Embed(r) PROVE TypeInv'
  BY <1>6, EmbedWork DEF Embed
<1>7. ASSUME NEW r \in Requests, DeleteChunks(r) PROVE TypeInv'
  BY <1>7 DEF DeleteChunks, Resume
<1>8. ASSUME NEW r \in Requests, InsertChunks(r) PROVE TypeInv'
  <2>1. chunks' \subseteq Chunk
    BY <1>8, ChunksForType DEF InsertChunks
  <2>2. work' \in [Requests -> Work]
    BY <1>8, InsertWork
  <2>3. /\ thread' = [thread EXCEPT ![r] = "none"] /\ thread[r] = "insert"
        /\ pc' = IF pc[r] = "upsert" THEN [pc EXCEPT ![r] = "query"] ELSE pc
        /\ UNCHANGED <<cache, analyzed, notable, att, content, answer, served, scanPc,
                       scan, stored, quiet, pending, promised, crashes>>
    BY <1>8 DEF InsertChunks, Resume
  <2>4. TypeOK'
    BY <2>1, <2>2, <2>3
  <2>5. Named'
    BY <2>3
  <2>6. QED
    BY <2>4, <2>5
<1>9. ASSUME NEW r \in Requests, EmbedQuery(r) PROVE TypeInv'
  BY <1>9, QueryWork DEF EmbedQuery
<1>10. ASSUME NEW r \in Requests, ReadChunks(r) PROVE TypeInv'
  BY <1>10, ReadWork DEF ReadChunks
<1>11. ASSUME NEW r \in Requests, FindSiblings(r) PROVE TypeInv'
  BY <1>11, SiblingsWork DEF FindSiblings
<1>12. ASSUME NEW r \in Requests, Score(r) PROVE TypeInv'
  <2>1. work' \in [Requests -> Work]
    BY <1>12, ScoreWork
  <2>2. /\ pc[r] = "score"
        /\ \E label \in {"done", "put"} : pc' = [pc EXCEPT ![r] = label]
        /\ \/ UNCHANGED answer
           \/ \E kind \in Answers : answer' = [answer EXCEPT ![r] = kind]
        /\ UNCHANGED thread \/ thread' = [thread EXCEPT ![r] = "put"]
        /\ UNCHANGED <<mongo, chunks, att, content, served, scanning, stored, history>>
    BY <1>12 DEF Score
  <2>3. TypeOK'
    BY <2>1, <2>2
  <2>4. Named'
    BY <2>2
  <2>5. QED
    BY <2>3, <2>4
<1>13. ASSUME NEW r \in Requests, Put(r) PROVE TypeInv'
  <2>1. /\ cache' \in [Contents -> Requests \cup {None}] /\ stored' \subseteq Requests
        /\ \/ pc' = pc
           \/ \E label \in {"count", "done"} :
                /\ pc' = [pc EXCEPT ![r] = label]
                /\ pc[r] = "put"
        /\ answer' = answer \/ answer' = [answer EXCEPT ![r] = "fallback"]
        /\ \E job \in {"count", "none"} : thread' = [thread EXCEPT ![r] = job]
        /\ thread[r] = "put"
        /\ UNCHANGED <<analyzed, notable, chunks, att, content, work, served, scanning,
                       history>>
    BY <1>13 DEF Put, StoreVerdict, Resume, RaiseInto
  <2>2. TypeOK'
    BY <2>1
  <2>3. Named'
    BY <2>1
  <2>4. QED
    BY <2>2, <2>3
<1>14. ASSUME NEW r \in Requests, Count(r) PROVE TypeInv'
  BY <1>14 DEF Count, AfterCount, RaiseInto
<1>15. ASSUME NEW r \in Requests, Notable(r) PROVE TypeInv'
  BY <1>15 DEF Notable, AfterCount, RaiseInto
<1>16. ASSUME NEW r \in Requests, Similar(r) PROVE TypeInv'
  BY <1>16 DEF Similar
<1>17. ASSUME NEW r \in Requests, Timeout(r) PROVE TypeInv'
  BY <1>17 DEF Timeout
<1>18. ASSUME NEW s \in Rescans, RescanArrive(s) PROVE TypeInv'
  <2>1. PICK force \in BOOLEAN, todo \in SUBSET Attachments :
          /\ scan' = [scan EXCEPT ![s] = [NoScan EXCEPT !.force = force, !.todo = todo]]
          /\ quiet' = [quiet EXCEPT ![s] = {a \in todo : ~Busy(a)}]
    BY <1>18 DEF RescanArrive
  <2>2. [NoScan EXCEPT !.force = force, !.todo = todo] \in Scan
    BY DEF Scan, NoScan
  <2>3. scan' \in [Rescans -> Scan] /\ quiet' \in [Rescans -> SUBSET Attachments]
    BY <2>1, <2>2
  <2>4. QED
    BY <1>18, <2>1, <2>3 DEF RescanArrive
<1>19. ASSUME NEW s \in Rescans, RescanFind(s) PROVE TypeInv'
  <2>1. PICK a \in scan[s].todo :
          \/ /\ scan' = [scan EXCEPT ![s].current = a]
             /\ scanPc' = [scanPc EXCEPT ![s] = "forget"]
             /\ UNCHANGED pending
          \/ RescanNext(s, a, scan[s].scheduled)
    BY <1>19 DEF RescanFind
  <2>2. a \in Attachments
    BY DEF Scan
  <2>3. CASE RescanNext(s, a, scan[s].scheduled)
    <3>1. scan[s].scheduled \in SUBSET Attachments
      BY DEF Scan
    <3>2. QED
      BY <1>19, <2>2, <2>3, <3>1, RescanNextType DEF RescanFind
  <2>4. CASE /\ scan' = [scan EXCEPT ![s].current = a]
             /\ scanPc' = [scanPc EXCEPT ![s] = "forget"]
             /\ UNCHANGED pending
    <3>1. scan' \in [Rescans -> Scan] /\ scan'[s].current = a
      BY <2>2, <2>4, ScanToAttachment
    <3>2. \A t \in Rescans \ {s} : scan'[t] = scan[t]
      BY <2>4
    <3>3. QED
      BY <1>19, <2>2, <2>4, <3>1, <3>2 DEF RescanFind
  <2>5. QED
    BY <2>1, <2>3, <2>4
<1>20. ASSUME NEW s \in Rescans, RescanForget(s) PROVE TypeInv'
  <2>1. scan[s].current \in Attachments /\ scan[s].scheduled \in SUBSET Attachments
    <3>1. scan[s] \in Scan
      OBVIOUS
    <3>2. scan[s].scheduled \in SUBSET Attachments
      BY <3>1 DEF Scan
    <3>3. scan[s].current \in Attachments
      BY <1>20 DEF RescanForget
    <3>4. QED
      BY <3>2, <3>3
  <2>2. CASE RescanNext(s, scan[s].current, scan[s].scheduled)
    BY <1>20, <2>1, <2>2, RescanNextType DEF RescanForget
  <2>3. CASE ~RescanNext(s, scan[s].current, scan[s].scheduled)
    BY <1>20, <2>1, <2>3 DEF RescanForget
  <2>4. QED
    BY <2>2, <2>3
<1>21. ASSUME NEW s \in Rescans, RescanPurge(s) PROVE TypeInv'
  <2>1. scan[s].current \in Attachments /\ scan[s].scheduled \in SUBSET Attachments
    <3>1. scan[s] \in Scan
      OBVIOUS
    <3>2. scan[s].scheduled \in SUBSET Attachments
      BY <3>1 DEF Scan
    <3>3. scan[s].current \in Attachments
      BY <1>21 DEF RescanPurge
    <3>4. QED
      BY <3>2, <3>3
  <2>2. scan[s].scheduled \cup {scan[s].current} \in SUBSET Attachments
    BY <2>1
  <2>3. RescanNext(s, scan[s].current, scan[s].scheduled \cup {scan[s].current})
    BY <1>21 DEF RescanPurge
  <2>4. QED
    BY <1>21, <2>1, <2>2, <2>3, RescanNextType DEF RescanPurge
<1>22. ASSUME Crash PROVE TypeInv'
  BY <1>22 DEF Crash
<1> QED
  BY <1>1, <1>2, <1>3, <1>4, <1>5, <1>6, <1>7, <1>8, <1>9, <1>10, <1>11, <1>12, <1>13,
     <1>14, <1>15, <1>16, <1>17, <1>18, <1>19, <1>20, <1>21, <1>22 DEF Next,
     AnalyzeStep, RescanStep

(* Type correctness of the whole pipeline.                                  *)
THEOREM TypeCorrect == Spec => []TypeOK
<1>1. TypeInv => TypeOK
  BY DEF TypeInv
<1>2. QED
  BY InitTypeInv, NextTypeInv, <1>1, PTL DEF Spec

-----------------------------------------------------------------------------
(* How far a verdict is recorded, by what its coroutine and its worker      *)
(* thread still have to do: the coroutine knows the state of the stores     *)
(* only while it awaits the thread, and an abandoned thread takes up        *)
(* exactly where the cancelled coroutine left off.                          *)
Unrecorded(r) == r \notin stored /\ analyzed[r] = 0 /\ r \notin notable
Recorded(r)   == r \in stored /\ analyzed[r] = 1 /\ (r \in notable <=> work[r].low)

ThreadInv(r) ==
    /\ thread[r] \in {"delete", "insert", "put"} => Unrecorded(r)
    /\ thread[r] = "count" => r \in stored /\ analyzed[r] = 0 /\ r \notin notable
    /\ thread[r] = "notable" =>
            r \in stored /\ analyzed[r] = 1 /\ r \notin notable /\ work[r].low

CoroutineInv(r) ==
    /\ pc[r] \in {"idle", "fetch", "lookup", "embed", "query", "read", "siblings", "score"} =>
            Unrecorded(r) /\ thread[r] = "none"
    /\ pc[r] = "upsert" => thread[r] \in {"delete", "insert"}
    /\ pc[r] = "put" => thread[r] = "put"
    /\ pc[r] = "count" => thread[r] \in {"count", "notable"}
    /\ pc[r] = "similar" => Recorded(r) /\ thread[r] = "none"
    /\ answer[r] = "full" => Recorded(r) /\ thread[r] = "none"
    /\ answer[r] # "none" => pc[r] = "done"

OrderInv(r) ==
    /\ analyzed[r] <= 1
    /\ analyzed[r] = 1 => r \in stored
    /\ r \in notable => analyzed[r] = 1 /\ work[r].low

(* A verdict on its way to the stores was upserted, if it has chunks.       *)
UndegradedInv(r) ==
    r \in stored \/ analyzed[r] > 0 \/ thread[r] \in {"put", "count", "notable"} =>
        ~Degraded(r)

RecordInv(r) == ThreadInv(r) /\ CoroutineInv(r) /\ OrderInv(r) /\ UndegradedInv(r)

LedgerInv == TypeInv /\ \A r \in Requests : RecordInv(r)

(* Nothing RecordInv speaks of changes for call t.                          *)
SameRecord(t) ==
    /\ (t \in stored') = (t \in stored)
    /\ (t \in notable') = (t \in notable)
    /\ analyzed'[t] = analyzed[t]
    /\ thread'[t] = thread[t]
    /\ pc'[t] = pc[t]
    /\ answer'[t] = answer[t]
    /\ work'[t] = work[t]
    /\ content'[t] = content[t]

LEMMA RecordFrame ==
    ASSUME NEW t \in Requests, RecordInv(t), SameRecord(t)
    PROVE  RecordInv(t)'
  BY DEF SameRecord, RecordInv, ThreadInv, CoroutineInv, OrderInv, UndegradedInv,
     Unrecorded, Recorded, Degraded, HasChunks

LEMMA InitLedgerInv == Init => LedgerInv
  BY InitTypeInv DEF LedgerInv, Init, RecordInv, ThreadInv, CoroutineInv, OrderInv,
     UndegradedInv, Unrecorded, Recorded

LEMMA NextLedgerInv == LedgerInv /\ [Next]_vars => LedgerInv'
<1> SUFFICES ASSUME LedgerInv, [Next]_vars, NEW t \in Requests PROVE RecordInv(t)'
  BY NextTypeInv DEF LedgerInv
<1> USE DEF LedgerInv, TypeInv, TypeOK
<1>0. RecordInv(t)
  OBVIOUS
<1>1. CASE UNCHANGED vars
  <2>1. SameRecord(t)
    BY <1>1 DEF vars, mongo, request, SameRecord
  <2>2. QED
    BY <1>0, <2>1, RecordFrame
<1>2. ASSUME NEW r \in Requests, Refuse(r) PROVE RecordInv(t)'
  <2>1. CASE t = r
    BY <1>2, <1>0, <2>1 DEF Refuse, RecordInv, ThreadInv, CoroutineInv, OrderInv,
       UndegradedInv, Unrecorded, Recorded, Degraded, HasChunks, Goto, Reply,
       ThreadGoes, Pipeline, mongo
  <2>2. CASE t # r
    <3>1. SameRecord(t)
      BY <1>2, <2>2 DEF Refuse, SameRecord, Goto, Reply, ThreadGoes, mongo
    <3>2. QED
      BY <1>0, <3>1, RecordFrame
  <2>3. QED
    BY <2>1, <2>2
<1>3. ASSUME NEW r \in Requests, Arrive(r) PROVE RecordInv(t)'
  <2>1. CASE t = r
    BY <1>3, <1>0, <2>1 DEF Arrive, RecordInv, ThreadInv, CoroutineInv, OrderInv,
       UndegradedInv, Unrecorded, Recorded, Degraded, HasChunks, Goto, Reply,
       ThreadGoes, Pipeline, mongo
  <2>2. CASE t # r
    <3>1. SameRecord(t)
      BY <1>3, <2>2 DEF Arrive, SameRecord, Goto, Reply, ThreadGoes, mongo
    <3>2. QED
      BY <1>0, <3>1, RecordFrame
  <2>3. QED
    BY <2>1, <2>2
<1>4. ASSUME NEW r \in Requests, Fetch(r) PROVE RecordInv(t)'
  <2>1. CASE t = r
    BY <1>4, <1>0, <2>1 DEF Fetch, RecordInv, ThreadInv, CoroutineInv, OrderInv,
       UndegradedInv, Unrecorded, Recorded, Degraded, HasChunks, Goto, Reply,
       ThreadGoes, Pipeline, mongo
  <2>2. CASE t # r
    <3>1. SameRecord(t)
      BY <1>4, <2>2 DEF Fetch, SameRecord, Goto, Reply, ThreadGoes, mongo
    <3>2. QED
      BY <1>0, <3>1, RecordFrame
  <2>3. QED
    BY <2>1, <2>2
<1>5. ASSUME NEW r \in Requests, Lookup(r) PROVE RecordInv(t)'
  <2>1. CASE t = r
    BY <1>5, <1>0, <2>1 DEF Lookup, RecordInv, ThreadInv, CoroutineInv, OrderInv,
       UndegradedInv, Unrecorded, Recorded, Degraded, HasChunks, Goto, Reply,
       ThreadGoes, Pipeline, mongo
  <2>2. CASE t # r
    <3>1. SameRecord(t)
      BY <1>5, <2>2 DEF Lookup, SameRecord, Goto, Reply, ThreadGoes, mongo
    <3>2. QED
      BY <1>0, <3>1, RecordFrame
  <2>3. QED
    BY <2>1, <2>2
<1>6. ASSUME NEW r \in Requests, Embed(r) PROVE RecordInv(t)'
  <2>1. CASE t = r
    BY <1>6, <1>0, <2>1 DEF Embed, RecordInv, ThreadInv, CoroutineInv, OrderInv,
       UndegradedInv, Unrecorded, Recorded, Degraded, HasChunks, Goto, Reply,
       ThreadGoes, Pipeline, mongo
  <2>2. CASE t # r
    <3>1. SameRecord(t)
      BY <1>6, <2>2 DEF Embed, SameRecord, Goto, Reply, ThreadGoes, mongo
    <3>2. QED
      BY <1>0, <3>1, RecordFrame
  <2>3. QED
    BY <2>1, <2>2
<1>7. ASSUME NEW r \in Requests, DeleteChunks(r) PROVE RecordInv(t)'
  <2>1. CASE t = r
    BY <1>7, <1>0, <2>1 DEF DeleteChunks, Resume, RecordInv, ThreadInv, CoroutineInv,
       OrderInv, UndegradedInv, Unrecorded, Recorded, Degraded, HasChunks, Goto,
       Reply, ThreadGoes, Pipeline, mongo
  <2>2. CASE t # r
    <3>1. SameRecord(t)
      BY <1>7, <2>2 DEF DeleteChunks, Resume, SameRecord, Goto, Reply, ThreadGoes,
         mongo
    <3>2. QED
      BY <1>0, <3>1, RecordFrame
  <2>3. QED
    BY <2>1, <2>2
<1>8. ASSUME NEW r \in Requests, InsertChunks(r) PROVE RecordInv(t)'
  <2>1. CASE t = r
    BY <1>8, <1>0, <2>1 DEF InsertChunks, Resume, RecordInv, ThreadInv, CoroutineInv,
       OrderInv, UndegradedInv, Unrecorded, Recorded, Degraded, HasChunks, Goto,
       Reply, ThreadGoes, Pipeline, mongo
  <2>2. CASE t # r
    <3>1. SameRecord(t)
      BY <1>8, <2>2 DEF InsertChunks, Resume, SameRecord, Goto, Reply, ThreadGoes,
         mongo
    <3>2. QED
      BY <1>0, <3>1, RecordFrame
  <2>3. QED
    BY <2>1, <2>2
<1>9. ASSUME NEW r \in Requests, EmbedQuery(r) PROVE RecordInv(t)'
  <2>1. CASE t = r
    BY <1>9, <1>0, <2>1 DEF EmbedQuery, RecordInv, ThreadInv, CoroutineInv, OrderInv,
       UndegradedInv, Unrecorded, Recorded, Degraded, HasChunks, Goto, Reply,
       ThreadGoes, Pipeline, mongo
  <2>2. CASE t # r
    <3>1. SameRecord(t)
      BY <1>9, <2>2 DEF EmbedQuery, Lose, SameRecord, Goto, Reply, ThreadGoes, mongo
    <3>2. QED
      BY <1>0, <3>1, RecordFrame
  <2>3. QED
    BY <2>1, <2>2
<1>10. ASSUME NEW r \in Requests, ReadChunks(r) PROVE RecordInv(t)'
  <2>1. CASE t = r
    BY <1>10, <1>0, <2>1 DEF ReadChunks, RecordInv, ThreadInv, CoroutineInv, OrderInv,
       UndegradedInv, Unrecorded, Recorded, Degraded, HasChunks, Goto, Reply,
       ThreadGoes, Pipeline, mongo
  <2>2. CASE t # r
    <3>1. SameRecord(t)
      BY <1>10, <2>2 DEF ReadChunks, Lose, SameRecord, Goto, Reply, ThreadGoes, mongo
    <3>2. QED
      BY <1>0, <3>1, RecordFrame
  <2>3. QED
    BY <2>1, <2>2
<1>11. ASSUME NEW r \in Requests, FindSiblings(r) PROVE RecordInv(t)'
  <2>1. CASE t = r
    BY <1>11, <1>0, <2>1 DEF FindSiblings, RecordInv, ThreadInv, CoroutineInv,
       OrderInv, UndegradedInv, Unrecorded, Recorded, Degraded, HasChunks, Goto,
       Reply, ThreadGoes, Pipeline, mongo
  <2>2. CASE t # r
    <3>1. SameRecord(t)
      BY <1>11, <2>2 DEF FindSiblings, Lose, SameRecord, Goto, Reply, ThreadGoes,
         mongo
    <3>2. QED
      BY <1>0, <3>1, RecordFrame
  <2>3. QED
    BY <2>1, <2>2
<1>12. ASSUME NEW r \in Requests, Score(r) PROVE RecordInv(t)'
  <2>1. CASE t = r
    BY <1>12, <1>0, <2>1 DEF Score, RecordInv, ThreadInv, CoroutineInv, OrderInv,
       UndegradedInv, Unrecorded, Recorded, Degraded, HasChunks, Goto, Reply,
       ThreadGoes, Pipeline, mongo
  <2>2. CASE t # r
    <3>1. SameRecord(t)
      BY <1>12, <2>2 DEF Score, SameRecord, Goto, Reply, ThreadGoes, mongo
    <3>2. QED
      BY <1>0, <3>1, RecordFrame
  <2>3. QED
    BY <2>1, <2>2
<1>13. ASSUME NEW r \in Requests, Put(r) PROVE RecordInv(t)'
  <2>1. CASE t = r
    BY <1>13, <1>0, <2>1 DEF Put, StoreVerdict, Resume, RaiseInto, RecordInv,
       ThreadInv, CoroutineInv, OrderInv, UndegradedInv, Unrecorded, Recorded,
       Degraded, HasChunks, Goto, Reply, ThreadGoes, Pipeline, mongo
  <2>2. CASE t # r
    <3>1. SameRecord(t)
      BY <1>13, <2>2 DEF Put, StoreVerdict, Resume, RaiseInto, SameRecord, Goto,
         Reply, ThreadGoes, mongo
    <3>2. QED
      BY <1>0, <3>1, RecordFrame
  <2>3. QED
    BY <2>1, <2>2
<1>14. ASSUME NEW r \in Requests, Count(r) PROVE RecordInv(t)'
  <2>1. CASE t = r
    BY <1>14, <1>0, <2>1 DEF Count, AfterCount, RaiseInto, RecordInv, ThreadInv,
       CoroutineInv, OrderInv, UndegradedInv, Unrecorded, Recorded, Degraded,
       HasChunks, Goto, Reply, ThreadGoes, Pipeline, mongo
  <2>2. CASE t # r
    <3>1. SameRecord(t)
      BY <1>14, <2>2 DEF Count, AfterCount, RaiseInto, SameRecord, Goto, Reply,
         ThreadGoes, mongo
    <3>2. QED
      BY <1>0, <3>1, RecordFrame
  <2>3. QED
    BY <2>1, <2>2
<1>15. ASSUME NEW r \in Requests, Notable(r) PROVE RecordInv(t)'
  <2>1. CASE t = r
    BY <1>15, <1>0, <2>1 DEF Notable, AfterCount, RaiseInto, RecordInv, ThreadInv,
       CoroutineInv, OrderInv, UndegradedInv, Unrecorded, Recorded, Degraded,
       HasChunks, Goto, Reply, ThreadGoes, Pipeline, mongo
  <2>2. CASE t # r
    <3>1. SameRecord(t)
      BY <1>15, <2>2 DEF Notable, AfterCount, RaiseInto, SameRecord, Goto, Reply,
         ThreadGoes, mongo
    <3>2. QED
      BY <1>0, <3>1, RecordFrame
  <2>3. QED
    BY <2>1, <2>2
<1>16. ASSUME NEW r \in Requests, Similar(r) PROVE RecordInv(t)'
  <2>1. CASE t = r
    BY <1>16, <1>0, <2>1 DEF Similar, RecordInv, ThreadInv, CoroutineInv, OrderInv,
       UndegradedInv, Unrecorded, Recorded, Degraded, HasChunks, Goto, Reply,
       ThreadGoes, Pipeline, mongo
  <2>2. CASE t # r
    <3>1. SameRecord(t)
      BY <1>16, <2>2 DEF Similar, SameRecord, Goto, Reply, ThreadGoes, mongo
    <3>2. QED
      BY <1>0, <3>1, RecordFrame
  <2>3. QED
    BY <2>1, <2>2
<1>17. ASSUME NEW r \in Requests, Timeout(r) PROVE RecordInv(t)'
  <2>1. CASE t = r
    BY <1>17, <1>0, <2>1 DEF Timeout, RecordInv, ThreadInv, CoroutineInv, OrderInv,
       UndegradedInv, Unrecorded, Recorded, Degraded, HasChunks, Goto, Reply,
       ThreadGoes, Pipeline, mongo
  <2>2. CASE t # r
    <3>1. SameRecord(t)
      BY <1>17, <2>2 DEF Timeout, SameRecord, Goto, Reply, ThreadGoes, mongo
    <3>2. QED
      BY <1>0, <3>1, RecordFrame
  <2>3. QED
    BY <2>1, <2>2
<1>18. ASSUME NEW s \in Rescans, RescanArrive(s) PROVE RecordInv(t)'
  <2>1. SameRecord(t)
    BY <1>18 DEF RescanArrive, SameRecord, mongo, request
  <2>2. QED
    BY <1>0, <2>1, RecordFrame
<1>19. ASSUME NEW s \in Rescans, RescanFind(s) PROVE RecordInv(t)'
  <2>1. SameRecord(t)
    BY <1>19 DEF RescanFind, SameRecord, mongo, request
  <2>2. QED
    BY <1>0, <2>1, RecordFrame
<1>20. ASSUME NEW s \in Rescans, RescanForget(s) PROVE RecordInv(t)'
  <2>1. SameRecord(t)
    BY <1>20 DEF RescanForget, SameRecord, mongo, request
  <2>2. QED
    BY <1>0, <2>1, RecordFrame
<1>21. ASSUME NEW s \in Rescans, RescanPurge(s) PROVE RecordInv(t)'
  <2>1. SameRecord(t)
    BY <1>21 DEF RescanPurge, SameRecord, mongo, request
  <2>2. QED
    BY <1>0, <2>1, RecordFrame
<1>22. ASSUME Crash PROVE RecordInv(t)'
  BY <1>22, <1>0 DEF Crash, RecordInv, ThreadInv, CoroutineInv, OrderInv,
     UndegradedInv, Unrecorded, Recorded, Degraded, HasChunks, Open, Pipeline, mongo
<1> QED
  BY <1>1, <1>2, <1>3, <1>4, <1>5, <1>6, <1>7, <1>8, <1>9, <1>10, <1>11, <1>12, <1>13,
     <1>14, <1>15, <1>16, <1>17, <1>18, <1>19, <1>20, <1>21, <1>22 DEF Next,
     AnalyzeStep, RescanStep

LEMMA LedgerCorrect == Spec => []LedgerInv
  BY InitLedgerInv, NextLedgerInv, PTL DEF Spec

(* An answer that is not marked degraded is durable, whatever fails, times  *)
(* out, is abandoned or restarts.                                           *)
THEOREM FullAnswersAreDurable == Spec => []FullAnswerIsDurable
<1>1. LedgerInv => FullAnswerIsDurable
  BY DEF LedgerInv, RecordInv, CoroutineInv, Recorded, FullAnswerIsDurable
<1>2. QED
  BY LedgerCorrect, <1>1, PTL

(* The cache, all_analyzed and notable are written in this order and at     *)
(* most once for every call.                                                *)
THEOREM WritesAreInOrder == Spec => []WrittenInOrder
<1>1. LedgerInv => WrittenInOrder
  BY DEF LedgerInv, RecordInv, OrderInv, WrittenInOrder
<1>2. QED
  BY LedgerCorrect, <1>1, PTL

(* A degraded verdict reaches neither store.                                *)
THEOREM DegradedVerdictsLeaveNoTrace == Spec => []DegradedLeavesNoTrace
<1>1. LedgerInv => DegradedLeavesNoTrace
  BY DEF LedgerInv, RecordInv, UndegradedInv, Degraded, DegradedLeavesNoTrace
<1>2. QED
  BY LedgerCorrect, <1>1, PTL

-----------------------------------------------------------------------------
(* Calls about one attachment do not overlap, and the server waits for each *)
(* pipeline to end.                                                         *)
OneAtATime == ~Overlap /\ "timeout" \notin Faults

(* A worker thread has its coroutine waiting for it.                        *)
Attended(r) ==
    /\ thread[r] \in {"delete", "insert"} => pc[r] = "upsert"
    /\ thread[r] = "put" => pc[r] = "put"
    /\ thread[r] \in {"count", "notable"} => pc[r] = "count"

Apart(r, q) ==
    r # q /\ pc[r] \in Open /\ pc[q] \in Open => att[r] # att[q]

Alone ==
    /\ \A r, q \in Requests : Apart(r, q)
    /\ \A r \in Requests : Attended(r)

(* What a step of call r leaves alone.                                      *)
OthersSame(r) ==
    \A t \in Requests \ {r} :
        /\ pc'[t] = pc[t]
        /\ thread'[t] = thread[t]
        /\ att'[t] = att[t]
        /\ content'[t] = content[t]
        /\ work'[t] = work[t]
        /\ answer'[t] = answer[t]

LEMMA StepOfOneCall ==
    ASSUME TypeInv, NEW r \in Requests, AnalyzeStep(r)
    PROVE  OthersSame(r)
<1> USE DEF TypeInv, TypeOK, OthersSame, Goto, Reply, ThreadGoes
<1>1. CASE Refuse(r)  BY <1>1 DEF Refuse
<1>2. CASE Arrive(r)  BY <1>2 DEF Arrive
<1>3. CASE Fetch(r)  BY <1>3 DEF Fetch
<1>4. CASE Lookup(r)  BY <1>4 DEF Lookup
<1>5. CASE Embed(r)  BY <1>5 DEF Embed
<1>6. CASE DeleteChunks(r)  BY <1>6 DEF DeleteChunks, Resume
<1>7. CASE InsertChunks(r)  BY <1>7 DEF InsertChunks, Resume
<1>8. CASE EmbedQuery(r)  BY <1>8 DEF EmbedQuery, Lose
<1>9. CASE ReadChunks(r)  BY <1>9 DEF ReadChunks, Lose
<1>10. CASE FindSiblings(r)  BY <1>10 DEF FindSiblings, Lose
<1>11. CASE Score(r)  BY <1>11 DEF Score
<1>12. CASE Put(r)  BY <1>12 DEF Put, Resume, RaiseInto
<1>13. CASE Count(r)  BY <1>13 DEF Count, AfterCount, RaiseInto
<1>14. CASE Notable(r)  BY <1>14 DEF Notable, AfterCount, RaiseInto
<1>15. CASE Similar(r)  BY <1>15 DEF Similar
<1>16. CASE Timeout(r)  BY <1>16 DEF Timeout
<1> QED
  BY <1>1, <1>2, <1>3, <1>4, <1>5, <1>6, <1>7, <1>8, <1>9, <1>10, <1>11, <1>12,
     <1>13, <1>14, <1>15, <1>16 DEF AnalyzeStep

(* A call opens only by arriving, and keeps its attachment from then on.    *)
LEMMA StepKeepsAttachment ==
    ASSUME TypeInv, NEW r \in Requests, AnalyzeStep(r), ~Arrive(r)
    PROVE  att' = att /\ (pc'[r] \in Open => pc[r] \in Open)
<1> USE DEF TypeInv, TypeOK, Goto, Reply, ThreadGoes, Open, Pipeline
<1>1. CASE Refuse(r)  BY <1>1 DEF Refuse
<1>3. CASE Fetch(r)  BY <1>3 DEF Fetch
<1>4. CASE Lookup(r)  BY <1>4 DEF Lookup
<1>5. CASE Embed(r)  BY <1>5 DEF Embed
<1>6. CASE DeleteChunks(r)  BY <1>6 DEF DeleteChunks, Resume
<1>7. CASE InsertChunks(r)  BY <1>7 DEF InsertChunks, Resume
<1>8. CASE EmbedQuery(r)  BY <1>8 DEF EmbedQuery
<1>9. CASE ReadChunks(r)  BY <1>9 DEF ReadChunks
<1>10. CASE FindSiblings(r)  BY <1>10 DEF FindSiblings
<1>11. CASE Score(r)  BY <1>11 DEF Score
<1>12. CASE Put(r)  BY <1>12 DEF Put, Resume, RaiseInto
<1>13. CASE Count(r)  BY <1>13 DEF Count, AfterCount, RaiseInto
<1>14. CASE Notable(r)  BY <1>14 DEF Notable, AfterCount, RaiseInto
<1>15. CASE Similar(r)  BY <1>15 DEF Similar
<1>16. CASE Timeout(r)  BY <1>16 DEF Timeout
<1> QED
  BY <1>1, <1>3, <1>4, <1>5, <1>6, <1>7, <1>8, <1>9, <1>10, <1>11, <1>12,
     <1>13, <1>14, <1>15, <1>16 DEF AnalyzeStep

(* Without a timeout a coroutine leaves its thread only when it is done.    *)
LEMMA StepAttended ==
    ASSUME OneAtATime, TypeInv, NEW r \in Requests, Attended(r), AnalyzeStep(r)
    PROVE  Attended(r)'
<1> USE DEF OneAtATime, TypeInv, TypeOK, Attended, Goto, Reply, ThreadGoes
<1>1. CASE Refuse(r)  BY <1>1 DEF Refuse
<1>2. CASE Arrive(r)  BY <1>2 DEF Arrive
<1>3. CASE Fetch(r)  BY <1>3 DEF Fetch
<1>4. CASE Lookup(r)  BY <1>4 DEF Lookup
<1>5. CASE Embed(r)  BY <1>5 DEF Embed
<1>6. CASE DeleteChunks(r)  BY <1>6 DEF DeleteChunks, Resume
<1>7. CASE InsertChunks(r)  BY <1>7 DEF InsertChunks, Resume
<1>8. CASE EmbedQuery(r)  BY <1>8 DEF EmbedQuery
<1>9. CASE ReadChunks(r)  BY <1>9 DEF ReadChunks
<1>10. CASE FindSiblings(r)  BY <1>10 DEF FindSiblings
<1>11. CASE Score(r)  BY <1>11 DEF Score
<1>12. CASE Put(r)  BY <1>12 DEF Put, Resume, RaiseInto
<1>13. CASE Count(r)  BY <1>13 DEF Count, AfterCount, RaiseInto
<1>14. CASE Notable(r)  BY <1>14 DEF Notable, AfterCount, RaiseInto
<1>15. CASE Similar(r)  BY <1>15 DEF Similar
<1>16. CASE Timeout(r)  BY <1>16 DEF Timeout, Fails
<1> QED
  BY <1>1, <1>2, <1>3, <1>4, <1>5, <1>6, <1>7, <1>8, <1>9, <1>10, <1>11, <1>12,
     <1>13, <1>14, <1>15, <1>16 DEF AnalyzeStep

LEMMA StepAlone ==
    ASSUME OneAtATime, TypeInv, Alone, NEW r \in Requests, AnalyzeStep(r)
    PROVE  Alone'
<1>1. OthersSame(r)
  BY StepOfOneCall
<1>2. ASSUME NEW t \in Requests PROVE Attended(t)'
  <2>1. CASE t = r
    BY <2>1, StepAttended DEF Alone
  <2>2. CASE t # r
    BY <2>2, <1>1 DEF OthersSame, Alone, Attended
  <2> QED
    BY <2>1, <2>2
<1>3. ASSUME NEW t \in Requests, NEW q \in Requests PROVE Apart(t, q)'
  <2>1. Apart(t, q) /\ Apart(r, q) /\ Apart(t, r)
    BY DEF Alone
  <2>2. CASE Arrive(r)
    <3>1. pc[r] = "idle" /\ ~Busy(att'[r])
      BY <2>2 DEF Arrive, OneAtATime, TypeInv, TypeOK
    <3>2. \A u \in Requests \ {r} : pc[u] \in Open => att[u] # att'[r]
      BY <3>1 DEF Busy
    <3> QED
      BY <1>1, <2>1, <3>2 DEF OthersSame, Apart
  <2>3. CASE ~Arrive(r)
    BY <1>1, <2>1, <2>3, StepKeepsAttachment DEF OthersSame, Apart
  <2> QED
    BY <2>2, <2>3
<1> QED
  BY <1>2, <1>3 DEF Alone

LEMMA CrashAlone ==
    ASSUME TypeInv, Alone, Crash
    PROVE  Alone'
  BY DEF Crash, TypeInv, TypeOK, Alone, Apart, Attended, Open, Pipeline

LEMMA InitAlone == Init => Alone
  BY DEF Init, Alone, Apart, Attended, Open, Pipeline

LEMMA NextAlone == OneAtATime /\ TypeInv /\ Alone /\ [Next]_vars => Alone'
<1> SUFFICES ASSUME OneAtATime, TypeInv, Alone, [Next]_vars PROVE Alone'
  OBVIOUS
<1>1. ASSUME NEW r \in Requests, AnalyzeStep(r) PROVE Alone'
  BY <1>1, StepAlone
<1>2. ASSUME NEW s \in Rescans, RescanStep(s) PROVE Alone'
  <2>1. UNCHANGED request
    BY <1>2, Zenon DEF RescanStep, RescanArrive, RescanFind, RescanForget, RescanPurge
  <2> QED
    BY <2>1 DEF request, Alone, Apart, Attended
<1>3. CASE Crash
  BY <1>3, CrashAlone
<1>4. CASE UNCHANGED vars
  BY <1>4 DEF vars, request, Alone, Apart, Attended
<1> QED
  BY <1>1, <1>2, <1>3, <1>4 DEF Next

-----------------------------------------------------------------------------
(* The chunks of an attachment while its call is between the delete and     *)
(* the reading back: none, then its own.                                    *)
NoChunksOf(a)    == \A k \in chunks : k.att # a
OnlyOwnChunks(r) == \A k \in chunks : k.att = att[r] => k \in ChunksFor(r)

(* Nothing is upserted or seen before the upsert; a call that has upserted  *)
(* finds its own chunks, and what it has seen is its own.                   *)
ReadInv(r) ==
    /\ thread[r] = "insert" => NoChunksOf(att[r])
    /\ pc[r] \in {"idle", "fetch", "lookup", "embed", "upsert"} =>
            ~work[r].upserted /\ work[r].seen = {}
    /\ pc[r] = "query" /\ work[r].upserted => OnlyOwnChunks(r)
    /\ pc[r] = "read" => OnlyOwnChunks(r)
    /\ \A k \in work[r].seen : k \in ChunksFor(r)

ChunkInv == NoDuplicateChunks /\ \A r \in Requests : ReadInv(r)

(* Objects only ever disappear: nothing above is lost for another call.     *)
LEMMA FewerChunks ==
    ASSUME ChunkInv, chunks' \subseteq chunks, NEW t \in Requests,
           pc'[t] = pc[t], thread'[t] = thread[t], att'[t] = att[t],
           content'[t] = content[t], work'[t] = work[t]
    PROVE  ReadInv(t)'
  BY DEF ChunkInv, ReadInv, NoChunksOf, OnlyOwnChunks, ChunksFor

LEMMA FewerNoDuplicate ==
    ASSUME NoDuplicateChunks, chunks' \subseteq chunks
    PROVE  NoDuplicateChunks'
  BY DEF NoDuplicateChunks

(* The insert of a call adds its chunks where there were none.              *)
LEMMA InsertKeepsChunkInv ==
    ASSUME TypeInv, Alone, ChunkInv, NEW r \in Requests, InsertChunks(r)
    PROVE  ChunkInv'
<1> USE DEF TypeInv, TypeOK
<1>1. PICK kept \in SUBSET ChunksFor(r), raised \in BOOLEAN :
        /\ chunks' = chunks \cup kept
        /\ work' = [work EXCEPT ![r].upserted = (pc[r] = "upsert" /\ ~raised)]
  BY DEF InsertChunks
<1>2. /\ thread[r] = "insert" /\ pc[r] = "upsert" /\ pc'[r] = "query"
      /\ thread'[r] = "none" /\ att' = att /\ content' = content
  BY DEF InsertChunks, Resume, Goto, ThreadGoes, Alone, Attended
<1>3. \A k \in kept : k.att = att[r]
  BY <1>1 DEF ChunksFor
<1>4. NoChunksOf(att[r])
  BY <1>2 DEF ChunkInv, ReadInv
<1>5. \A k1, k2 \in kept : k1.index = k2.index => k1 = k2
  BY <1>1 DEF ChunksFor
<1>6. NoDuplicateChunks'
  BY <1>1, <1>3, <1>4, <1>5 DEF ChunkInv, NoDuplicateChunks, NoChunksOf
<1>7. work[r].seen = {} /\ work'[r].seen = work[r].seen
  <2>1. work[r].seen = {}
    BY <1>2 DEF ChunkInv, ReadInv
  <2>2. work[r] \in Work
    OBVIOUS
  <2> QED
    BY <1>1, <2>1, <2>2 DEF Work
<1>8. ASSUME NEW t \in Requests PROVE ReadInv(t)'
  <2>1. CASE t = r
    <3>1. OnlyOwnChunks(r)'
      BY <1>1, <1>2, <1>3, <1>4 DEF OnlyOwnChunks, NoChunksOf, ChunksFor
    <3> QED
      BY <2>1, <3>1, <1>2, <1>7 DEF ReadInv
  <2>2. CASE t # r
    <3>1. /\ pc'[t] = pc[t] /\ thread'[t] = thread[t] /\ att'[t] = att[t]
          /\ content'[t] = content[t] /\ work'[t] = work[t]
      BY <2>2, StepOfOneCall DEF OthersSame, AnalyzeStep
    <3>2. pc[r] \in Open /\ Apart(t, r) /\ Attended(t) /\ ReadInv(t)
      BY <1>2 DEF Open, Pipeline, Alone, ChunkInv
    <3>3. CASE pc[t] \in {"upsert", "query", "read"}
      <4>1. att[t] # att[r]
        BY <2>2, <3>2, <3>3 DEF Apart, Open, Pipeline
      <4>2. \A k \in chunks' : k.att = att[t] => k \in chunks
        BY <1>1, <1>3, <4>1
      <4> QED
        BY <3>1, <3>2, <4>2 DEF ReadInv, NoChunksOf, OnlyOwnChunks, ChunksFor
    <3>4. CASE pc[t] \notin {"upsert", "query", "read"}
      BY <3>1, <3>2, <3>4 DEF ReadInv, Attended, ChunksFor
    <3> QED
      BY <3>3, <3>4
  <2> QED
    BY <2>1, <2>2
<1> QED
  BY <1>6, <1>8 DEF ChunkInv

LEMMA OtherStepsKeepReadInv ==
    ASSUME TypeInv, Alone, ChunkInv, NEW r \in Requests, AnalyzeStep(r), ~InsertChunks(r)
    PROVE  ReadInv(r)' /\ chunks' \subseteq chunks
<1> USE DEF TypeInv, TypeOK, Goto, Reply, ThreadGoes, mongo, history
<1>0. ReadInv(r) /\ Attended(r) /\ work[r] \in Work
  BY DEF ChunkInv, Alone
<1>1. CASE Refuse(r)
  BY <1>0, <1>1 DEF Refuse, ReadInv, Attended, ChunksFor
<1>2. CASE Arrive(r)
  BY <1>0, <1>2 DEF Arrive, ReadInv, Attended, ChunksFor
<1>3. CASE Fetch(r)
  BY <1>0, <1>3 DEF Fetch, ReadInv, Attended, ChunksFor
<1>4. CASE Lookup(r)
  BY <1>0, <1>4 DEF Lookup, ReadInv, Attended, ChunksFor
<1>5. CASE Embed(r)
  <2>1. work'[r].upserted = work[r].upserted /\ work'[r].seen = work[r].seen
    BY <1>0, <1>5 DEF Embed, Work
  <2>2. /\ pc[r] = "embed" /\ pc'[r] \in {"upsert", "query"}
        /\ thread'[r] \in {thread[r], "delete"}
        /\ UNCHANGED <<chunks, att, content>>
    BY <1>5 DEF Embed
  <2> QED
    BY <1>0, <2>1, <2>2 DEF ReadInv, Attended, ChunksFor
<1>6. CASE DeleteChunks(r)
  BY <1>0, <1>6 DEF DeleteChunks, Resume, ReadInv, Attended, ChunksFor, NoChunksOf
<1>8. CASE EmbedQuery(r)
  <2>1. work'[r].upserted = work[r].upserted /\ work'[r].seen = work[r].seen
    BY <1>0, <1>8 DEF EmbedQuery, Lose, Work
  <2> QED
    BY <1>0, <1>8, <2>1 DEF EmbedQuery, ReadInv, Attended, ChunksFor, OnlyOwnChunks
<1>9. CASE ReadChunks(r)
  <2>1. work'[r].seen \in {work[r].seen, {k \in chunks : k.att = att[r]}}
    BY <1>0, <1>9 DEF ReadChunks, Lose, Work
  <2>2. OnlyOwnChunks(r)
    BY <1>0, <1>9 DEF ReadChunks, ReadInv
  <2>3. \A k \in work'[r].seen : k \in ChunksFor(r)
    BY <1>0, <2>1, <2>2 DEF ReadInv, OnlyOwnChunks
  <2>4. /\ pc[r] = "read" /\ pc'[r] \in {"siblings", "score"}
        /\ UNCHANGED <<chunks, thread, att, content>>
    BY <1>9 DEF ReadChunks
  <2> QED
    BY <1>0, <2>3, <2>4 DEF ReadInv, Attended, ChunksFor
<1>10. CASE FindSiblings(r)
  <2>1. work'[r].seen = work[r].seen
    BY <1>0, <1>10 DEF FindSiblings, Lose, Work
  <2> QED
    BY <1>0, <1>10, <2>1 DEF FindSiblings, ReadInv, Attended, ChunksFor
<1>11. CASE Score(r)
  <2>1. PICK low \in Lows, lost \in SUBSET {"summary"} :
          work' = [work EXCEPT ![r].low = low, ![r].missing = @ \cup lost]
    BY <1>11, Zenon DEF Score
  <2>2. work'[r].seen = work[r].seen
    BY <1>0, <2>1 DEF Work
  <2>3. /\ pc[r] = "score" /\ pc'[r] \in {"done", "put"}
        /\ thread'[r] \in {thread[r], "put"}
        /\ UNCHANGED <<chunks, att, content>>
    BY <1>11 DEF Score
  <2> QED
    BY <1>0, <2>2, <2>3 DEF ReadInv, Attended, ChunksFor
<1>12. CASE Put(r)
  BY <1>0, <1>12 DEF Put, Resume, RaiseInto, ReadInv, Attended, ChunksFor
<1>13. CASE Count(r)
  BY <1>0, <1>13 DEF Count, AfterCount, RaiseInto, ReadInv, Attended, ChunksFor
<1>14. CASE Notable(r)
  BY <1>0, <1>14 DEF Notable, AfterCount, RaiseInto, ReadInv, Attended, ChunksFor
<1>15. CASE Similar(r)
  BY <1>0, <1>15 DEF Similar, ReadInv, Attended, ChunksFor
<1>16. CASE Timeout(r)
  <2>1. /\ pc'[r] = "done" /\ thread'[r] \in {thread[r], "none"}
        /\ UNCHANGED <<chunks, att, content, work>>
    BY <1>16 DEF Timeout
  <2> QED
    BY <1>0, <2>1 DEF ReadInv, ChunksFor, NoChunksOf
<1> QED
  BY <1>1, <1>2, <1>3, <1>4, <1>5, <1>6, <1>8, <1>9, <1>10, <1>11, <1>12,
     <1>13, <1>14, <1>15, <1>16 DEF AnalyzeStep

LEMMA InitChunkInv == Init => ChunkInv
  BY DEF Init, ChunkInv, ReadInv, NoDuplicateChunks, NoWork

LEMMA NextChunkInv == TypeInv /\ Alone /\ ChunkInv /\ [Next]_vars => ChunkInv'
<1> SUFFICES ASSUME TypeInv, Alone, ChunkInv, [Next]_vars PROVE ChunkInv'
  OBVIOUS
<1>1. ASSUME NEW r \in Requests, AnalyzeStep(r), ~InsertChunks(r) PROVE ChunkInv'
  <2>1. ReadInv(r)' /\ chunks' \subseteq chunks
    BY <1>1, OtherStepsKeepReadInv
  <2>2. \A t \in Requests \ {r} : ReadInv(t)'
    BY <1>1, <2>1, StepOfOneCall, FewerChunks DEF OthersSame
  <2>3. NoDuplicateChunks'
    BY <2>1, FewerNoDuplicate DEF ChunkInv
  <2> QED
    BY <2>1, <2>2, <2>3 DEF ChunkInv
<1>2. ASSUME NEW r \in Requests, InsertChunks(r) PROVE ChunkInv'
  BY <1>2, InsertKeepsChunkInv
<1>3. ASSUME NEW s \in Rescans, RescanStep(s) PROVE ChunkInv'
  <2>1. UNCHANGED request /\ chunks' \subseteq chunks
    BY <1>3, Zenon DEF RescanStep, RescanArrive, RescanFind, RescanForget, RescanPurge
  <2>2. \A t \in Requests : ReadInv(t)'
    BY <2>1, FewerChunks DEF request
  <2> QED
    BY <2>1, <2>2, FewerNoDuplicate DEF ChunkInv
<1>4. CASE Crash
  BY <1>4 DEF Crash, ChunkInv, ReadInv, NoDuplicateChunks, OnlyOwnChunks, ChunksFor,
     Open, Pipeline, TypeInv, TypeOK
<1>5. CASE UNCHANGED vars
  BY <1>5 DEF vars, request, ChunkInv, ReadInv, NoDuplicateChunks, NoChunksOf,
     OnlyOwnChunks, ChunksFor
<1> QED
  BY <1>1, <1>2, <1>3, <1>4, <1>5 DEF Next

(* The invariants of calls that run one at a time.                          *)
SerialInv == TypeInv /\ Alone /\ ChunkInv

LEMMA SerialCorrect ==
    ASSUME OneAtATime PROVE Spec => []SerialInv
<1>1. Init => SerialInv
  BY InitTypeInv, InitAlone, InitChunkInv DEF SerialInv
<1>2. SerialInv /\ [Next]_vars => SerialInv'
  BY NextTypeInv, NextAlone, NextChunkInv DEF SerialInv
<1> QED
  BY <1>1, <1>2, PTL DEF Spec

(* upsert_chunks deletes before it inserts: if calls about an attachment do *)
(* not overlap and none is cut off by the timer, Weaviate never holds a     *)
(* chunk twice, whatever fails or restarts between the delete and the       *)
(* insert.                                                                  *)
THEOREM ChunksAreNeverDuplicated ==
    ASSUME OneAtATime PROVE Spec => []NoDuplicateChunks
<1>1. SerialInv => NoDuplicateChunks
  BY DEF SerialInv, ChunkInv
<1> QED
  BY SerialCorrect, <1>1, PTL

(* Under the same conditions a verdict that is stored was computed from     *)
(* chunks of the bytes it is filed under, rescans or not.                   *)
THEOREM VerdictsComeFromOwnChunks ==
    ASSUME OneAtATime PROVE Spec => []VerdictFromOwnChunks
<1>1. SerialInv => VerdictFromOwnChunks
  BY Zenon DEF SerialInv, TypeInv, TypeOK, ChunkInv, ReadInv, VerdictFromOwnChunks
<1> QED
  BY SerialCorrect, <1>1, PTL

-----------------------------------------------------------------------------
(* The promise of a rescan.  The cache is keyed by bytes and swept by the   *)
(* attachment filed with them, so that it can hold only if no file is       *)
(* attached twice.                                                          *)
NoSharedFiles ==
    \A a, b \in Attachments : a # b => Bytes[a] \cap Bytes[b] = {}

Forgotten(a) == \A c \in Bytes[a] : cache[c] = None

(* A verdict is filed under bytes of its call's attachment.                 *)
FiledInv ==
    /\ \A c \in Contents : cache[c] # None =>
            /\ pc[cache[c]] # "idle"
            /\ att[cache[c]] \in Attachments /\ c \in Bytes[att[cache[c]]]
    /\ \A r \in Requests : pc[r] \in Open \ {"fetch"} => content[r] \in Bytes[att[r]]

(* What a rescan has swept stays swept while nobody arrives for it.         *)
Swept(s, a) == a \in scan[s].scheduled \/ (scanPc[s] = "purge" /\ a = scan[s].current)

SweepInv ==
    /\ \A s \in Rescans : \A a \in quiet[s] : ~Busy(a) /\ (Swept(s, a) => Forgotten(a))
    /\ \A a \in pending : ~Busy(a) /\ Forgotten(a)

(* The first call after a promise still finds nothing cached.               *)
Rerun(r) ==
    /\ pc[r] # "idle" /\ answer[r] # "hit"
    /\ pc[r] \in {"fetch", "lookup"} => Forgotten(att[r])

PromiseInv == \A r \in promised : Rerun(r)

RerunInv == FiledInv /\ SweepInv /\ PromiseInv

(* Only a put fills the cache, and only for an attachment it is about.      *)
LEMMA CacheFills ==
    ASSUME TypeInv, Alone, FiledInv, NEW r \in Requests, AnalyzeStep(r),
           NEW c \in Contents, cache'[c] # cache[c]
    PROVE  /\ Put(r) /\ cache'[c] = r /\ c = content[r]
           /\ pc[r] = "put" /\ c \in Bytes[att[r]]
<1>1. Put(r)
  BY DEF AnalyzeStep, Refuse, Arrive, Fetch, Lookup, Embed, DeleteChunks, InsertChunks,
     EmbedQuery, ReadChunks, FindSiblings, Score, Count, Notable, Similar, Timeout, mongo
<1>2. cache' = [cache EXCEPT ![content[r]] = r] \/ cache' = cache
  BY <1>1 DEF Put, StoreVerdict
<1>3. cache'[c] = r /\ c = content[r]
  BY <1>2 DEF TypeInv, TypeOK
<1>4. pc[r] = "put"
  BY <1>1 DEF Put, Alone, Attended
<1> QED
  BY <1>1, <1>3, <1>4 DEF FiledInv, Open, Pipeline

(* A step of one call leaves another attachment's verdicts forgotten.       *)
LEMMA StaysForgotten ==
    ASSUME NoSharedFiles, TypeInv, Alone, FiledInv, NEW r \in Requests, AnalyzeStep(r),
           NEW a \in Attachments, Forgotten(a), ~(pc[r] = "put" /\ att[r] = a)
    PROVE  Forgotten(a)'
<1> SUFFICES ASSUME NEW c \in Bytes[a], cache'[c] # None PROVE FALSE
  BY DEF Forgotten
<1>1. c \in Contents /\ cache'[c] # cache[c]
  BY ConstantsAssumption DEF Forgotten
<1>2. pc[r] = "put" /\ c \in Bytes[att[r]]
  BY <1>1, CacheFills
<1>3. att[r] \in Attachments
  BY <1>2 DEF TypeInv, Named, Open, Pipeline
<1> QED
  BY <1>2, <1>3 DEF NoSharedFiles

LEMMA StepFiled ==
    ASSUME TypeInv, Alone, FiledInv, NEW r \in Requests, AnalyzeStep(r)
    PROVE  FiledInv'
<1> USE DEF TypeInv, TypeOK
<1>0. OthersSame(r)
  BY StepOfOneCall
<1>1. ASSUME NEW t \in Requests, pc[t] # "idle" PROVE pc'[t] # "idle" /\ att'[t] = att[t]
  <2>1. CASE t = r
    <3>1. ~Arrive(r)
      BY <1>1, <2>1 DEF Arrive
    <3>2. pc'[r] # "idle"
      <4> USE DEF Goto, Reply
      <4>1. CASE InsertChunks(r) \/ DeleteChunks(r)
        BY <1>1, <2>1, <4>1 DEF InsertChunks, DeleteChunks, Resume
      <4>2. CASE Put(r) \/ Count(r) \/ Notable(r)
        BY <1>1, <2>1, <4>2 DEF Put, Count, Notable, Resume, RaiseInto, AfterCount
      <4> QED
        BY <1>1, <2>1, <3>1, <4>1, <4>2 DEF AnalyzeStep, Refuse, Fetch, Lookup, Embed,
           EmbedQuery, ReadChunks, FindSiblings, Score, Similar, Timeout
    <3> QED
      BY <2>1, <3>1, <3>2, StepKeepsAttachment
  <2>2. CASE t # r
    BY <1>0, <1>1, <2>2 DEF OthersSame
  <2> QED
    BY <2>1, <2>2
<1>2. ASSUME NEW c \in Contents, cache'[c] # None
      PROVE  /\ pc'[cache'[c]] # "idle"
             /\ att'[cache'[c]] \in Attachments /\ c \in Bytes[att'[cache'[c]]]
  <2>1. CASE cache'[c] = cache[c]
    BY <1>1, <1>2, <2>1 DEF FiledInv
  <2>2. CASE cache'[c] # cache[c]
    <3>1. pc[r] = "put" /\ cache'[c] = r /\ c \in Bytes[att[r]] /\ att[r] \in Attachments
      BY <2>2, CacheFills DEF Named, Open, Pipeline
    <3> QED
      BY <1>1, <3>1
  <2> QED
    BY <2>1, <2>2
<1>3. ASSUME NEW t \in Requests, pc'[t] \in Open \ {"fetch"}
      PROVE  content'[t] \in Bytes[att'[t]]
  <2>1. CASE t # r
    BY <1>0, <1>3, <2>1 DEF OthersSame, FiledInv
  <2>2. CASE t = r /\ Fetch(r)
    BY <1>3, <2>2 DEF Fetch, Goto, Reply, Open, Pipeline
  <2>3. CASE t = r /\ ~Fetch(r)
    <3>1. ~Arrive(r)
      BY <1>3, <2>3 DEF Arrive, Goto
    <3>2. pc[r] \in Open /\ pc[r] # "fetch" /\ content' = content
      <4>1. pc[r] \in Open
        BY <1>3, <2>3, <3>1, StepKeepsAttachment
      <4>2. content' = content
        BY <2>3, <3>1 DEF AnalyzeStep, Refuse, Lookup, Embed, DeleteChunks, InsertChunks,
           EmbedQuery, ReadChunks, FindSiblings, Score, Put, Count, Notable, Similar, Timeout
      <4>3. pc[r] # "fetch"
        <5>1. CASE thread[r] # "none"
          BY <5>1 DEF Alone, Attended, Jobs
        <5>2. CASE thread[r] = "none"
          BY <1>3, <2>3, <3>1, <4>1, <5>2 DEF AnalyzeStep, Refuse, Lookup, Embed,
             DeleteChunks, InsertChunks, EmbedQuery, ReadChunks, FindSiblings, Score, Put,
             Count, Notable, Similar, Timeout, Pipeline
        <5> QED
          BY <5>1, <5>2
      <4> QED
        BY <4>1, <4>2, <4>3
    <3> QED
      BY <2>3, <3>1, <3>2, StepKeepsAttachment DEF FiledInv
  <2> QED
    BY <2>1, <2>2, <2>3
<1> QED
  BY <1>2, <1>3 DEF FiledInv

(* An attachment nobody is busy with stays so, unless a call arrives for it.*)
LEMMA StaysQuiet ==
    ASSUME TypeInv, NEW r \in Requests, AnalyzeStep(r), NEW a \in Attachments,
           ~Busy(a), ~(Arrive(r) /\ att'[r] = a)
    PROVE  ~Busy(a)'
<1> SUFFICES ASSUME NEW t \in Requests, pc'[t] \in Open, att'[t] = a PROVE FALSE
  BY DEF Busy
<1>1. CASE t # r
  BY <1>1, StepOfOneCall DEF OthersSame, Busy
<1>2. CASE t = r /\ Arrive(r)
  BY <1>2
<1>3. CASE t = r /\ ~Arrive(r)
  BY <1>3, StepKeepsAttachment DEF Busy
<1> QED
  BY <1>1, <1>2, <1>3

LEMMA StepSwept ==
    ASSUME NoSharedFiles, TypeInv, Alone, FiledInv, SweepInv,
           NEW r \in Requests, AnalyzeStep(r)
    PROVE  SweepInv'
<1> USE DEF TypeInv, TypeOK
<1>1. UNCHANGED <<scanPc, scan>>
  BY DEF AnalyzeStep, Refuse, Arrive, Fetch, Lookup, Embed, DeleteChunks, InsertChunks,
     EmbedQuery, ReadChunks, FindSiblings, Score, Put, Count, Notable, Similar, Timeout,
     scanning
<1>2. \/ UNCHANGED <<quiet, pending>>
      \/ /\ Arrive(r)
         /\ pending' = pending \ {att'[r]}
         /\ quiet' = [s \in Rescans |-> quiet[s] \ {att'[r]}]
  <2>1. CASE Arrive(r)
    BY <2>1 DEF Arrive
  <2>2. CASE ~Arrive(r)
    BY <2>2 DEF AnalyzeStep, Refuse, Fetch, Lookup, Embed, DeleteChunks, InsertChunks,
       EmbedQuery, ReadChunks, FindSiblings, Score, Put, Count, Notable, Similar, Timeout,
       history
  <2> QED
    BY <2>1, <2>2
<1>3. ASSUME NEW a \in Attachments, ~Busy(a), ~(Arrive(r) /\ att'[r] = a)
      PROVE  ~Busy(a)' /\ (Forgotten(a) => Forgotten(a)')
  <2>1. ~(pc[r] = "put" /\ att[r] = a)
    BY <1>3 DEF Busy, Open, Pipeline
  <2> QED
    BY <1>3, <2>1, StaysQuiet, StaysForgotten
<1>4. ASSUME NEW s \in Rescans, NEW a \in quiet'[s]
      PROVE  ~Busy(a)' /\ (Swept(s, a)' => Forgotten(a)')
  <2>1. a \in quiet[s] /\ a \in Attachments /\ ~(Arrive(r) /\ att'[r] = a)
    <3>1. CASE UNCHANGED <<quiet, pending>> /\ ~Arrive(r)
      BY <3>1
    <3>2. CASE Arrive(r) /\ UNCHANGED quiet
      <4>1. att'[r] \notin quiet'[s]
        BY <3>2 DEF Arrive
      <4> QED
        BY <3>2, <4>1
    <3>3. CASE quiet' = [t \in Rescans |-> quiet[t] \ {att'[r]}]
      BY <3>3
    <3> QED
      BY <1>2, <3>1, <3>2, <3>3
  <2>2. ~Busy(a) /\ (Swept(s, a) => Forgotten(a))
    BY <2>1 DEF SweepInv
  <2>3. Swept(s, a)' => Swept(s, a)
    BY <1>1 DEF Swept
  <2> QED
    BY <1>3, <2>1, <2>2, <2>3
<1>5. ASSUME NEW a \in pending' PROVE ~Busy(a)' /\ Forgotten(a)'
  <2>1. a \in pending /\ a \in Attachments /\ ~(Arrive(r) /\ att'[r] = a)
    BY <1>2 DEF Arrive
  <2> QED
    BY <1>3, <2>1 DEF SweepInv
<1> QED
  BY <1>4, <1>5 DEF SweepInv

(* A call that does not arrive, fetch or look up is not told of a hit.      *)
LEMMA LaterSteps ==
    ASSUME TypeInv, Alone, NEW r \in Requests, AnalyzeStep(r), pc[r] # "idle",
           ~Fetch(r), ~Lookup(r), answer[r] # "hit"
    PROVE  pc'[r] \notin {"idle", "fetch", "lookup"} /\ answer'[r] # "hit"
<1> USE DEF TypeInv, TypeOK, Goto, Reply, Resume
<1>0. Attended(r)
  BY DEF Alone
<1>1. CASE Embed(r) \/ Timeout(r)
  BY <1>1 DEF Embed, Timeout
<1>2. CASE DeleteChunks(r)
  BY <1>0, <1>2 DEF DeleteChunks, Attended
<1>3. CASE InsertChunks(r)
  BY <1>0, <1>3 DEF InsertChunks, Attended
<1>4. CASE EmbedQuery(r) \/ ReadChunks(r) \/ FindSiblings(r) \/ Similar(r)
  BY <1>4 DEF EmbedQuery, ReadChunks, FindSiblings, Similar
<1>5. CASE Score(r)
  BY <1>5 DEF Score
<1>6. CASE Put(r)
  BY <1>0, <1>6 DEF Put, RaiseInto, Attended
<1>7. CASE Count(r) \/ Notable(r)
  BY <1>0, <1>7 DEF Count, Notable, RaiseInto, AfterCount, Attended
<1> QED
  BY <1>1, <1>2, <1>3, <1>4, <1>5, <1>6, <1>7 DEF AnalyzeStep, Refuse, Arrive

LEMMA StepPromise ==
    ASSUME NoSharedFiles, LedgerInv, Alone, RerunInv, NEW r \in Requests, AnalyzeStep(r)
    PROVE  PromiseInv'
<1> USE DEF LedgerInv, TypeInv, TypeOK, RerunInv
<1>0. OthersSame(r)
  BY StepOfOneCall
<1>1. ASSUME NEW t \in promised, t # r PROVE Rerun(t)'
  <2>1. /\ pc'[t] = pc[t] /\ answer'[t] = answer[t] /\ att'[t] = att[t] /\ Rerun(t)
    BY <1>0, <1>1 DEF OthersSame, PromiseInv
  <2>2. CASE pc[t] \in {"fetch", "lookup"}
    <3>1. att[t] \in Attachments /\ Forgotten(att[t])
      BY <2>1, <2>2 DEF Rerun, Named, Open, Pipeline
    <3>2. ~(pc[r] = "put" /\ att[r] = att[t])
      BY <1>1, <2>2 DEF Alone, Apart, Open, Pipeline
    <3>3. \A a \in Attachments : a = att[t] => Forgotten(a)'
      BY <3>1, <3>2, StaysForgotten
    <3> QED
      BY <2>1, <2>2, <3>1, <3>3 DEF Rerun, Forgotten
  <2>3. CASE pc[t] \notin {"fetch", "lookup"}
    BY <2>1, <2>3 DEF Rerun
  <2> QED
    BY <2>2, <2>3
<1>2. CASE Arrive(r)
  <2>1. PICK a \in Targets[r] :
          /\ att' = [att EXCEPT ![r] = a]
          /\ promised' = IF a \in pending THEN promised \cup {r} ELSE promised
    BY <1>2 DEF Arrive
  <2>2. /\ pc[r] = "idle" /\ pc' = [pc EXCEPT ![r] = "fetch"]
        /\ UNCHANGED <<cache, answer>>
    BY <1>2 DEF Arrive, Goto, mongo
  <2>3. r \notin promised
    BY <2>2 DEF PromiseInv, Rerun
  <2>4. a \in Attachments /\ att'[r] = a
    BY <2>1, ConstantsAssumption
  <2>5. answer[r] = "none"
    BY <2>2 DEF RecordInv, CoroutineInv
  <2>6. r \in promised' => Rerun(r)'
    BY <2>1, <2>2, <2>3, <2>4, <2>5 DEF SweepInv, Forgotten, Rerun
  <2> QED
    BY <1>1, <2>1, <2>6 DEF PromiseInv
<1>3. CASE ~Arrive(r)
  <2>1. promised' = promised
    BY <1>3 DEF AnalyzeStep, Refuse, Fetch, Lookup, Embed, DeleteChunks, InsertChunks,
       EmbedQuery, ReadChunks, FindSiblings, Score, Put, Count, Notable, Similar, Timeout,
       history
  <2>2. ASSUME r \in promised PROVE Rerun(r)'
    <3>1. Rerun(r)
      BY <2>2 DEF PromiseInv
    <3>2. CASE Fetch(r)
      BY <3>1, <3>2 DEF Fetch, Goto, Reply, Rerun, Forgotten, mongo
    <3>3. CASE Lookup(r)
      <4>1. cache[content[r]] = None
        BY <3>1, <3>3 DEF Lookup, Rerun, FiledInv, Forgotten, Open, Pipeline
      <4> QED
        BY <3>1, <3>3, <4>1 DEF Lookup, Goto, Reply, Rerun
    <3>4. CASE ~Fetch(r) /\ ~Lookup(r)
      BY <3>1, <3>4, LaterSteps DEF Rerun
    <3> QED
      BY <3>2, <3>3, <3>4
  <2> QED
    BY <1>1, <2>1, <2>2 DEF PromiseInv
<1> QED
  BY <1>2, <1>3

(* A rescan only takes verdicts out of the cache.                           *)
OnlyForgets == \A c \in Contents : cache'[c] \in {cache[c], None}

LEMMA RescanOnlyForgets ==
    ASSUME TypeInv, NEW s \in Rescans, RescanStep(s)
    PROVE  OnlyForgets /\ UNCHANGED request /\ UNCHANGED promised
<1> USE DEF TypeInv, TypeOK, OnlyForgets, mongo
<1>1. CASE RescanArrive(s)  BY <1>1 DEF RescanArrive
<1>2. CASE RescanFind(s)  BY <1>2 DEF RescanFind
<1>3. CASE RescanForget(s)  BY <1>3 DEF RescanForget
<1>4. CASE RescanPurge(s)  BY <1>4 DEF RescanPurge
<1> QED
  BY <1>1, <1>2, <1>3, <1>4 DEF RescanStep

LEMMA ForgettingKeeps ==
    ASSUME TypeInv, OnlyForgets, UNCHANGED request
    PROVE  /\ FiledInv => FiledInv'
           /\ UNCHANGED promised /\ PromiseInv => PromiseInv'
           /\ \A a \in Attachments : Busy(a)' = Busy(a) /\ (Forgotten(a) => Forgotten(a)')
<1> USE DEF TypeInv, TypeOK, OnlyForgets, request
<1>1. FiledInv => FiledInv'
  BY DEF FiledInv
<1>2. ASSUME NEW a \in Attachments, Forgotten(a) PROVE Forgotten(a)'
  BY <1>2, ConstantsAssumption DEF Forgotten
<1>3. \A a \in Attachments : Busy(a)' = Busy(a)
  BY DEF Busy
<1>4. ASSUME UNCHANGED promised, PromiseInv, NEW r \in promised PROVE Rerun(r)'
  <2>1. Rerun(r)
    BY <1>4 DEF PromiseInv
  <2>2. pc[r] \in {"fetch", "lookup"} => att[r] \in Attachments
    BY DEF Named, Open, Pipeline
  <2> QED
    BY <1>2, <2>1, <2>2 DEF Rerun, Forgotten
<1> QED
  BY <1>1, <1>2, <1>3, <1>4 DEF PromiseInv

(* All verdicts of a swept attachment are gone: they are filed under it.    *)
LEMMA SweepForgets ==
    ASSUME NoSharedFiles, TypeInv, FiledInv, NEW a \in Attachments,
           cache' = [c \in Contents |-> IF c \in CachedFor(a) THEN None ELSE cache[c]]
    PROVE  Forgotten(a)'
<1> SUFFICES ASSUME NEW c \in Bytes[a], cache'[c] # None PROVE FALSE
  BY DEF Forgotten
<1> USE DEF TypeInv, TypeOK
<1>1. c \in Contents
  BY ConstantsAssumption
<1>2. cache[c] # None /\ att[cache[c]] # a /\ cache[c] \in Requests
  BY <1>1 DEF CachedFor
<1>3. att[cache[c]] \in Attachments /\ c \in Bytes[att[cache[c]]]
  BY <1>1, <1>2 DEF FiledInv
<1> QED
  BY <1>2, <1>3 DEF NoSharedFiles

(* Going on with the next attachment keeps what the rescan has swept.       *)
LEMMA NextSwept ==
    ASSUME TypeInv, SweepInv, OnlyForgets, UNCHANGED <<request, quiet>>,
           NEW s \in Rescans, NEW a \in Attachments,
           NEW done \in SUBSET Attachments, RescanNext(s, a, done),
           \A b \in done \cap quiet[s] : Forgotten(b)
    PROVE  SweepInv'
<1> USE DEF TypeInv, TypeOK, RescanNext
<1>1. \A b \in Attachments : Busy(b)' = Busy(b) /\ (Forgotten(b) => Forgotten(b)')
  BY ForgettingKeeps
<1>2. /\ \A t \in Rescans \ {s} : scan'[t] = scan[t] /\ scanPc'[t] = scanPc[t]
      /\ scanPc'[s] # "purge"
  OBVIOUS
<1>3. scan'[s].scheduled = done
  BY DEF Scan
<1>4. ASSUME NEW t \in Rescans, NEW b \in quiet'[t]
      PROVE  ~Busy(b)' /\ (Swept(t, b)' => Forgotten(b)')
  <2>1. b \in quiet[t] /\ b \in Attachments /\ ~Busy(b) /\ (Swept(t, b) => Forgotten(b))
    BY DEF SweepInv
  <2>2. Swept(t, b)' => Swept(t, b) \/ (t = s /\ b \in done)
    BY <1>2, <1>3 DEF Swept
  <2> QED
    BY <1>1, <2>1, <2>2
<1>5. ASSUME NEW b \in pending' PROVE ~Busy(b)' /\ Forgotten(b)'
  <2>1. b \in pending \/ b \in done \cap quiet[s]
    OBVIOUS
  <2>2. b \in Attachments /\ ~Busy(b) /\ Forgotten(b)
    BY <2>1 DEF SweepInv
  <2> QED
    BY <1>1, <2>2
<1> QED
  BY <1>4, <1>5 DEF SweepInv

LEMMA RescanSwept ==
    ASSUME NoSharedFiles, TypeInv, FiledInv, SweepInv,
           NEW s \in Rescans, RescanStep(s)
    PROVE  SweepInv'
<1> USE DEF TypeInv, TypeOK
<1>0. OnlyForgets /\ UNCHANGED request
  BY RescanOnlyForgets
<1>1. \A b \in Attachments : Busy(b)' = Busy(b) /\ (Forgotten(b) => Forgotten(b)')
  BY <1>0, ForgettingKeeps
<1>2. /\ scan[s].scheduled \in SUBSET Attachments /\ scan[s].todo \in SUBSET Attachments
      /\ \A b \in scan[s].scheduled \cap quiet[s] : Forgotten(b)
  <2>1. scan[s].scheduled \in SUBSET Attachments /\ scan[s].todo \in SUBSET Attachments
    BY DEF Scan
  <2> QED
    BY <2>1 DEF SweepInv, Swept
<1>3. CASE RescanArrive(s)
  <2>1. PICK force \in BOOLEAN, todo \in SUBSET Attachments :
          /\ scan' = [scan EXCEPT ![s] = [NoScan EXCEPT !.force = force, !.todo = todo]]
          /\ quiet' = [quiet EXCEPT ![s] = {a \in todo : ~Busy(a)}]
    BY <1>3, Zenon DEF RescanArrive
  <2>2. scan'[s].scheduled = {} /\ scanPc'[s] = "next" /\ pending' = pending
    BY <1>3, <2>1 DEF RescanArrive, NoScan
  <2>3. \A t \in Rescans \ {s} :
          scan'[t] = scan[t] /\ scanPc'[t] = scanPc[t] /\ quiet'[t] = quiet[t]
    BY <1>3, <2>1 DEF RescanArrive
  <2>4. ASSUME NEW t \in Rescans, NEW b \in quiet'[t]
        PROVE  ~Busy(b)' /\ (Swept(t, b)' => Forgotten(b)')
    <3>1. CASE t = s
      <4>1. b \in Attachments /\ ~Busy(b)
        BY <2>1, <2>4, <3>1
      <4> QED
        BY <1>1, <2>2, <3>1, <4>1 DEF Swept
    <3>2. CASE t # s
      <4>1. b \in quiet[t] /\ b \in Attachments /\ ~Busy(b) /\ (Swept(t, b) => Forgotten(b))
        BY <2>3, <2>4, <3>2 DEF SweepInv
      <4> QED
        BY <1>1, <2>3, <3>2, <4>1 DEF Swept
    <3> QED
      BY <3>1, <3>2
  <2> QED
    BY <1>1, <2>2, <2>4 DEF SweepInv
<1>4. CASE RescanFind(s)
  <2>1. UNCHANGED quiet
    BY <1>4 DEF RescanFind
  <2>2. PICK a \in scan[s].todo :
          \/ /\ scan' = [scan EXCEPT ![s].current = a]
             /\ scanPc' = [scanPc EXCEPT ![s] = "forget"]
             /\ UNCHANGED pending
          \/ RescanNext(s, a, scan[s].scheduled)
    BY <1>4 DEF RescanFind
  <2>3. CASE RescanNext(s, a, scan[s].scheduled)
    BY <1>0, <1>2, <2>1, <2>3, NextSwept
  <2>4. CASE /\ scan' = [scan EXCEPT ![s].current = a]
             /\ scanPc' = [scanPc EXCEPT ![s] = "forget"]
             /\ UNCHANGED pending
    <3>1. \A t \in Rescans : scan'[t].scheduled = scan[t].scheduled
      BY <2>4 DEF Scan
    <3>2. \A t \in Rescans \ {s} : scan'[t] = scan[t] /\ scanPc'[t] = scanPc[t]
      BY <2>4
    <3>3. ASSUME NEW t \in Rescans, NEW b \in quiet[t]
          PROVE  Swept(t, b)' => Swept(t, b)
      BY <2>4, <3>1, <3>2 DEF Swept
    <3> QED
      BY <1>1, <2>1, <2>4, <3>3 DEF SweepInv
  <2> QED
    BY <2>2, <2>3, <2>4
<1>5. CASE RescanForget(s)
  <2>1. UNCHANGED quiet /\ scan[s].current \in Attachments
    BY <1>5 DEF RescanForget, Named
  <2>2. CASE RescanNext(s, scan[s].current, scan[s].scheduled)
    BY <1>0, <1>2, <2>1, <2>2, NextSwept
  <2>3. CASE ~RescanNext(s, scan[s].current, scan[s].scheduled)
    <3>1. /\ cache' = [c \in Contents |->
                          IF c \in CachedFor(scan[s].current) THEN None ELSE cache[c]]
          /\ scanPc' = [scanPc EXCEPT ![s] = "purge"]
          /\ UNCHANGED <<scan, pending>>
      BY <1>5, <2>3 DEF RescanForget
    <3>2. Forgotten(scan[s].current)'
      <4>1. \A a \in Attachments : a = scan[s].current => Forgotten(a)'
        BY <3>1, SweepForgets
      <4> QED
        BY <2>1, <3>1, <4>1 DEF Forgotten
    <3>3. ASSUME NEW t \in Rescans, NEW b \in quiet[t]
          PROVE  Swept(t, b)' => Swept(t, b) \/ b = scan[s].current
      BY <3>1 DEF Swept
    <3> QED
      BY <1>1, <2>1, <3>1, <3>2, <3>3 DEF SweepInv, Forgotten
  <2> QED
    BY <2>2, <2>3
<1>6. CASE RescanPurge(s)
  <2>1. UNCHANGED quiet /\ scanPc[s] = "purge" /\ scan[s].current \in Attachments
    BY <1>6 DEF RescanPurge, Named
  <2>2. RescanNext(s, scan[s].current, scan[s].scheduled \cup {scan[s].current})
    BY <1>6 DEF RescanPurge
  <2>3. \A b \in (scan[s].scheduled \cup {scan[s].current}) \cap quiet[s] : Forgotten(b)
    BY <1>2, <2>1 DEF SweepInv, Swept
  <2> QED
    BY <1>0, <1>2, <2>1, <2>2, <2>3, NextSwept
<1> QED
  BY <1>3, <1>4, <1>5, <1>6 DEF RescanStep

LEMMA InitRerun == Init => RerunInv
  BY DEF Init, RerunInv, FiledInv, SweepInv, PromiseInv, Open, Pipeline

LEMMA CrashRerun ==
    ASSUME TypeInv, RerunInv, Crash
    PROVE  RerunInv'
<1> USE DEF TypeInv, TypeOK, RerunInv
<1>1. /\ UNCHANGED <<cache, att, content, answer, scan, quiet, pending, promised>>
      /\ pc' = [r \in Requests |-> IF pc[r] \in Open THEN "lost" ELSE pc[r]]
      /\ scanPc' = [s \in Rescans |-> IF scanPc[s] \in {"idle", "done"}
                                      THEN scanPc[s] ELSE "lost"]
  BY DEF Crash, mongo
<1>2. \A r \in Requests : /\ pc'[r] \notin Open
                          /\ pc[r] # "idle" => pc'[r] # "idle"
  BY <1>1 DEF Open, Pipeline
<1>3. FiledInv'
  BY <1>1, <1>2 DEF FiledInv
<1>4. \A a \in Attachments : ~Busy(a)' /\ Forgotten(a)' = Forgotten(a)
  BY <1>1, <1>2 DEF Busy, Forgotten
<1>5. SweepInv'
  <2>1. \A s \in Rescans : \A a \in quiet[s] : Swept(s, a)' => Swept(s, a)
    BY <1>1 DEF Swept
  <2> QED
    BY <1>1, <1>4, <2>1 DEF SweepInv
<1>6. PromiseInv'
  BY <1>1, <1>2 DEF PromiseInv, Rerun, Open, Pipeline
<1> QED
  BY <1>3, <1>5, <1>6

LEMMA NextRerun ==
    NoSharedFiles /\ LedgerInv /\ Alone /\ RerunInv /\ [Next]_vars => RerunInv'
<1> SUFFICES ASSUME NoSharedFiles, LedgerInv, Alone, RerunInv, [Next]_vars
             PROVE  RerunInv'
  OBVIOUS
<1> USE DEF LedgerInv
<1>1. ASSUME NEW r \in Requests, AnalyzeStep(r) PROVE RerunInv'
  BY <1>1, StepFiled, StepSwept, StepPromise DEF RerunInv
<1>2. ASSUME NEW s \in Rescans, RescanStep(s) PROVE RerunInv'
  BY <1>2, RescanOnlyForgets, ForgettingKeeps, RescanSwept DEF RerunInv
<1>3. CASE Crash
  BY <1>3, CrashRerun
<1>4. CASE UNCHANGED vars
  BY <1>4 DEF vars, mongo, request, scanning, history, RerunInv, FiledInv, SweepInv,
     PromiseInv, Rerun, Swept, Forgotten, Busy
<1> QED
  BY <1>1, <1>2, <1>3, <1>4 DEF Next

(* The promise of a rescan's 202: if moreover no file is attached twice,    *)
(* the first /analyze after it is not served from the cache, whatever       *)
(* failed in the sweep, whichever rescans ran beside it and wherever the    *)
(* process restarted.                                                       *)
THEOREM RescansForceReruns ==
    ASSUME OneAtATime, NoSharedFiles PROVE Spec => []RescanForcesRerun
<1>1. Init => RerunInv
  BY InitRerun
<1>2. SerialInv /\ LedgerInv /\ RerunInv /\ [Next]_vars => RerunInv'
  BY NextRerun DEF SerialInv
<1>3. RerunInv => RescanForcesRerun
  BY DEF RerunInv, PromiseInv, Rerun, RescanForcesRerun
<1> QED
  BY <1>1, <1>2, <1>3, SerialCorrect, LedgerCorrect, PTL DEF Spec
=============================================================================

-------------------------- MODULE AnalyzeLedgerProofs --------------------------
(***************************************************************************)
(* The pipeline implements the promise of VerdictLedger, for any number of *)
(* calls, rescans, attachments, files and restarts and any set of faults.  *)
(***************************************************************************)
EXTENDS AnalyzeImplementsLedger, AnalyzeProofs

(* What the mapping needs beyond LedgerInv: a call has no bytes before its  *)
(* fetch; a thread at work leaves its caller unanswered or with the         *)
(* fallback; the cache files a stored verdict under the bytes of its call.  *)
KeyInv ==
    /\ \A r \in Requests :
        /\ pc[r] \in {"idle", "fetch"} => content[r] = None
        /\ thread[r] # "none" => answer[r] \in {"none", "fallback"}
    /\ \A c \in Contents : cache[c] # None =>
        cache[c] \in stored /\ content[cache[c]] = c

MapInv == LedgerInv /\ KeyInv

LEMMA InitMapInv == Init => MapInv
  BY InitLedgerInv, ConstantsAssumption DEF Init, MapInv, KeyInv

LEMMA NextMapInv == MapInv /\ [Next]_vars => MapInv'
<1> SUFFICES ASSUME MapInv, [Next]_vars PROVE KeyInv'
  BY NextLedgerInv DEF MapInv
<1> USE ConstantsAssumption DEF MapInv, KeyInv
<1>0. LedgerInv /\ TypeOK
  BY DEF LedgerInv, TypeInv
<1>1. CASE UNCHANGED vars
  BY <1>1 DEF vars, mongo, request
<1>2. ASSUME NEW r \in Requests, Refuse(r) PROVE KeyInv'
  BY <1>0, <1>2 DEF Refuse, Reply, mongo, LedgerInv, RecordInv, CoroutineInv, TypeOK
<1>3. ASSUME NEW r \in Requests, Arrive(r) PROVE KeyInv'
  BY <1>0, <1>3 DEF Arrive, Goto, mongo, TypeOK
<1>4. ASSUME NEW r \in Requests, Fetch(r) PROVE KeyInv'
  <2>1. r \notin stored /\ thread[r] = "none"
    BY <1>0, <1>4 DEF Fetch, LedgerInv, RecordInv, CoroutineInv, Unrecorded
  <2>2. QED
    BY <1>0, <1>4, <2>1 DEF Fetch, Goto, Reply, mongo, TypeOK
<1>5. ASSUME NEW r \in Requests, Lookup(r) PROVE KeyInv'
  <2>1. thread[r] = "none"
    BY <1>0, <1>5 DEF Lookup, LedgerInv, RecordInv, CoroutineInv
  <2>2. QED
    BY <1>0, <1>5, <2>1 DEF Lookup, Goto, Reply, mongo, TypeOK
<1>6. ASSUME NEW r \in Requests, Embed(r) PROVE KeyInv'
  <2>1. answer[r] = "none"
    BY <1>0, <1>6 DEF Embed, LedgerInv, RecordInv, CoroutineInv
  <2>2. QED
    BY <1>0, <1>6, <2>1 DEF Embed, Goto, ThreadGoes, mongo, TypeOK
<1>7. ASSUME NEW r \in Requests, DeleteChunks(r) PROVE KeyInv'
  BY <1>0, <1>7 DEF DeleteChunks, Resume, Goto, ThreadGoes, mongo, TypeOK
<1>8. ASSUME NEW r \in Requests, InsertChunks(r) PROVE KeyInv'
  BY <1>0, <1>8 DEF InsertChunks, Resume, Goto, ThreadGoes, mongo, TypeOK
<1>9. ASSUME NEW r \in Requests, EmbedQuery(r) PROVE KeyInv'
  BY <1>0, <1>9 DEF EmbedQuery, Goto, mongo, TypeOK
<1>10. ASSUME NEW r \in Requests, ReadChunks(r) PROVE KeyInv'
  BY <1>0, <1>10 DEF ReadChunks, Goto, mongo, TypeOK
<1>11. ASSUME NEW r \in Requests, FindSiblings(r) PROVE KeyInv'
  BY <1>0, <1>11 DEF FindSiblings, Goto, mongo, TypeOK
<1>12. ASSUME NEW r \in Requests, Score(r) PROVE KeyInv'
  <2>1. answer[r] = "none" /\ thread[r] = "none"
    BY <1>0, <1>12 DEF Score, LedgerInv, RecordInv, CoroutineInv
  <2>2. QED
    BY <1>0, <1>12, <2>1 DEF Score, Goto, Reply, ThreadGoes, mongo, TypeOK
<1>13. ASSUME NEW r \in Requests, Put(r) PROVE KeyInv'
  <2>1. content[r] \in Contents
    BY <1>0, <1>13 DEF Put, LedgerInv, TypeInv, TypeOK
  <2>2. pc'[r] \notin {"idle", "fetch"} \/ pc'[r] = pc[r]
    BY <1>0, <1>13 DEF Put, Resume, RaiseInto, Goto, Reply, TypeOK
  <2>3. QED
    BY <1>0, <1>13, <2>1, <2>2 DEF Put, StoreVerdict, Resume, RaiseInto, Goto, Reply,
       ThreadGoes, TypeOK
<1>14. ASSUME NEW r \in Requests, Count(r) PROVE KeyInv'
  BY <1>0, <1>14 DEF Count, AfterCount, RaiseInto, Goto, Reply, ThreadGoes, TypeOK
<1>15. ASSUME NEW r \in Requests, Notable(r) PROVE KeyInv'
  BY <1>0, <1>15 DEF Notable, AfterCount, RaiseInto, Goto, Reply, ThreadGoes, TypeOK
<1>16. ASSUME NEW r \in Requests, Similar(r) PROVE KeyInv'
  <2>1. thread[r] = "none"
    BY <1>0, <1>16 DEF Similar, LedgerInv, RecordInv, CoroutineInv
  <2>2. QED
    BY <1>0, <1>16, <2>1 DEF Similar, Reply, mongo, TypeOK
<1>17. ASSUME NEW r \in Requests, Timeout(r) PROVE KeyInv'
  BY <1>0, <1>17 DEF Timeout, Reply, ThreadGoes, mongo, TypeOK
<1>18. ASSUME NEW s \in Rescans, RescanStep(s) PROVE KeyInv'
  <2>1. CASE RescanForget(s)
    BY <1>0, <2>1 DEF RescanForget, request, TypeOK
  <2>2. CASE RescanArrive(s) \/ RescanFind(s) \/ RescanPurge(s)
    BY <1>0, <2>2 DEF RescanArrive, RescanFind, RescanPurge, request, mongo
  <2>3. QED
    BY <1>18, <2>1, <2>2 DEF RescanStep
<1>19. CASE Crash
  BY <1>0, <1>19 DEF Crash, mongo, TypeOK
<1>20. QED
  BY <1>1, <1>2, <1>3, <1>4, <1>5, <1>6, <1>7, <1>8, <1>9, <1>10, <1>11, <1>12,
     <1>13, <1>14, <1>15, <1>16, <1>17, <1>18, <1>19 DEF Next, AnalyzeStep

LEMMA MapCorrect == Spec => []MapInv
  BY InitMapInv, NextMapInv, PTL DEF Spec
-----------------------------------------------------------------------------
(* How the mapped ledger moves.                                             *)

LowOf(r) == work[r].low

(* A step that records nothing, and changes the score of an unsaved verdict *)
(* only, leaves the ledger as it is.                                        *)
LEMMA LedgerStays ==
    ASSUME stored' = stored, analyzed' = analyzed, notable' = notable,
           \A r \in Requests : r \notin stored \/ LowOf(r)' = LowOf(r)
    PROVE  ledgerOf' = ledgerOf
<1>1. \A r \in Requests :
        (IF r \notin stored THEN "unsaved"
         ELSE IF analyzed[r] = 1 /\ (work[r].low => r \in notable) THEN "counted"
         ELSE "saved")
        = (IF r \notin stored THEN "unsaved"
           ELSE IF analyzed[r] = 1 /\ (work'[r].low => r \in notable) THEN "counted"
           ELSE "saved")
  BY DEF LowOf
<1>2. QED
  BY <1>1 DEF ledgerOf

(* A step that records one verdict moves that one in the ledger.            *)
LEMMA LedgerMoves ==
    ASSUME NEW r \in Requests, NEW entry,
           \A t \in Requests \ {r} :
               /\ (t \in stored') = (t \in stored)
               /\ (t \in notable') = (t \in notable)
               /\ analyzed'[t] = analyzed[t],
           work' = work,
           entry = (IF r \notin stored' THEN "unsaved"
                    ELSE IF analyzed'[r] = 1 /\ (work[r].low => r \in notable')
                         THEN "counted"
                    ELSE "saved")
    PROVE  ledgerOf' = [ledgerOf EXCEPT ![r] = entry]
<1> DEFINE After == [ledgerOf EXCEPT ![r] = entry]
<1>1. ledgerOf' = [t \in Requests |-> ledgerOf'[t]]
  BY DEF ledgerOf
<1>2. After = [t \in Requests |-> After[t]]
  BY DEF ledgerOf
<1>3. ASSUME NEW t \in Requests PROVE ledgerOf'[t] = After[t]
  <2>1. CASE t = r
    BY <2>1 DEF ledgerOf
  <2>2. CASE t # r
    BY <2>2 DEF ledgerOf
  <2>3. QED
    BY <2>1, <2>2
<1> HIDE DEF After
<1>4. QED
  BY <1>1, <1>2, <1>3 DEF After

LEMMA LedgerAt ==
    ASSUME NEW r \in Requests
    PROVE  ledgerOf[r] = (IF r \notin stored THEN "unsaved"
                          ELSE IF analyzed[r] = 1 /\ (work[r].low => r \in notable)
                               THEN "counted"
                          ELSE "saved")
  BY DEF ledgerOf

LEMMA Stutters ==
    ASSUME ledgerOf' = ledgerOf, content' = content, answer' = answer, served' = served
    PROVE  UNCHANGED Ledger!vars
  BY DEF Ledger!vars

(* An open call is unanswered; before it is persisted, it is unsaved.       *)
LEMMA OpenCall ==
    ASSUME MapInv, NEW r \in Requests, pc[r] # "done"
    PROVE  /\ answer[r] = "none"
           /\ pc[r] \in {"idle"} \cup (Open \ {"upsert", "put", "count", "similar"}) =>
                ledgerOf[r] = "unsaved" /\ r \notin stored
           /\ pc[r] = "similar" => ledgerOf[r] = "counted"
  BY LedgerAt DEF MapInv, LedgerInv, TypeInv, TypeOK, RecordInv, CoroutineInv,
     Unrecorded, Recorded, Open, Pipeline

(* An answer that leaves the ledger as it is.                               *)
LEMMA GivesFallback ==
    ASSUME NEW r \in Requests, ledgerOf' = ledgerOf, content' = content,
           served' = served, answer[r] = "none",
           answer' = [answer EXCEPT ![r] = "fallback"]
    PROVE  Ledger!Next
  BY DEF Ledger!Next, Ledger!Give, Ledger!Fallback

LEMMA Refuses ==
    ASSUME NEW r \in Requests, NEW kind \in {"400", "502", "500", "degraded"},
           ledgerOf' = ledgerOf, content' = content, served' = served,
           answer[r] = "none", ledgerOf[r] = "unsaved",
           kind \in {"400", "502"} => content[r] = None,
           kind = "degraded" => content[r] # None,
           answer' = [answer EXCEPT ![r] = kind]
    PROVE  Ledger!Next
  BY DEF Ledger!Next, Ledger!Refuse

-----------------------------------------------------------------------------
(* Every step of a call up to its first write, and every rescan, implements *)
(* a step or a stutter of the ledger.                                       *)

LEMMA RefuseImplements ==
    ASSUME MapInv, NEW r \in Requests, Refuse(r)
    PROVE  Ledger!Next
<1>1. ledgerOf' = ledgerOf
  BY LedgerStays DEF Refuse, mongo, LowOf
<1>2. answer[r] = "none" /\ ledgerOf[r] = "unsaved" /\ content[r] = None
  BY OpenCall DEF Refuse, MapInv, KeyInv
<1>3. QED
  BY <1>1, <1>2, Refuses DEF Refuse, Reply

LEMMA FetchImplements ==
    ASSUME MapInv, NEW r \in Requests, Fetch(r)
    PROVE  Ledger!Next
<1>1. ledgerOf' = ledgerOf
  BY LedgerStays DEF Fetch, mongo, LowOf
<1>2. answer[r] = "none" /\ ledgerOf[r] = "unsaved" /\ content[r] = None
  BY OpenCall DEF Fetch, MapInv, KeyInv, Open
<1>3. att[r] \in Attachments
  BY DEF Fetch, MapInv, LedgerInv, TypeInv, Named, Open
<1>4. CASE \E c \in Bytes[att[r]] :
            content' = [content EXCEPT ![r] = c] /\ UNCHANGED <<answer, served>>
  <2>1. PICK c \in Contents :
            content' = [content EXCEPT ![r] = c] /\ UNCHANGED <<answer, served>>
    BY <1>3, <1>4, ConstantsAssumption
  <2>2. Ledger!Name(r, c)
    BY <2>1, <1>1, <1>2 DEF Ledger!Name
  <2>3. QED
    BY <2>2 DEF Ledger!Next
<1>5. CASE UNCHANGED <<content, served>> /\ (Reply(r, "502") \/ Reply(r, "500"))
  BY <1>1, <1>2, <1>5, Refuses DEF Reply
<1>6. QED
  BY <1>4, <1>5 DEF Fetch

LEMMA LookupImplements ==
    ASSUME MapInv, NEW r \in Requests, Lookup(r)
    PROVE  [Ledger!Next]_(Ledger!vars)
<1>1. ledgerOf' = ledgerOf /\ UNCHANGED content
  BY LedgerStays DEF Lookup, mongo, LowOf
<1>2. answer[r] = "none" /\ ledgerOf[r] = "unsaved"
  BY OpenCall DEF Lookup, Open
<1>3. content[r] \in Contents /\ content[r] # None
  BY ConstantsAssumption DEF Lookup, MapInv, LedgerInv, TypeInv, Named, Open
<1>4. CASE /\ cache[content[r]] # None
           /\ served' = [served EXCEPT ![r] = cache[content[r]]]
           /\ Reply(r, "hit")
  <2> DEFINE v == cache[content[r]]
  <2>1. v \in Requests /\ v \in stored /\ content[v] = content[r]
    BY <1>3, <1>4 DEF MapInv, KeyInv, LedgerInv, TypeInv, TypeOK
  <2>2. ledgerOf[v] # "unsaved"
    BY <2>1, LedgerAt
  <2>3. Ledger!Hit(r, v)
    BY <1>1, <1>2, <1>3, <1>4, <2>1, <2>2 DEF Ledger!Hit, Reply
  <2>4. QED
    BY <2>1, <2>3 DEF Ledger!Next
<1>5. CASE UNCHANGED <<served, answer>>
  BY <1>1, <1>5, Stutters
<1>6. CASE Reply(r, "fallback") /\ UNCHANGED served
  BY <1>1, <1>2, <1>6, GivesFallback DEF Reply
<1>7. CASE Reply(r, "500") /\ UNCHANGED served
  BY <1>1, <1>2, <1>3, <1>7, Refuses DEF Reply
<1>8. QED
  BY <1>4, <1>5, <1>6, <1>7 DEF Lookup

(* The steps between two awaits that neither record nor answer.             *)
LEMMA WorkImplements ==
    ASSUME MapInv, NEW r \in Requests,
           \/ Arrive(r) \/ Embed(r) \/ DeleteChunks(r) \/ InsertChunks(r)
           \/ EmbedQuery(r) \/ ReadChunks(r) \/ FindSiblings(r)
    PROVE  UNCHANGED Ledger!vars
<1>0. work \in [Requests -> Work]
  BY DEF MapInv, LedgerInv, TypeInv, TypeOK
<1>1. \A t \in Requests : LowOf(t)' = LowOf(t)
  <2>1. CASE Arrive(r) \/ DeleteChunks(r)
    BY <2>1 DEF Arrive, DeleteChunks, LowOf
  <2>2. CASE Embed(r)
    BY <1>0, <2>2 DEF Embed, LowOf, Work
  <2>3. CASE InsertChunks(r)
    BY <1>0, <2>3 DEF InsertChunks, LowOf, Work
  <2>4. CASE EmbedQuery(r) \/ FindSiblings(r)
    BY <1>0, <2>4 DEF EmbedQuery, FindSiblings, Lose, LowOf, Work
  <2>5. CASE ReadChunks(r)
    BY <1>0, <2>5 DEF ReadChunks, Lose, LowOf, Work
  <2>6. QED
    BY <2>1, <2>2, <2>3, <2>4, <2>5
<1>2. UNCHANGED <<stored, analyzed, notable, content, answer, served>>
  BY DEF Arrive, Embed, DeleteChunks, InsertChunks, EmbedQuery, ReadChunks,
     FindSiblings, Goto, mongo
<1>3. QED
  BY <1>1, <1>2, LedgerStays, Stutters

LEMMA RescanImplements ==
    ASSUME MapInv, NEW s \in Rescans, RescanStep(s)
    PROVE  UNCHANGED Ledger!vars
  BY LedgerStays, Stutters DEF RescanStep, RescanArrive, RescanFind, RescanForget,
     RescanPurge, mongo, request, LowOf
LEMMA ScoreImplements ==
    ASSUME MapInv, NEW r \in Requests, Score(r)
    PROVE  [Ledger!Next]_(Ledger!vars)
<1>1. answer[r] = "none" /\ ledgerOf[r] = "unsaved" /\ r \notin stored
  BY OpenCall DEF Score, Open, Pipeline
<1>2. content[r] # None
  BY ConstantsAssumption DEF Score, MapInv, LedgerInv, TypeInv, Named, Open, Pipeline
<1>3. ledgerOf' = ledgerOf
  <2>1. \A t \in Requests : t \notin stored \/ LowOf(t)' = LowOf(t)
    BY <1>1 DEF Score, LowOf, MapInv, LedgerInv, TypeInv, TypeOK, Work
  <2>2. QED
    BY <2>1, LedgerStays DEF Score, mongo
<1>4. UNCHANGED <<content, served>>
  BY DEF Score
<1>5. CASE UNCHANGED answer
  BY <1>3, <1>4, <1>5, Stutters
<1>6. CASE Reply(r, "degraded")
  BY <1>1, <1>2, <1>3, <1>4, <1>6, Refuses DEF Reply
<1>7. CASE Reply(r, "fallback")
  BY <1>1, <1>3, <1>4, <1>7, GivesFallback DEF Reply
<1>8. QED
  BY <1>5, <1>6, <1>7 DEF Score

-----------------------------------------------------------------------------
(* The steps that record a verdict; their caller is either still waiting or *)
(* has the fallback.                                                        *)

(* A raised store call: the waiting caller is told the fallback.            *)
LEMMA RaiseReplies ==
    ASSUME MapInv, NEW r \in Requests, NEW from \in {"put", "count"}, RaiseInto(r, from)
    PROVE  UNCHANGED answer
             \/ (answer[r] = "none" /\ answer' = [answer EXCEPT ![r] = "fallback"])
  BY OpenCall DEF RaiseInto, Reply

LEMMA Saves ==
    ASSUME NEW r \in Requests, content[r] # None, ledgerOf[r] = "unsaved",
           answer[r] \in {"none", "fallback"},
           ledgerOf' = [ledgerOf EXCEPT ![r] = "saved"],
           content' = content, served' = served,
           \/ answer' = answer
           \/ answer[r] = "none" /\ answer' = [answer EXCEPT ![r] = "fallback"]
    PROVE  Ledger!Next
<1>1. Ledger!Save(r)
  BY DEF Ledger!Save
<1>2. Ledger!Keep(r) \/ Ledger!Fallback(r)
  BY DEF Ledger!Keep, Ledger!Fallback
<1>3. QED
  BY <1>1, <1>2 DEF Ledger!Next

LEMMA Tallies ==
    ASSUME NEW r \in Requests, ledgerOf[r] = "saved",
           ledgerOf \in [Requests -> {"unsaved", "saved", "counted"}],
           answer[r] \in {"none", "fallback"},
           ledgerOf' = [ledgerOf EXCEPT ![r] = "counted"],
           content' = content, served' = served,
           \/ answer' = answer
           \/ answer[r] = "none" /\ answer' = [answer EXCEPT ![r] = "fallback"]
           \/ answer[r] = "none" /\ answer' = [answer EXCEPT ![r] = "full"]
    PROVE  Ledger!Next
<1>1. Ledger!Tally(r)
  BY DEF Ledger!Tally
<1>2. ledgerOf'[r] = "counted"
  OBVIOUS
<1>3. Ledger!Keep(r) \/ Ledger!Fallback(r) \/ Ledger!Final(r)
  BY <1>2 DEF Ledger!Keep, Ledger!Fallback, Ledger!Final
<1>4. QED
  BY <1>1, <1>3 DEF Ledger!Next

LEMMA LedgerType == ledgerOf \in [Requests -> {"unsaved", "saved", "counted"}]
  BY DEF ledgerOf

LEMMA PutImplements ==
    ASSUME MapInv, NEW r \in Requests, Put(r)
    PROVE  [Ledger!Next]_(Ledger!vars)
<1>1. /\ r \notin stored /\ analyzed[r] = 0
      /\ content[r] # None
      /\ answer[r] \in {"none", "fallback"}
  BY ConstantsAssumption DEF Put, MapInv, KeyInv, LedgerInv, RecordInv, ThreadInv,
     Unrecorded, TypeInv, TypeOK
<1>2. ledgerOf[r] = "unsaved"
  BY <1>1, LedgerAt
<1>3. UNCHANGED <<analyzed, notable, work, content, served>>
  BY DEF Put
<1>4. UNCHANGED answer
        \/ (answer[r] = "none" /\ answer' = [answer EXCEPT ![r] = "fallback"])
  BY RaiseReplies DEF Put
<1>5. CASE stored' = stored
  <2>1. ledgerOf' = ledgerOf
    BY <1>3, <1>5, LedgerStays DEF LowOf
  <2>2. QED
    BY <1>3, <1>4, <2>1, Stutters, GivesFallback
<1>6. CASE stored' = stored \cup {r}
  <2>1. ledgerOf' = [ledgerOf EXCEPT ![r] = "saved"]
    BY <1>1, <1>3, <1>6, LedgerMoves
  <2>2. QED
    BY <1>1, <1>2, <1>3, <1>4, <2>1, Saves
<1>7. QED
  BY <1>5, <1>6 DEF Put, StoreVerdict

LEMMA CountImplements ==
    ASSUME MapInv, NEW r \in Requests, Count(r)
    PROVE  [Ledger!Next]_(Ledger!vars)
<1>1. /\ r \in stored /\ analyzed[r] = 0 /\ r \notin notable
      /\ answer[r] \in {"none", "fallback"}
  BY DEF Count, MapInv, KeyInv, LedgerInv, RecordInv, ThreadInv
<1>2. ledgerOf[r] = "saved"
  BY <1>1, LedgerAt
<1>3. UNCHANGED <<stored, notable, work, content, served>>
  BY DEF Count
<1>4. \/ UNCHANGED answer
      \/ answer[r] = "none" /\ answer' = [answer EXCEPT ![r] = "fallback"]
      \/ /\ answer[r] = "none" /\ answer' = [answer EXCEPT ![r] = "full"]
         /\ analyzed' = [analyzed EXCEPT ![r] = @ + 1] /\ ~work[r].low
  BY RaiseReplies, OpenCall DEF Count, AfterCount, Reply
<1>5. CASE analyzed' = analyzed
  <2>1. ledgerOf' = ledgerOf
    BY <1>3, <1>5, LedgerStays DEF LowOf
  <2>2. \/ answer' # [answer EXCEPT ![r] = "full"]
        \/ analyzed[r] # analyzed'[r]
        \/ UNCHANGED answer
    BY <1>1, <1>4, <1>5 DEF MapInv, LedgerInv, TypeInv, TypeOK
  <2>3. QED
    BY <1>1, <1>3, <1>4, <1>5, <2>1, <2>2, Stutters, GivesFallback
<1>6. CASE analyzed' = [analyzed EXCEPT ![r] = @ + 1]
  <2>0. analyzed'[r] = 1 /\ \A t \in Requests \ {r} : analyzed'[t] = analyzed[t]
    BY <1>1, <1>6 DEF MapInv, LedgerInv, TypeInv, TypeOK
  <2>1. CASE work[r].low
    <3>1. ledgerOf' = [ledgerOf EXCEPT ![r] = "saved"]
      BY <1>1, <1>3, <2>0, <2>1, LedgerMoves
    <3>2. ledgerOf' = ledgerOf
      BY <3>1, <1>2, LedgerType
    <3>3. QED
      BY <1>3, <1>4, <2>1, <3>2, Stutters, GivesFallback
  <2>2. CASE ~work[r].low
    <3>1. ledgerOf' = [ledgerOf EXCEPT ![r] = "counted"]
      BY <1>1, <1>3, <2>0, <2>2, LedgerMoves
    <3>2. QED
      BY <1>1, <1>2, <1>3, <1>4, <3>1, LedgerType, Tallies
  <2>3. QED
    BY <2>1, <2>2
<1>7. QED
  BY <1>5, <1>6 DEF Count

LEMMA NotableImplements ==
    ASSUME MapInv, NEW r \in Requests, Notable(r)
    PROVE  [Ledger!Next]_(Ledger!vars)
<1>1. /\ r \in stored /\ analyzed[r] = 1 /\ r \notin notable /\ work[r].low
      /\ answer[r] \in {"none", "fallback"}
  BY DEF Notable, MapInv, KeyInv, LedgerInv, RecordInv, ThreadInv
<1>2. ledgerOf[r] = "saved"
  BY <1>1, LedgerAt
<1>3. UNCHANGED <<stored, analyzed, work, content, served>>
  BY DEF Notable
<1>4. \/ UNCHANGED answer
      \/ answer[r] = "none" /\ answer' = [answer EXCEPT ![r] = "fallback"]
      \/ /\ answer[r] = "none" /\ answer' = [answer EXCEPT ![r] = "full"]
         /\ notable' = notable \cup {r}
  BY RaiseReplies, OpenCall DEF Notable, AfterCount, Reply
<1>5. CASE notable' = notable
  <2>1. ledgerOf' = ledgerOf
    BY <1>3, <1>5, LedgerStays DEF LowOf
  <2>2. QED
    BY <1>1, <1>3, <1>4, <1>5, <2>1, Stutters, GivesFallback
<1>6. CASE notable' = notable \cup {r}
  <2>1. ledgerOf' = [ledgerOf EXCEPT ![r] = "counted"]
    BY <1>1, <1>3, <1>6, LedgerMoves
  <2>2. QED
    BY <1>1, <1>2, <1>3, <1>4, <2>1, LedgerType, Tallies
<1>7. QED
  BY <1>5, <1>6 DEF Notable

-----------------------------------------------------------------------------
(* The steps that only answer.                                              *)

LEMMA SimilarImplements ==
    ASSUME MapInv, NEW r \in Requests, Similar(r)
    PROVE  Ledger!Next
<1>1. ledgerOf' = ledgerOf /\ answer[r] = "none" /\ ledgerOf[r] = "counted"
  BY LedgerStays, OpenCall DEF Similar, mongo, LowOf
<1>2. Ledger!Give(r)
  BY <1>1 DEF Similar, Reply, Ledger!Give, Ledger!Final
<1>3. QED
  BY <1>2 DEF Ledger!Next

LEMMA TimeoutImplements ==
    ASSUME MapInv, NEW r \in Requests, Timeout(r)
    PROVE  Ledger!Next
<1>1. answer[r] = "none"
  BY OpenCall DEF Timeout, Pipeline
<1>2. ledgerOf' = ledgerOf
  BY LedgerStays DEF Timeout, mongo, LowOf
<1>3. QED
  BY <1>1, <1>2, GivesFallback DEF Timeout, Reply

LEMMA CrashImplements ==
    ASSUME MapInv, Crash
    PROVE  UNCHANGED Ledger!vars
  BY LedgerStays, Stutters DEF Crash, mongo, LowOf

-----------------------------------------------------------------------------
LEMMA InitImplements == Init => Ledger!Init
  BY DEF Init, Ledger!Init, ledgerOf

LEMMA NextImplements == MapInv /\ [Next]_vars => [Ledger!Next]_(Ledger!vars)
<1> SUFFICES ASSUME MapInv, [Next]_vars PROVE [Ledger!Next]_(Ledger!vars)
  OBVIOUS
<1>1. CASE UNCHANGED vars
  BY <1>1, LedgerStays, Stutters DEF vars, mongo, request, LowOf
<1>2. ASSUME NEW r \in Requests, AnalyzeStep(r) PROVE [Ledger!Next]_(Ledger!vars)
  BY <1>2, RefuseImplements, FetchImplements, LookupImplements, WorkImplements,
     ScoreImplements, PutImplements, CountImplements, NotableImplements,
     SimilarImplements, TimeoutImplements DEF AnalyzeStep
<1>3. ASSUME NEW s \in Rescans, RescanStep(s) PROVE [Ledger!Next]_(Ledger!vars)
  BY <1>3, RescanImplements
<1>4. CASE Crash
  BY <1>4, CrashImplements
<1>5. QED
  BY <1>1, <1>2, <1>3, <1>4 DEF Next

(* Whatever fails, times out, is abandoned, restarted or rescanned, a       *)
(* caller of /analyze sees only what the ledger allows: a final answer is   *)
(* saved and counted, a degraded one is not saved, a hit repeats a saved    *)
(* verdict for the same bytes.                                              *)
THEOREM AnalyzeKeepsItsPromise == Spec => KeepsItsPromise
<1>1. Spec => []MapInv
  BY MapCorrect
<1>2. QED
  BY <1>1, InitImplements, NextImplements, PTL DEF Spec, KeepsItsPromise, Ledger!Spec
-----------------------------------------------------------------------------
(* A stored verdict's bytes keep having one, as long as nothing is          *)
(* rescanned.                                                               *)
StaysInv == \A r \in stored : cache[content[r]] # None

LEMMA NextStaysInv ==
    ASSUME Rescans = {}
    PROVE  MapInv /\ StaysInv /\ [Next]_vars => StaysInv'
<1> SUFFICES ASSUME MapInv, StaysInv, [Next]_vars PROVE StaysInv'
  OBVIOUS
<1>0. TypeOK /\ LedgerInv
  BY DEF MapInv, LedgerInv, TypeInv
<1>1. CASE UNCHANGED <<stored, cache, content>>
  BY <1>1 DEF StaysInv
<1>2. ASSUME NEW r \in Requests, Fetch(r) PROVE StaysInv'
  <2>1. r \notin stored
    BY <1>2, OpenCall DEF Fetch, Open
  <2>2. QED
    BY <1>0, <1>2, <2>1 DEF Fetch, mongo, StaysInv, TypeOK
<1>3. ASSUME NEW r \in Requests, Put(r) PROVE StaysInv'
  <2>1. content[r] \in Contents
    BY <1>0, <1>3 DEF Put, LedgerInv, TypeInv, TypeOK
  <2>3. CASE StoreVerdict(r)
    BY <1>0, <1>3, <2>1, <2>3, ConstantsAssumption DEF Put, StoreVerdict, StaysInv, TypeOK
  <2>4. CASE UNCHANGED <<cache, stored>>
    BY <1>3, <2>4 DEF Put, StaysInv
  <2>5. QED
    BY <1>3, <2>3, <2>4 DEF Put
<1>4. CASE [Next]_vars /\ (\A r \in Requests : ~Fetch(r) /\ ~Put(r))
  <2>1. UNCHANGED <<stored, cache, content>>
    BY <1>4 DEF Next, AnalyzeStep, vars, mongo, request, Refuse, Arrive, Lookup, Embed,
       DeleteChunks, InsertChunks, EmbedQuery, ReadChunks, FindSiblings, Score, Count,
       Notable, Similar, Timeout, Crash
  <2>2. QED
    BY <2>1, <1>1
<1>5. QED
  BY <1>2, <1>3, <1>4

(* Bytes with a final answer stay deduplicated for good, through any        *)
(* failure, timeout, restart and overlap, if there is no rescan.            *)
THEOREM FullAnswersStayCached ==
    ASSUME Rescans = {}
    PROVE  Spec => []FullAnswerStaysCached
<1>1. Init => StaysInv
  BY DEF Init, StaysInv
<1>2. MapInv /\ StaysInv /\ [Next]_vars => StaysInv'
  BY NextStaysInv
<1>3. MapInv /\ StaysInv => FullAnswerStaysCached
  BY DEF StaysInv, FullAnswerStaysCached, MapInv, LedgerInv, RecordInv, CoroutineInv,
     Recorded
<1>4. QED
  BY MapCorrect, <1>1, <1>2, <1>3, PTL DEF Spec
=============================================================================

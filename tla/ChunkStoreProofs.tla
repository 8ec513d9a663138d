-------------------------- MODULE ChunkStoreProofs --------------------------
(***************************************************************************)
(* For any number of threads, whatever they are asked for, however often   *)
(* Weaviate fails and whatever an earlier process left: no operation fails *)
(* by the service's own doing, no thread connects twice, a read that       *)
(* nobody disturbs is complete and in order, and a search reports the      *)
(* nearest sibling first.                                                  *)
(***************************************************************************)
EXTENDS ChunkStore, RecursionProofs, FiniteSetTheorems, TLAPS

-----------------------------------------------------------------------------
(* Who may raise.                                                           *)

(* An upsert that is past ensure_tenant has its tenant registered.          *)
Registered(t) ==
    stage[t] = "insert" \/ (stage[t] = "purge" /\ job[t].op = "upsert")
        => Tenant[Att(t)] \in tenants

Placed(t) ==
    /\ pc[t] = "insert" => stage[t] = "insert"
    /\ pc[t] = "delete" => stage[t] = "purge"

Labels  == {"idle", "check", "connect", "return", "exists", "create", "delete",
            "insert", "fetch", "search", "ready", "done"}
Stages  == {"none", "register", "purge", "insert", "page", "search", "probe"}
Results == {"none", "ok", "raised"}

RaiseInv ==
    /\ pc \in [Threads -> Labels] /\ stage \in [Threads -> Stages]
    /\ result \in [Threads -> Results]
    /\ job \in [Threads -> Job \cup {None}]
    /\ \A t \in Threads : Registered(t) /\ Placed(t)
    /\ OnlyWeaviateRaises

LEMMA RaiseInit == Init => RaiseInv
<1> SUFFICES ASSUME Init PROVE RaiseInv
  OBVIOUS
<1>1. job \in [Threads -> Job \cup {None}]
  BY ChunkStoreAssumption DEF Init
<1>2. /\ pc \in [Threads -> Labels] /\ stage \in [Threads -> Stages]
      /\ result \in [Threads -> Results]
  BY DEF Init, Labels, Stages, Results
<1>3. \A t \in Threads : pc[t] = "idle" /\ stage[t] = "none" /\ result[t] = "none"
  BY DEF Init
<1> QED  BY <1>1, <1>2, <1>3 DEF RaiseInv, Registered, Placed, OnlyWeaviateRaises

(* Nothing the invariant speaks of is taken back.                           *)
Keeps == UNCHANGED job /\ tenants \subseteq tenants' /\ excused \subseteq excused'

LEMMA RaiseByMove ==
  ASSUME RaiseInv, Keeps, NEW t \in Threads, NEW label \in Labels, Goto(t, label),
         label = "insert" => stage[t] = "insert",
         label = "delete" => stage[t] = "purge", UNCHANGED <<stage, result>>
  PROVE  RaiseInv'
<1>1. \A u \in Threads : Registered(u)'
  BY DEF RaiseInv, Registered, Att, Keeps
<1> QED  BY <1>1 DEF RaiseInv, Placed, Keeps, Goto, OnlyWeaviateRaises

LEMMA RaiseByEnd ==
  ASSUME RaiseInv, Keeps, NEW t \in Threads, NEW how \in {"ok", "raised"}, End(t, how),
         how = "raised" => t \in excused', UNCHANGED stage
  PROVE  RaiseInv'
<1>1. \A u \in Threads : Registered(u)'
  BY DEF RaiseInv, Registered, Att, Keeps
<1>2. pc' = [pc EXCEPT ![t] = "done"] /\ result' = [result EXCEPT ![t] = how]
  BY DEF End, Goto
<1>3. pc' \in [Threads -> Labels] /\ result' \in [Threads -> Results]
  BY <1>2 DEF RaiseInv, Labels, Results
<1>4. OnlyWeaviateRaises'  BY <1>2 DEF RaiseInv, Keeps, OnlyWeaviateRaises
<1>5. \A u \in Threads : Placed(u)'  BY <1>2 DEF RaiseInv, Placed
<1> QED  BY <1>1, <1>2, <1>3, <1>4, <1>5 DEF RaiseInv, Keeps

(* Advance, once the tenant of an upsert is known to exist.                 *)
LEMMA RaiseByAdvance ==
  ASSUME RaiseInv, Keeps, NEW t \in Threads, Advance(t),
         NextStage(t) # "none" => Tenant[Att(t)] \in tenants'
  PROVE  RaiseInv'
<1>1. CASE NextStage(t) = "none"
  <2>1. End(t, "ok") /\ UNCHANGED stage  BY <1>1 DEF Advance
  <2> QED  BY <2>1, RaiseByEnd
<1>2. CASE NextStage(t) # "none"
  <2> DEFINE next == NextStage(t)
  <2>1. next \in Stages  BY DEF NextStage, Stages
  <2>2. /\ stage' = [stage EXCEPT ![t] = next]
        /\ pc' = [pc EXCEPT ![t] = "check"]
        /\ UNCHANGED result
    BY <1>2 DEF Advance, Goto
  <2>3. Tenant[Att(t)] \in tenants'  BY <1>2
  <2> HIDE DEF next
  <2>4. pc' \in [Threads -> Labels] /\ stage' \in [Threads -> Stages]
    BY <2>1, <2>2 DEF RaiseInv, Labels
  <2>5. \A u \in Threads : Registered(u)'
    BY <2>2, <2>3 DEF RaiseInv, Registered, Att, Keeps
  <2>6. \A u \in Threads : Placed(u)'
    BY <2>2 DEF RaiseInv, Placed
  <2> QED  BY <2>2, <2>4, <2>5, <2>6 DEF RaiseInv, Keeps, OnlyWeaviateRaises
<1> QED  BY <1>1, <1>2

LEMMA RaiseStep == RaiseInv /\ [Next]_vars => RaiseInv'
<1> SUFFICES ASSUME RaiseInv, [Next]_vars PROVE RaiseInv'
  OBVIOUS
<1> USE DEF Keeps, Labels
<1>1. CASE Boot
  BY <1>1 DEF Boot, store, local, RaiseInv, Registered, Placed, Att, OnlyWeaviateRaises
<1>2. CASE Shutdown
  BY <1>2 DEF Shutdown, store, local, faults, RaiseInv, Registered, Placed, Att, OnlyWeaviateRaises
<1>3. ASSUME NEW t \in Threads, Start(t) PROVE RaiseInv'
  <2> DEFINE first == FirstStage[job[t].op]
  <2>1. job[t] \in Job  BY <1>3 DEF Start, RaiseInv
  <2>2. /\ first \in Stages \ {"insert"}
        /\ job[t].op = "upsert" => first = "register"
    BY <2>1 DEF Job, Operations, FirstStage, Stages
  <2>3. /\ stage' = [stage EXCEPT ![t] = first]
        /\ pc' = [pc EXCEPT ![t] = "check"]
        /\ UNCHANGED <<job, result, excused, tenants>>
    BY <1>3 DEF Start, Goto, store, faults
  <2> HIDE DEF first
  <2>4. \A u \in Threads : Registered(u)'
    BY <2>2, <2>3 DEF RaiseInv, Registered, Att
  <2>5. pc' \in [Threads -> Labels] /\ stage' \in [Threads -> Stages]
    BY <2>2, <2>3 DEF RaiseInv
  <2>6. \A u \in Threads : Placed(u)'
    BY <2>3 DEF RaiseInv, Placed
  <2> QED  BY <2>3, <2>4, <2>5, <2>6 DEF RaiseInv, OnlyWeaviateRaises
<1>4. ASSUME NEW t \in Threads, Check(t) PROVE RaiseInv'
  <2>1. Goto(t, "return") \/ Goto(t, "connect")  BY <1>4 DEF Check
  <2>2. UNCHANGED <<stage, result>> /\ Keeps  BY <1>4 DEF Check, store, local, faults
  <2> QED  BY <2>1, <2>2, RaiseByMove
<1>5. ASSUME NEW t \in Threads, Connect(t) PROVE RaiseInv'
  <2>1. UNCHANGED <<stage, job, tenants>>  BY <1>5 DEF Connect, store, local
  <2>2. CASE Goto(t, "return") /\ UNCHANGED <<result, faults>>
    BY <2>1, <2>2, RaiseByMove DEF faults
  <2>3. CASE End(t, "raised") /\ excused' = excused \cup {t}
    BY <2>1, <2>3, RaiseByEnd
  <2> QED  BY <1>5, <2>2, <2>3 DEF Connect
<1>6. ASSUME NEW t \in Threads, Return(t) PROVE RaiseInv'
  <2>1. \/ Goto(t, "insert") /\ stage[t] = "insert"
        \/ Goto(t, "ready") \/ Goto(t, "exists")
    BY <1>6 DEF Return
  <2>2. UNCHANGED <<stage, result>> /\ Keeps  BY <1>6 DEF Return, store, faults
  <2> QED  BY <2>1, <2>2, RaiseByMove
<1>7. ASSUME NEW t \in Threads, Exists(t) PROVE RaiseInv'
  <2>1. Keeps  BY <1>7 DEF Exists, store, faults
  <2>2. CASE /\ \/ Goto(t, "delete") /\ stage[t] = "purge"
                \/ Goto(t, "fetch") \/ Goto(t, "search") \/ Goto(t, "create")
             /\ UNCHANGED <<stage, result>>
    BY <2>1, <2>2, RaiseByMove
  <2>3. CASE Advance(t) /\ Tenant[Att(t)] \in tenants
    BY <2>1, <2>3, RaiseByAdvance
  <2>4. CASE Advance(t) /\ Tenant[Att(t)] \notin tenants /\ stage[t] # "register"
    <3>1. NextStage(t) = "none"
      BY <2>4 DEF NextStage, RaiseInv, Registered
    <3> QED  BY <2>1, <2>4, <3>1, RaiseByAdvance
  <2>5. pc[t] = "exists" /\ stage[t] \in Stages  BY <1>7 DEF Exists, RaiseInv
  <2>6. CASE Tenant[Att(t)] \in tenants
    <3>1. \/ Advance(t)
          \/ /\ \/ Goto(t, "delete") /\ stage[t] = "purge"
                \/ Goto(t, "fetch") \/ Goto(t, "search")
             /\ UNCHANGED <<stage, result>>
      BY <1>7, <2>5, <2>6 DEF Exists, Stages
    <3> QED  BY <3>1, <2>2, <2>3, <2>6
  <2>7. CASE Tenant[Att(t)] \notin tenants
    <3>1. \/ Advance(t) /\ stage[t] # "register"
          \/ Goto(t, "create") /\ UNCHANGED <<stage, result>>
      BY <1>7, <2>7 DEF Exists
    <3> QED  BY <3>1, <2>2, <2>4, <2>7
  <2> QED  BY <2>6, <2>7
<1>8. ASSUME NEW t \in Threads, Create(t) PROVE RaiseInv'
  <2>1. Keeps /\ Advance(t) /\ Tenant[Att(t)] \in tenants'
    BY <1>8 DEF Create, faults
  <2> QED  BY <2>1, RaiseByAdvance
<1>9. ASSUME NEW t \in Threads, Delete(t) PROVE RaiseInv'
  <2>1. UNCHANGED <<job, tenants>>  BY <1>9 DEF Delete
  <2>2. CASE Advance(t) /\ UNCHANGED faults
    <3>1. stage[t] = "purge"  BY <1>9 DEF Delete, RaiseInv, Placed
    <3>2. NextStage(t) # "none" => Tenant[Att(t)] \in tenants
      BY <3>1 DEF NextStage, RaiseInv, Registered
    <3> QED  BY <2>1, <2>2, <3>2, RaiseByAdvance DEF faults
  <2>3. CASE End(t, "raised") /\ excused' = excused \cup {t} /\ UNCHANGED stage
    BY <2>1, <2>3, RaiseByEnd
  <2> QED  BY <1>9, <2>2, <2>3 DEF Delete
<1>10. ASSUME NEW t \in Threads, Insert(t) PROVE RaiseInv'
  <2>1. Keeps  BY <1>10 DEF Insert
  <2>2. stage[t] = "insert"  BY <1>10 DEF Insert, RaiseInv, Placed
  <2>3. Tenant[Att(t)] \in tenants /\ UNCHANGED tenants
    BY <1>10, <2>2 DEF Insert, RaiseInv, Registered
  <2>4. Advance(t)  BY <1>10, <2>3 DEF Insert
  <2> QED  BY <2>1, <2>3, <2>4, RaiseByAdvance
<1>11. ASSUME NEW t \in Threads, Fetch(t) PROVE RaiseInv'
  <2>1. Keeps /\ UNCHANGED stage  BY <1>11 DEF Fetch, store, local, faults
  <2>2. CASE End(t, "ok")  BY <2>1, <2>2, RaiseByEnd
  <2>3. CASE UNCHANGED <<pc, result>>
    BY <2>1, <2>3 DEF RaiseInv, Registered, Placed, Att, OnlyWeaviateRaises
  <2> QED  BY <1>11, <2>2, <2>3 DEF Fetch
<1>12. ASSUME NEW t \in Threads, Search(t) PROVE RaiseInv'
  <2>1. Keeps /\ UNCHANGED stage /\ End(t, "ok")  BY <1>12 DEF Search, store, local, faults
  <2> QED  BY <2>1, RaiseByEnd
<1>13. ASSUME NEW t \in Threads, Ready(t) PROVE RaiseInv'
  <2>1. Keeps /\ UNCHANGED stage /\ End(t, "ok")  BY <1>13 DEF Ready, store, local, faults
  <2> QED  BY <2>1, RaiseByEnd
<1>14. ASSUME NEW t \in Threads, Raise(t) PROVE RaiseInv'
  <2>1. Keeps /\ UNCHANGED stage /\ End(t, "raised") /\ t \in excused'
    BY <1>14 DEF Raise, store, local
  <2> QED  BY <2>1, RaiseByEnd
<1>15. CASE UNCHANGED vars
  BY <1>15 DEF vars, store, local, faults, RaiseInv, Registered, Placed, Att, OnlyWeaviateRaises
<1> QED
  BY <1>1, <1>2, <1>3, <1>4, <1>5, <1>6, <1>7, <1>8, <1>9, <1>10, <1>11, <1>12,
     <1>13, <1>14, <1>15 DEF Next, Step

(* An operation on the chunks raises only if Weaviate failed it, the client *)
(* was closed or the collection is missing: not because another thread      *)
(* registered the tenant first.                                             *)
THEOREM RaiseTheorem == Spec => []OnlyWeaviateRaises
<1>1. RaiseInv => OnlyWeaviateRaises  BY DEF RaiseInv
<1> QED  BY RaiseInit, RaiseStep, <1>1, PTL DEF Spec

-----------------------------------------------------------------------------
(* Who may connect.                                                         *)

Connected == {t \in Threads : connects[t] > 0}

(* While the process is up its connections are numbered from 1 and none has *)
(* been closed; the client is one of them as soon as there is one.  Either  *)
(* the start-up made the only one, and no thread is about to connect, or    *)
(* every connection was made by a thread of its own.                        *)
ConnectInv ==
    /\ connects \in [Threads -> Nat]
    /\ pc \in [Threads -> Labels]
    /\ phase \in {"off", "up", "closed"}
    /\ phase = "off" => /\ open = {} /\ made = 0
                        /\ \A t \in Threads : pc[t] = "idle" /\ connects[t] = 0
    /\ phase = "up" =>
        /\ made \in Nat /\ open = 1..made
        /\ made > 0 => client \in open
        /\ \A t \in Threads : /\ connects[t] <= 1
                              /\ connects[t] = 1 => pc[t] # "connect" /\ made > 0
        /\ \/ made = Cardinality(Connected)
           \/ made = 1 /\ Connected = {} /\ \A t \in Threads : pc[t] # "connect"

LEMMA ConnectedFinite == IsFiniteSet(Connected) /\ Cardinality(Connected) \in Nat
<1>1. Connected \in SUBSET Threads  BY DEF Connected
<1>2. IsFiniteSet(Connected)  BY <1>1, ChunkStoreAssumption, FS_Subset
<1> QED  BY <1>2, FS_CardinalityType

LEMMA ConnectInit == Init => ConnectInv
  BY DEF Init, ConnectInv, Labels

LEMMA ConnectMeans == ConnectInv => OneConnectionPerThread
<1> SUFFICES ASSUME ConnectInv, phase = "up" PROVE OneConnectionPerThread
  BY DEF OneConnectionPerThread
<1>1. made \in Nat /\ open = 1..made /\ (made > 0 => client \in open)
  BY DEF ConnectInv
<1>2. Cardinality(Connected) \in Nat /\ (Connected # {} => Cardinality(Connected) > 0)
  BY ConnectedFinite, FS_EmptySet
<1>3. CASE Connected # {}
  <2>1. made = Cardinality(Connected) /\ made > 0
    BY <1>2, <1>3 DEF ConnectInv
  <2>2. IsFiniteSet(open) /\ Cardinality(open) = made
    BY <1>1, <2>1, FS_Interval
  <2>3. Cardinality(open \ {client}) = made - 1
    BY <1>1, <2>1, <2>2, FS_RemoveElement
  <2>4. Cardinality(open \ {client}) < Cardinality(Connected)
    BY <1>2, <2>1, <2>3
  <2> QED  BY <1>3, <2>4 DEF ConnectInv, OneConnectionPerThread, Connected
<1>4. CASE Connected = {}
  <2>1. made \in {0, 1}  BY <1>4, FS_EmptySet DEF ConnectInv
  <2>2. open \subseteq {client}  BY <1>1, <2>1
  <2> QED  BY <1>4, <2>2 DEF ConnectInv, OneConnectionPerThread, Connected
<1> QED  BY <1>3, <1>4

(* A step of a thread that makes no connection.                             *)
LEMMA ConnectFrame ==
  ASSUME ConnectInv, UNCHANGED <<phase, conns>>, phase # "off",
         NEW t \in Threads, NEW label \in Labels, Goto(t, label),
         label = "connect" => client \notin open
  PROVE  ConnectInv'
<1>1. Connected' = Connected  BY DEF Connected, conns
<1>2. pc' \in [Threads -> Labels]  BY DEF ConnectInv, Goto
<1>3. /\ UNCHANGED <<open, made, client, connects>>
      /\ \A u \in Threads : u # t => pc'[u] = pc[u]
      /\ pc'[t] = label
  BY DEF conns, Goto, ConnectInv
<1> QED  BY <1>1, <1>2, <1>3 DEF ConnectInv

LEMMA ConnectStep == ConnectInv /\ [Next]_vars => ConnectInv'
<1> SUFFICES ASSUME ConnectInv, [Next]_vars PROVE ConnectInv'
  OBVIOUS
<1> USE DEF Labels
<1>1. CASE Boot
  <2>1. /\ phase = "off" /\ phase' = "up" /\ UNCHANGED <<connects, pc>>
        /\ open = {} /\ made = 0 /\ Connected = {} /\ Connected' = {}
    BY <1>1 DEF Boot, ConnectInv, Connected
  <2>2. Cardinality(Connected') = 0  BY <2>1, FS_EmptySet
  <2>3. \/ UNCHANGED <<client, open, made>>
        \/ client' = made + 1 /\ made' = made + 1 /\ open' = open \cup {made + 1}
    BY <1>1 DEF Boot
  <2>4. CASE UNCHANGED <<client, open, made>>
    <3>1. open' = 1..made' /\ made' = 0  BY <2>1, <2>4
    <3> QED  BY <2>1, <2>2, <3>1 DEF ConnectInv
  <2>5. CASE client' = made + 1 /\ made' = made + 1 /\ open' = open \cup {made + 1}
    <3>1. open' = 1..made' /\ made' = 1 /\ client' \in open'  BY <2>1, <2>5
    <3> QED  BY <2>1, <3>1 DEF ConnectInv
  <2> QED  BY <2>3, <2>4, <2>5
<1>2. CASE Shutdown
  BY <1>2 DEF Shutdown, ConnectInv
<1>3. ASSUME NEW t \in Threads, Connect(t) PROVE ConnectInv'
  <2>1. phase # "off" /\ pc[t] = "connect" /\ UNCHANGED phase
    BY <1>3 DEF Connect, process, ConnectInv
  <2>2. CASE End(t, "raised") /\ UNCHANGED conns
    BY <2>1, <2>2, ConnectFrame DEF End
  <2>3. CASE /\ made' = made + 1 /\ client' = made' /\ open' = open \cup {made'}
             /\ connects' = [connects EXCEPT ![t] = @ + 1]
             /\ Goto(t, "return")
    <3>1. pc' = [pc EXCEPT ![t] = "return"]  BY <2>3 DEF Goto
    <3>2. /\ connects' \in [Threads -> Nat] /\ pc' \in [Threads -> Labels]
          /\ phase' \in {"up", "closed"}
      BY <2>1, <2>3, <3>1 DEF ConnectInv
    <3>3. CASE phase = "up"
      <4>1. /\ made \in Nat /\ open = 1..made /\ connects[t] = 0
            /\ made = Cardinality(Connected)
        BY <2>1, <3>3 DEF ConnectInv
      <4>2. made' \in Nat /\ made' > 0 /\ open' = 1..made' /\ client' \in open'
        BY <2>3, <4>1
      <4>3. Connected' = Connected \cup {t} /\ t \notin Connected
        BY <2>3, <4>1 DEF ConnectInv, Connected
      <4>4. Cardinality(Connected') = made'
        BY <2>3, <4>1, <4>3, ConnectedFinite, FS_AddElement
      <4>5. \A u \in Threads : /\ connects'[u] <= 1
                               /\ connects'[u] = 1 => pc'[u] # "connect"
        BY <2>3, <3>1, <3>3, <4>1 DEF ConnectInv
      <4> QED  BY <2>1, <3>2, <3>3, <4>2, <4>4, <4>5 DEF ConnectInv
    <3>4. CASE phase = "closed"
      BY <2>1, <3>2, <3>4 DEF ConnectInv
    <3> QED  BY <2>1, <3>3, <3>4 DEF ConnectInv
  <2> QED  BY <1>3, <2>2, <2>3 DEF Connect
<1>4. ASSUME NEW t \in Threads, Start(t) PROVE ConnectInv'
  BY <1>4, ConnectFrame DEF Start, process
<1>5. ASSUME NEW t \in Threads, Check(t) PROVE ConnectInv'
  <2>1. phase # "off" /\ UNCHANGED <<phase, conns>>
    BY <1>5 DEF Check, process, ConnectInv
  <2>2. \/ Goto(t, "return")
        \/ Goto(t, "connect") /\ client \notin open
    BY <1>5 DEF Check
  <2> QED  BY <2>1, <2>2, ConnectFrame
<1>6. ASSUME NEW t \in Threads,
             Return(t) \/ Exists(t) \/ Create(t) \/ Delete(t) \/ Insert(t)
               \/ Fetch(t) \/ Search(t) \/ Ready(t) \/ Raise(t)
      PROVE  ConnectInv'
  <2>1. UNCHANGED <<phase, conns>> /\ pc[t] # "idle"
    BY <1>6 DEF Return, Exists, Create, Delete, Insert, Fetch, Search, Ready, Raise, process
  <2>2. phase # "off"  BY <2>1 DEF ConnectInv
  <2>3. \/ UNCHANGED pc
        \/ \E label \in Labels \ {"connect"} : Goto(t, label)
    BY <1>6 DEF Return, Exists, Create, Delete, Insert, Fetch, Search, Ready, Raise, End, Advance
  <2>4. CASE UNCHANGED pc
    BY <2>1, <2>2, <2>4 DEF ConnectInv, Connected, conns
  <2> QED  BY <2>1, <2>2, <2>3, <2>4, ConnectFrame
<1>7. CASE UNCHANGED vars
  BY <1>7 DEF vars, process, conns, ConnectInv, Connected
<1> QED  BY <1>1, <1>2, <1>3, <1>4, <1>5, <1>6, <1>7 DEF Next, Step

(* The threads share one client without a lock: no thread connects twice    *)
(* while the process is up, and the connections nobody closes are those of  *)
(* threads that lost the race for the first.                                *)
THEOREM ConnectTheorem == Spec => []OneConnectionPerThread
  BY ConnectInit, ConnectStep, ConnectMeans, PTL DEF Spec

-----------------------------------------------------------------------------
(* The objects of some attachments.                                         *)

Picks(g, atts, s, n) ==
    /\ g \in [0..n -> Seq(Object)]
    /\ g[0] = <<>> /\ g[n] = OfAny(atts, s)
    /\ \A i \in 1..n : g[i] = IF s[i].att \in atts THEN Append(g[i - 1], s[i]) ELSE g[i - 1]

LEMMA OfAnyIs ==
  ASSUME NEW s \in Seq(Object), NEW atts, NEW n \in Nat, n = Len(s)
  PROVE  \E g : Picks(g, atts, s, n)
<1> DEFINE V == Seq(Object)
           base == <<>>
           step == [i \in 1..n |-> [y \in V |-> IF s[i].att \in atts THEN Append(y, s[i]) ELSE y]]
           Computes(f) == f = [i \in 0..n |-> IF i = 0 THEN <<>>
                                 ELSE IF s[i].att \in atts THEN Append(f[i - 1], s[i]) ELSE f[i - 1]]
           fold == CHOOSE f : Computes(f)
<1>1. n \in Nat /\ base \in V /\ \A i \in 1..n : s[i] \in Object
  OBVIOUS
<1>2. step \in [1..n -> [V -> V]]
  <2>1. \A i \in 1..n : \A y \in V : (IF s[i].att \in atts THEN Append(y, s[i]) ELSE y) \in V
    BY <1>1
  <2> HIDE DEF V
  <2> QED  BY <2>1
<1>3. \A i \in 1..n : \A y \in V : step[i][y] = IF s[i].att \in atts THEN Append(y, s[i]) ELSE y
  <2> HIDE DEF V
  <2> QED  OBVIOUS
<1>4. OfAny(atts, s) = fold[n]  BY Zenon DEF OfAny
<1>4a. base = <<>>  OBVIOUS
<1> HIDE DEF V, step, Computes, fold, base
<1>5a. \E g : Runs(g, V, n, base, step)
  <2>1. base \in V  BY <1>1
  <2> QED  BY <1>2, <2>1, RunsExist, Zenon
<1>5. PICK g \in [0..n -> V] : g[0] = base /\ \A i \in 1..n : g[i] = step[i][g[i - 1]]
  BY <1>5a DEF Runs
<1>6. ASSUME NEW i \in 1..n
      PROVE  g[i] = IF s[i].att \in atts THEN Append(g[i - 1], s[i]) ELSE g[i - 1]
  <2>1. g[i - 1] \in V  BY <1>1
  <2> QED  BY <1>3, <1>5, <2>1
<1>7. Computes(g)
  <2>1. DOMAIN g = 0..n /\ g = [i \in 0..n |-> g[i]]  OBVIOUS
  <2>2. \A i \in 0..n : i = 0 \/ i \in 1..n  BY <1>1
  <2>3. \A i \in 0..n : g[i] = IF i = 0 THEN <<>>
                               ELSE IF s[i].att \in atts THEN Append(g[i - 1], s[i]) ELSE g[i - 1]
    BY <1>4a, <1>5, <1>6, <2>2
  <2> QED  BY <2>1, <2>3 DEF Computes
<1>8. Computes(fold)  BY <1>7 DEF fold
<1>9. fold[n] = g[n]
  <2>1. \A i \in 0..n : fold[i] = IF i = 0 THEN <<>>
                               ELSE IF s[i].att \in atts THEN Append(fold[i - 1], s[i]) ELSE fold[i - 1]
    BY <1>8 DEF Computes
  <2> DEFINE P == {i \in 0..n : fold[i] = g[i]}
  <2>2. 0 \in P  BY <1>1, <1>4a, <1>5, <2>1
  <2>3. ASSUME NEW i \in 1..n, i - 1 \in P PROVE i \in P
    <3>1. i \in 0..n /\ i # 0  BY <1>1
    <3>2. fold[i] = IF s[i].att \in atts THEN Append(fold[i - 1], s[i]) ELSE fold[i - 1]
      BY <2>1, <3>1
    <3>3. fold[i - 1] = g[i - 1]  BY <2>3
    <3> QED  BY <1>6, <3>1, <3>2, <3>3
  <2> HIDE DEF P
  <2>4. \A i \in 1..n : i - 1 \in P => i \in P  BY <2>3
  <2>5. \A i \in 0..n : i \in P  BY <1>1, <2>2, <2>4, InductionUpTo
  <2>6. n \in 0..n  BY <1>1
  <2> QED  BY <2>5, <2>6 DEF P
<1> QED  BY <1>4, <1>4a, <1>5, <1>6, <1>9 DEF V, Picks

LEMMA OfAnyTyped ==
  ASSUME NEW s \in Seq(Object), NEW atts
  PROVE  OfAny(atts, s) \in Seq(Object)
<1>1. PICK n \in Nat : n = Len(s)  OBVIOUS
<1>2. PICK g : Picks(g, atts, s, n)  BY <1>1, OfAnyIs
<1>3. n \in 0..n  OBVIOUS
<1> QED  BY <1>2, <1>3 DEF Picks

LEMMA OfNone == \A atts : OfAny(atts, <<>>) = <<>>
<1> TAKE atts
<1>0. <<>> \in Seq(Object)  OBVIOUS
<1>1. PICK s \in Seq(Object) : s = <<>>  BY <1>0
<1>2. Len(s) = 0 /\ 0 \in Nat  BY <1>1
<1>3. PICK g : Picks(g, atts, s, 0)  BY <1>2, OfAnyIs
<1> QED  BY <1>1, <1>3 DEF Picks

LEMMA OfMore ==
  ASSUME NEW s \in Seq(Object), NEW o \in Object, NEW atts
  PROVE  OfAny(atts, Append(s, o)) =
           IF o.att \in atts THEN Append(OfAny(atts, s), o) ELSE OfAny(atts, s)
<1>0. PICK n \in Nat : n = Len(s)  OBVIOUS
<1>1. PICK g : Picks(g, atts, s, n)  BY <1>0, OfAnyIs
<1>2. PICK m : m = Append(s, o)  OBVIOUS
<1>3. m \in Seq(Object) /\ Len(m) = n + 1 /\ m[n + 1] = o /\ \A i \in 1..n : m[i] = s[i]
  BY <1>0, <1>2
<1>4. n + 1 \in Nat /\ n + 1 = Len(m)  BY <1>3
<1>5. PICK h : Picks(h, atts, m, n + 1)  BY <1>3, <1>4, OfAnyIs
<1> DEFINE P == {i \in 0..n : h[i] = g[i]}
<1>6. 0 \in P  BY <1>1, <1>5 DEF Picks
<1>7. ASSUME NEW i \in 1..n, i - 1 \in P PROVE i \in P
  <2>1. i \in 1..(n + 1) /\ i \in 0..n  OBVIOUS
  <2>2. h[i - 1] = g[i - 1] /\ m[i] = s[i]  BY <1>3, <1>7
  <2>3. h[i] = IF m[i].att \in atts THEN Append(h[i - 1], m[i]) ELSE h[i - 1]  BY <1>5, <2>1 DEF Picks
  <2> QED  BY <1>1, <2>1, <2>2, <2>3 DEF Picks
<1>8. h[n] = g[n]
  <2> HIDE DEF P
  <2>1. \A i \in 1..n : i - 1 \in P => i \in P  BY <1>7
  <2>2. \A i \in 0..n : i \in P  BY <1>6, <2>1, InductionUpTo
  <2>3. n \in P  BY <2>2
  <2> QED  BY <2>3 DEF P
<1>9. h[n + 1] = IF o.att \in atts THEN Append(h[n], o) ELSE h[n]
  <2>1. n + 1 \in 1..(n + 1) /\ (n + 1) - 1 = n  OBVIOUS
  <2> QED  BY <1>3, <1>5, <2>1 DEF Picks
<1> QED  BY <1>1, <1>2, <1>5, <1>8, <1>9 DEF Picks

NoTwins(s) == \A i, j \in 1..Len(s) : s[i] = s[j] => i = j

LEMMA ToSetIs ==
  ASSUME NEW V, NEW s \in Seq(V), NEW v \in V
  PROVE  /\ ToSet(Append(s, v)) = ToSet(s) \cup {v}
         /\ \A i \in 1..Len(s) : s[i] \in ToSet(s)
         /\ ToSet(s) \subseteq V
<1>1. PICK m : m = Append(s, v)  OBVIOUS
<1>2. PICK n \in Nat : n = Len(s)  OBVIOUS
<1>3. /\ DOMAIN s = 1..n /\ DOMAIN m = 1..(n + 1) /\ m[n + 1] = v
      /\ \A i \in 1..n : m[i] = s[i] /\ s[i] \in V
  BY <1>1, <1>2
<1>4. 1..(n + 1) = (1..n) \cup {n + 1}  OBVIOUS
<1>5. {m[i] : i \in 1..(n + 1)} = {s[i] : i \in 1..n} \cup {v}  BY <1>3, <1>4
<1> QED  BY <1>1, <1>2, <1>3, <1>5 DEF ToSet

LEMMA NoTwinsMore ==
  ASSUME NEW V, NEW s \in Seq(V), NEW v \in V, NoTwins(s), v \notin ToSet(s)
  PROVE  NoTwins(Append(s, v))
<1>1. PICK m : m = Append(s, v)  OBVIOUS
<1>2. PICK n \in Nat : n = Len(s)  OBVIOUS
<1>3. Len(m) = n + 1 /\ m[n + 1] = v /\ \A i \in 1..n : m[i] = s[i]
  BY <1>1, <1>2
<1>4. \A i \in 1..n : m[i] # v  BY <1>2, <1>3, ToSetIs
<1>5. ASSUME NEW i \in 1..(n + 1), NEW j \in 1..(n + 1), m[i] = m[j] PROVE i = j
  <2>1. CASE i = n + 1 \/ j = n + 1  BY <1>3, <1>4, <1>5, <2>1
  <2>2. CASE i \in 1..n /\ j \in 1..n  BY <1>2, <1>3, <1>5, <2>2 DEF NoTwins
  <2> QED  BY <2>1, <2>2
<1> QED  BY <1>1, <1>3, <1>5 DEF NoTwins

LEMMA NoTwinsLess ==
  ASSUME NEW V, NEW s \in Seq(V), NEW v \in V, NoTwins(Append(s, v))
  PROVE  NoTwins(s) /\ v \notin ToSet(s)
<1>1. PICK m : m = Append(s, v)  OBVIOUS
<1>2. PICK n \in Nat : n = Len(s)  OBVIOUS
<1>3. Len(m) = n + 1 /\ m[n + 1] = v /\ \A i \in 1..n : m[i] = s[i]
  BY <1>1, <1>2
<1>4. \A i, j \in 1..(n + 1) : m[i] = m[j] => i = j  BY <1>1, <1>3 DEF NoTwins
<1>5. \A i \in 1..n : i \in 1..(n + 1) /\ i # n + 1 /\ n + 1 \in 1..(n + 1)  OBVIOUS
<1>6. NoTwins(s)  BY <1>2, <1>3, <1>4, <1>5 DEF NoTwins
<1>7. \A i \in 1..n : s[i] # v  BY <1>3, <1>4, <1>5
<1>8. DOMAIN s = 1..n  BY <1>2
<1> QED  BY <1>6, <1>7, <1>8 DEF ToSet

(* A sequence without twins is as long as it has elements.                  *)
LEMMA NoTwinsCount ==
  ASSUME NEW V
  PROVE  \A s \in Seq(V) : NoTwins(s) => /\ IsFiniteSet(ToSet(s))
                                         /\ Cardinality(ToSet(s)) = Len(s)
<1> DEFINE P == {s \in Seq(V) : NoTwins(s) => /\ IsFiniteSet(ToSet(s))
                                             /\ Cardinality(ToSet(s)) = Len(s)}
<1>1. <<>> \in P
  <2>1. ToSet(<<>>) = {} /\ Len(<<>>) = 0 /\ <<>> \in Seq(V)  BY DEF ToSet
  <2> QED  BY <2>1, FS_EmptySet
<1>2. ASSUME NEW s \in Seq(V), NEW v \in V, s \in P PROVE Append(s, v) \in P
  <2>1. Append(s, v) \in Seq(V) /\ Len(Append(s, v)) = Len(s) + 1 /\ Len(s) \in Nat  OBVIOUS
  <2>2. ASSUME NoTwins(Append(s, v))
        PROVE  /\ IsFiniteSet(ToSet(Append(s, v)))
               /\ Cardinality(ToSet(Append(s, v))) = Len(Append(s, v))
    <3>1. NoTwins(s) /\ v \notin ToSet(s)  BY <2>2, NoTwinsLess
    <3>2. IsFiniteSet(ToSet(s)) /\ Cardinality(ToSet(s)) = Len(s)  BY <1>2, <3>1
    <3>3. ToSet(Append(s, v)) = ToSet(s) \cup {v}  BY ToSetIs
    <3>4. /\ IsFiniteSet(ToSet(s) \cup {v})
          /\ Cardinality(ToSet(s) \cup {v}) = Cardinality(ToSet(s)) + 1
      BY <3>1, <3>2, FS_AddElement
    <3> QED  BY <2>1, <3>2, <3>3, <3>4
  <2> QED  BY <2>1, <2>2
<1> HIDE DEF P
<1>3. \A s \in Seq(V) : s \in P  BY <1>1, <1>2, SequenceInduction
<1> QED  BY <1>3 DEF P

(* What is picked are the objects of those attachments, each as often as    *)
(* there is one.                                                            *)
LEMMA OfAnyGives ==
  ASSUME NEW atts
  PROVE  \A s \in Seq(Object) : /\ ToSet(OfAny(atts, s)) = {o \in ToSet(s) : o.att \in atts}
                                /\ NoTwins(s) => NoTwins(OfAny(atts, s))
<1> DEFINE P == {s \in Seq(Object) : /\ ToSet(OfAny(atts, s)) = {o \in ToSet(s) : o.att \in atts}
                                     /\ NoTwins(s) => NoTwins(OfAny(atts, s))}
<1>1. <<>> \in P
  <2>1. ToSet(<<>>) = {} /\ Len(<<>>) = 0 /\ <<>> \in Seq(Object)  BY DEF ToSet
  <2>2. NoTwins(<<>>)  BY <2>1 DEF NoTwins
  <2> QED  BY <2>1, <2>2, OfNone
<1>2. ASSUME NEW s \in Seq(Object), NEW o \in Object, s \in P PROVE Append(s, o) \in P
  <2>1. PICK p : p = OfAny(atts, s)  OBVIOUS
  <2>2. p \in Seq(Object) /\ ToSet(p) = {q \in ToSet(s) : q.att \in atts}
    BY <1>2, <2>1, OfAnyTyped
  <2>3. PICK r : r = OfAny(atts, Append(s, o))  OBVIOUS
  <2>4. r = IF o.att \in atts THEN Append(p, o) ELSE p  BY <2>1, <2>3, OfMore
  <2>5. ToSet(Append(s, o)) = ToSet(s) \cup {o} /\ ToSet(Append(p, o)) = ToSet(p) \cup {o}
    BY <2>2, ToSetIs
  <2>6. ToSet(r) = {q \in ToSet(Append(s, o)) : q.att \in atts}
    BY <2>2, <2>4, <2>5
  <2>7. ASSUME NoTwins(Append(s, o)) PROVE NoTwins(r)
    <3>1. NoTwins(s) /\ o \notin ToSet(s)  BY <2>7, NoTwinsLess
    <3>2. NoTwins(p) /\ o \notin ToSet(p)  BY <1>2, <2>1, <2>2, <3>1
    <3>3. NoTwins(Append(p, o))  BY <2>2, <3>2, NoTwinsMore
    <3> QED  BY <2>4, <3>2, <3>3
  <2>8. Append(s, o) \in Seq(Object)  OBVIOUS
  <2> QED  BY <2>3, <2>6, <2>7, <2>8
<1> HIDE DEF P
<1>3. \A s \in Seq(Object) : s \in P  BY <1>1, <1>2, SequenceInduction
<1> QED  BY <1>3 DEF P

(* What is deleted or inserted of other attachments does not matter.        *)
LEMMA OfOther ==
  ASSUME NEW a, NEW atts, a \in atts
  PROVE  \A s \in Seq(Object) : Of(a, OfAny(atts, s)) = Of(a, s)
<1> DEFINE P == {s \in Seq(Object) : OfAny({a}, OfAny(atts, s)) = OfAny({a}, s)}
<1>1. <<>> \in P
  <2>1. <<>> \in Seq(Object)  OBVIOUS
  <2> QED  BY <2>1, OfNone
<1>2. ASSUME NEW s \in Seq(Object), NEW o \in Object, s \in P PROVE Append(s, o) \in P
  <2>1. PICK p \in Seq(Object) : p = OfAny(atts, s)  BY OfAnyTyped
  <2>2. OfAny({a}, p) = OfAny({a}, s)  BY <1>2, <2>1
  <2>3. PICK x : x = OfAny({a}, s)  OBVIOUS
  <2>4. OfAny({a}, Append(s, o)) = IF o.att \in {a} THEN Append(x, o) ELSE x
    BY <2>3, OfMore
  <2>5. OfAny({a}, Append(p, o)) = IF o.att \in {a} THEN Append(x, o) ELSE x
    BY <2>2, <2>3, OfMore
  <2>6. OfAny(atts, Append(s, o)) = IF o.att \in atts THEN Append(p, o) ELSE p
    BY <2>1, OfMore
  <2>7. OfAny({a}, OfAny(atts, Append(s, o))) = OfAny({a}, Append(s, o))
    <3>1. CASE o.att \in atts  BY <2>4, <2>5, <2>6, <3>1
    <3>2. CASE o.att \notin atts  BY <2>2, <2>3, <2>4, <2>6, <3>2
    <3> QED  BY <3>1, <3>2
  <2>8. Append(s, o) \in Seq(Object)  OBVIOUS
  <2> QED  BY <2>7, <2>8
<1> HIDE DEF P
<1>3. \A s \in Seq(Object) : s \in P  BY <1>1, <1>2, SequenceInduction
<1> QED  BY <1>3 DEF P, Of

LEMMA OfConcat ==
  ASSUME NEW a, NEW s \in Seq(Object)
  PROVE  \A u \in Seq(Object) :
            (\A o \in ToSet(u) : o.att # a) => Of(a, s \o u) = Of(a, s)
<1> DEFINE P == {u \in Seq(Object) : (\A o \in ToSet(u) : o.att # a)
                                         => OfAny({a}, s \o u) = OfAny({a}, s)}
<1>1. <<>> \in P
  <2>1. <<>> \in Seq(Object) /\ s \o <<>> = s  OBVIOUS
  <2> QED  BY <2>1
<1>2. ASSUME NEW u \in Seq(Object), NEW o \in Object, u \in P PROVE Append(u, o) \in P
  <2>1. ASSUME \A q \in ToSet(Append(u, o)) : q.att # a
        PROVE  OfAny({a}, s \o Append(u, o)) = OfAny({a}, s)
    <3>1. ToSet(Append(u, o)) = ToSet(u) \cup {o}  BY ToSetIs
    <3>2. OfAny({a}, s \o u) = OfAny({a}, s) /\ o.att # a  BY <1>2, <2>1, <3>1
    <3>3. s \o Append(u, o) = Append(s \o u, o) /\ s \o u \in Seq(Object)  OBVIOUS
    <3>4. OfAny({a}, Append(s \o u, o)) = OfAny({a}, s \o u)  BY <3>2, <3>3, OfMore
    <3> QED  BY <3>2, <3>3, <3>4
  <2>2. Append(u, o) \in Seq(Object)  OBVIOUS
  <2> QED  BY <2>1, <2>2
<1> HIDE DEF P
<1>3. \A u \in Seq(Object) : u \in P  BY <1>1, <1>2, SequenceInduction
<1> QED  BY <1>3 DEF P, Of

-----------------------------------------------------------------------------
(* The types.                                                               *)

Located(t) ==
    /\ pc[t] = "idle" <=> stage[t] = "none"
    /\ pc[t] = "done" <=> result[t] # "none"
    /\ pc[t] # "idle" => job[t] \in Job

StoreTyped ==
    /\ phase \in {"off", "up", "closed"} /\ schema \in BOOLEAN
    /\ objects \in Seq(Object)
    /\ \A o \in ToSet(objects) : Tenant[o.att] \in tenants

ConnsTyped ==
    /\ made \in Nat /\ open \subseteq 1..made
    /\ client \in open \cup {None}
    /\ handle \in [Threads -> 1..made \cup {None}]

TypeInv ==
    /\ RaiseInv
    /\ \A t \in Threads : Located(t)
    /\ StoreTyped
    /\ ConnsTyped

LEMMA TypeMeans == TypeInv => TypeOK
<1> SUFFICES ASSUME TypeInv PROVE TypeOK
  OBVIOUS
<1>1. ToSet(objects) \subseteq Object
  BY DEF TypeInv, StoreTyped, ToSet
<1>2. {Tenant[o.att] : o \in ToSet(objects)} \subseteq tenants
  BY DEF TypeInv, StoreTyped
<1>3. \A t \in Threads : handle[t] \in 1..made \cup {None}
  BY DEF TypeInv, ConnsTyped
<1>4. /\ phase \in {"off", "up", "closed"} /\ schema \in BOOLEAN
      /\ client \in open \cup {None} /\ open \subseteq 1..made
  BY DEF TypeInv, StoreTyped, ConnsTyped
<1> QED  BY <1>1, <1>2, <1>3, <1>4, Zenon DEF TypeInv, Located, TypeOK

LEMMA TypeInit == Init => TypeInv
<1> SUFFICES ASSUME Init PROVE TypeInv
  OBVIOUS
<1>1. RaiseInv  BY RaiseInit
<1>2. \A t \in Threads : Located(t)  BY DEF Init, Located
<1>3. objects \in Seq(Object)
  <2>1. <<>> \in Seq(Object)  OBVIOUS
  <2>2. ASSUME NEW s \in Stored PROVE s \in Seq(Object)
    <3>1. s \in Seq([att : Attachments, index : Nat, by : Earlier])
      BY ChunkStoreAssumption
    <3>2. [att : Attachments, index : Nat, by : Earlier] \subseteq Object
      BY DEF Object
    <3> DEFINE V == [att : Attachments, index : Nat, by : Earlier]
               W == Object
    <3>3. s \in Seq(V) /\ V \subseteq W  BY <3>1, <3>2
    <3> HIDE DEF V, W
    <3>4. s \in Seq(W)  BY <3>3
    <3> QED  BY <3>4 DEF W
  <2> QED  BY <2>1, <2>2 DEF Init
<1>4. \A o \in ToSet(objects) : Tenant[o.att] \in tenants
  BY DEF Init
<1>5. StoreTyped  BY <1>3, <1>4 DEF Init, StoreTyped
<1>6. ConnsTyped  BY DEF Init, ConnsTyped
<1> QED  BY <1>1, <1>2, <1>5, <1>6 DEF TypeInv

-----------------------------------------------------------------------------
(* What a step of a thread does to where the thread is.                     *)

Moves(t) == \E label \in Labels \ {"idle", "done"} : Goto(t, label) /\ UNCHANGED <<stage, result>>

Ends(t) == \E how \in {"ok", "raised"} : End(t, how) /\ UNCHANGED stage

Acts(t) ==
    /\ UNCHANGED job
    /\ pc[t] \notin {"idle", "done"}
    /\ Moves(t) \/ Ends(t) \/ Advance(t) \/ UNCHANGED <<pc, stage, result>>

LEMMA StepActs ==
  ASSUME NEW t \in Threads, Step(t)
  PROVE  Acts(t)
<1> USE DEF Labels
<1>1. CASE Check(t)  BY <1>1, Zenon DEF Check, Acts, Moves, local
<1>2. CASE Connect(t)
  <2>1. UNCHANGED <<job, stage>> /\ pc[t] = "connect"  BY <1>2 DEF Connect, local
  <2>2. \/ Goto(t, "return") /\ UNCHANGED result
        \/ End(t, "raised")
    BY <1>2 DEF Connect
  <2> QED  BY <2>1, <2>2, Zenon DEF Acts, Moves, Ends
<1>3. CASE Return(t)
  <2>1. UNCHANGED <<job, stage, result>> /\ pc[t] = "return"  BY <1>3 DEF Return
  <2>2. Goto(t, "insert") \/ Goto(t, "ready") \/ Goto(t, "exists")  BY <1>3 DEF Return
  <2> QED  BY <2>1, <2>2, Zenon DEF Acts, Moves
<1>4. CASE Exists(t)
  <2>1. UNCHANGED job /\ pc[t] = "exists"  BY <1>4 DEF Exists
  <2>2. \/ Advance(t)
        \/ /\ UNCHANGED <<stage, result>>
           /\ Goto(t, "delete") \/ Goto(t, "fetch") \/ Goto(t, "search") \/ Goto(t, "create")
    <3>1. CASE Tenant[Att(t)] \in tenants  BY <1>4, <3>1 DEF Exists
    <3>2. CASE Tenant[Att(t)] \notin tenants  BY <1>4, <3>2 DEF Exists
    <3> QED  BY <3>1, <3>2
  <2> QED  BY <2>1, <2>2, Zenon DEF Acts, Moves
<1>5. CASE Create(t)  BY <1>5 DEF Create, Acts
<1>6. CASE Delete(t)
  <2>1. UNCHANGED job /\ pc[t] = "delete"  BY <1>6 DEF Delete
  <2>2. Advance(t) \/ (End(t, "raised") /\ UNCHANGED stage)  BY <1>6 DEF Delete
  <2> QED  BY <2>1, <2>2, Zenon DEF Acts, Ends
<1>7. CASE Insert(t)
  <2>1. UNCHANGED job /\ pc[t] = "insert"  BY <1>7 DEF Insert
  <2>2. Advance(t) \/ (End(t, "raised") /\ UNCHANGED stage)
    <3>1. CASE Tenant[Att(t)] \in tenants  BY <1>7, <3>1 DEF Insert
    <3>2. CASE Tenant[Att(t)] \notin tenants  BY <1>7, <3>2 DEF Insert
    <3> QED  BY <3>1, <3>2
  <2> QED  BY <2>1, <2>2, Zenon DEF Acts, Ends
<1>8. CASE Fetch(t)
  <2>1. UNCHANGED <<job, stage>> /\ pc[t] = "fetch"  BY <1>8 DEF Fetch, local
  <2>2. End(t, "ok") \/ UNCHANGED <<pc, result>>  BY <1>8 DEF Fetch
  <2> QED  BY <2>1, <2>2, Zenon DEF Acts, Ends
<1>9. CASE Search(t)
  <2>1. UNCHANGED <<job, stage>> /\ pc[t] = "search" /\ End(t, "ok")
    BY <1>9 DEF Search, local
  <2> QED  BY <2>1, Zenon DEF Acts, Ends
<1>10. CASE Ready(t)
  <2>1. UNCHANGED <<job, stage>> /\ pc[t] = "ready" /\ End(t, "ok")
    BY <1>10 DEF Ready, local
  <2> QED  BY <2>1, Zenon DEF Acts, Ends
<1>11. CASE Raise(t)
  <2>1. /\ UNCHANGED <<job, stage>> /\ End(t, "raised")
        /\ pc[t] \in {"exists", "create", "delete", "insert", "fetch", "search", "ready"}
    BY <1>11 DEF Raise, local
  <2>2. pc[t] \notin {"idle", "done"}  BY <2>1
  <2> QED  BY <2>1, <2>2, Zenon DEF Acts, Ends
<1> QED
  BY <1>1, <1>2, <1>3, <1>4, <1>5, <1>6, <1>7, <1>8, <1>9, <1>10, <1>11 DEF Step

(* Where the thread is afterwards, and that no other thread has moved.      *)
LEMMA ActsMeans ==
  ASSUME RaiseInv, NEW t \in Threads, Acts(t)
  PROVE  /\ \A u \in Threads \ {t} : /\ pc'[u] = pc[u] /\ stage'[u] = stage[u]
                                     /\ result'[u] = result[u]
         /\ pc'[t] # "idle"
         /\ stage'[t] = "none" => stage[t] = "none"
         /\ \/ pc'[t] = "done" /\ result'[t] # "none"
            \/ pc'[t] # "done" /\ result'[t] = result[t]
<1>0. /\ pc \in [Threads -> Labels] /\ stage \in [Threads -> Stages]
      /\ result \in [Threads -> Results] /\ pc[t] \notin {"idle", "done"}
  BY DEF RaiseInv, Acts
<1>1. CASE Moves(t)
  <2>1. PICK label \in Labels \ {"idle", "done"} : Goto(t, label) /\ UNCHANGED <<stage, result>>
    BY <1>1 DEF Moves
  <2>2. pc' = [pc EXCEPT ![t] = label]  BY <2>1 DEF Goto
  <2> QED  BY <1>0, <2>1, <2>2
<1>2. ASSUME NEW how \in {"ok", "raised"}, End(t, how), UNCHANGED stage
      PROVE  /\ \A u \in Threads \ {t} : /\ pc'[u] = pc[u] /\ stage'[u] = stage[u]
                                         /\ result'[u] = result[u]
             /\ pc'[t] = "done" /\ result'[t] # "none" /\ stage'[t] = stage[t]
  <2>1. pc' = [pc EXCEPT ![t] = "done"] /\ result' = [result EXCEPT ![t] = how]
    BY <1>2 DEF End, Goto
  <2>2. how # "none"  BY <1>2
  <2> QED  BY <1>0, <1>2, <2>1, <2>2
<1>3. CASE Ends(t)
  BY <1>2, <1>3 DEF Ends
<1>4. CASE Advance(t)
  <2>1. CASE NextStage(t) = "none"
    BY <1>2, <1>4, <2>1 DEF Advance
  <2>2. CASE NextStage(t) # "none"
    <3>1. /\ stage' = [stage EXCEPT ![t] = NextStage(t)]
          /\ pc' = [pc EXCEPT ![t] = "check"] /\ UNCHANGED result
      BY <1>4, <2>2 DEF Advance, Goto
    <3> QED  BY <1>0, <2>2, <3>1
  <2> QED  BY <2>1, <2>2
<1>5. CASE UNCHANGED <<pc, stage, result>>
  BY <1>0, <1>5
<1> QED  BY <1>1, <1>3, <1>4, <1>5 DEF Acts

LEMMA LocatedStep ==
  ASSUME TypeInv, NEW t \in Threads, Step(t)
  PROVE  \A u \in Threads : Located(u)'
<1>1. Acts(t) /\ RaiseInv  BY StepActs DEF TypeInv
<1>2. UNCHANGED job /\ pc[t] \notin {"idle", "done"}  BY <1>1 DEF Acts
<1>3. Located(t) /\ \A u \in Threads : Located(u)  BY DEF TypeInv
<1>4. Located(t)'
  <2>1. pc'[t] # "idle" /\ stage'[t] # "none" /\ job'[t] \in Job
    BY <1>1, <1>2, <1>3, ActsMeans DEF Located
  <2>2. pc'[t] = "done" <=> result'[t] # "none"
    BY <1>1, <1>2, <1>3, ActsMeans DEF Located
  <2> QED  BY <2>1, <2>2 DEF Located
<1>5. ASSUME NEW u \in Threads \ {t} PROVE Located(u)'
  <2>1. pc'[u] = pc[u] /\ stage'[u] = stage[u] /\ result'[u] = result[u]
    BY <1>1, ActsMeans
  <2> QED  BY <1>2, <1>3, <2>1 DEF Located
<1> QED  BY <1>4, <1>5

-----------------------------------------------------------------------------
(* What is stored.                                                          *)

LEMMA ConcatSet ==
  ASSUME NEW V, NEW s \in Seq(V), NEW u \in Seq(V)
  PROVE  ToSet(s \o u) = ToSet(s) \cup ToSet(u)
<1>1. PICK c : c = s \o u  OBVIOUS
<1>2. PICK n \in Nat : n = Len(s)  OBVIOUS
<1>3. PICK m \in Nat : m = Len(u)  OBVIOUS
<1>4. /\ DOMAIN s = 1..n /\ DOMAIN u = 1..m /\ DOMAIN c = 1..(n + m)
      /\ \A i \in 1..(n + m) : c[i] = IF i <= n THEN s[i] ELSE u[i - n]
  BY <1>1, <1>2, <1>3
<1>5. ASSUME NEW i \in 1..(n + m) PROVE c[i] \in ToSet(s) \cup ToSet(u)
  <2>1. CASE i <= n  BY <1>4, <2>1 DEF ToSet
  <2>2. CASE ~(i <= n)
    <3>1. i - n \in 1..m  BY <2>2
    <3> QED  BY <1>4, <2>2, <3>1 DEF ToSet
  <2> QED  BY <2>1, <2>2
<1>6. ASSUME NEW i \in 1..n PROVE s[i] \in ToSet(c)
  <2>1. i \in 1..(n + m) /\ c[i] = s[i]  BY <1>4
  <2> QED  BY <1>4, <2>1 DEF ToSet
<1>7. ASSUME NEW i \in 1..m PROVE u[i] \in ToSet(c)
  <2>1. n + i \in 1..(n + m) /\ ~(n + i <= n) /\ (n + i) - n = i  OBVIOUS
  <2>2. c[n + i] = u[i]  BY <1>4, <2>1
  <2> QED  BY <1>4, <2>1, <2>2 DEF ToSet
<1>8. ToSet(c) \subseteq ToSet(s) \cup ToSet(u)
  <2>1. \A x \in ToSet(c) : \E i \in 1..(n + m) : x = c[i]  BY <1>4 DEF ToSet
  <2> QED  BY <1>5, <2>1
<1>9. ToSet(s) \subseteq ToSet(c) /\ ToSet(u) \subseteq ToSet(c)
  <2>1. /\ \A x \in ToSet(s) : \E i \in 1..n : x = s[i]
        /\ \A x \in ToSet(u) : \E i \in 1..m : x = u[i]
    BY <1>4 DEF ToSet
  <2> QED  BY <1>6, <1>7, <2>1
<1> QED  BY <1>1, <1>8, <1>9

(* What a thread inserts: some of its chunks, in order, each once.          *)
Written(t, new) ==
    /\ new \in Seq(Object)
    /\ NoTwins(new)
    /\ \A o \in ToSet(new) : o.att = Att(t) /\ o.by = t /\ o.index < Size[t]

LEMMA InsertWrites ==
  ASSUME TypeInv, NEW t \in Threads, Insert(t)
  PROVE  /\ Tenant[Att(t)] \in tenants
         /\ \E new : Written(t, new) /\ objects' = objects \o new
<1>1. stage[t] = "insert" /\ job[t] \in Job
  BY DEF Insert, TypeInv, Located, RaiseInv, Placed
<1>2. Tenant[Att(t)] \in tenants
  BY <1>1 DEF TypeInv, RaiseInv, Registered
<1>3. Att(t) \in Attachments  BY <1>1 DEF Att, Job
<1>4. PICK n \in 0..Size[t] : \E kept \in [1..n -> 0..(Size[t] - 1)] :
         /\ \A i, j \in 1..n : i < j => kept[i] < kept[j]
         /\ objects' = objects \o [i \in 1..n |-> [att |-> Att(t), index |-> kept[i], by |-> t]]
  BY <1>2 DEF Insert
<1>5. PICK kept \in [1..n -> 0..(Size[t] - 1)] :
         /\ \A i, j \in 1..n : i < j => kept[i] < kept[j]
         /\ objects' = objects \o [i \in 1..n |-> [att |-> Att(t), index |-> kept[i], by |-> t]]
  BY <1>4
<1>6. Size[t] \in Nat /\ n \in Nat  BY ChunkStoreAssumption
<1>7. PICK new : new = [i \in 1..n |-> [att |-> Att(t), index |-> kept[i], by |-> t]]
  OBVIOUS
<1>8. /\ DOMAIN new = 1..n
      /\ \A i \in 1..n : /\ new[i].att = Att(t) /\ new[i].index = kept[i] /\ new[i].by = t
                         /\ new[i] = [att |-> Att(t), index |-> kept[i], by |-> t]
  BY <1>7
<1>9. \A i \in 1..n : kept[i] \in Nat /\ kept[i] < Size[t]  BY <1>6
<1>10. \A i \in 1..n : new[i] \in Object
  BY <1>3, <1>8, <1>9 DEF Object
<1>11. new \in Seq(Object) /\ Len(new) = n
  <2>1. new = [i \in 1..n |-> new[i]]  BY <1>7
  <2> HIDE DEF Object
  <2> QED  BY <1>6, <1>10, <2>1
<1>12. NoTwins(new)
  <2>1. ASSUME NEW i \in 1..n, NEW j \in 1..n, new[i] = new[j] PROVE i = j
    <3>1. kept[i] = kept[j]  BY <1>8, <2>1
    <3>2. kept[i] \in Nat /\ kept[j] \in Nat  BY <1>9
    <3> QED  BY <1>5, <3>1, <3>2
  <2> QED  BY <1>11, <2>1 DEF NoTwins
<1>13. \A o \in ToSet(new) : o.att = Att(t) /\ o.by = t /\ o.index < Size[t]
  BY <1>8, <1>9 DEF ToSet
<1> QED  BY <1>2, <1>5, <1>7, <1>11, <1>12, <1>13 DEF Written

LEMMA StoreTypedStep == TypeInv /\ [Next]_vars => StoreTyped'
<1> SUFFICES ASSUME TypeInv, [Next]_vars PROVE StoreTyped'
  OBVIOUS
<1>0. StoreTyped  BY DEF TypeInv
<1>1. CASE UNCHANGED <<process, store>>
  BY <1>0, <1>1 DEF StoreTyped, process, store
<1>2. CASE Boot
  BY <1>0, <1>2 DEF StoreTyped, Boot, store
<1>3. CASE Shutdown
  BY <1>0, <1>3 DEF StoreTyped, Shutdown, store
<1>4. ASSUME NEW t \in Threads, Create(t) PROVE StoreTyped'
  BY <1>0, <1>4 DEF StoreTyped, Create, process
<1>5. ASSUME NEW t \in Threads, Delete(t) PROVE StoreTyped'
  <2>1. /\ objects' = OfAny(Attachments \ {Att(t)}, objects)
        /\ UNCHANGED <<phase, schema, tenants>>
    BY <1>5 DEF Delete, process
  <2>2. objects' \in Seq(Object) /\ ToSet(objects') \subseteq ToSet(objects)
    BY <1>0, <2>1, OfAnyTyped, OfAnyGives DEF StoreTyped
  <2> QED  BY <1>0, <2>1, <2>2 DEF StoreTyped
<1>6. ASSUME NEW t \in Threads, Insert(t) PROVE StoreTyped'
  <2>1. UNCHANGED <<phase, schema, tenants>>  BY <1>6 DEF Insert, process
  <2>2. PICK new : Written(t, new) /\ objects' = objects \o new
    BY <1>6, InsertWrites
  <2>3. Tenant[Att(t)] \in tenants  BY <1>6, InsertWrites
  <2>4. objects' \in Seq(Object)  BY <1>0, <2>2 DEF Written, StoreTyped
  <2>5. ToSet(objects') = ToSet(objects) \cup ToSet(new)
    BY <1>0, <2>2, ConcatSet DEF Written, StoreTyped
  <2>6. \A o \in ToSet(new) : Tenant[o.att] \in tenants
    BY <2>2, <2>3 DEF Written
  <2> QED  BY <1>0, <2>1, <2>4, <2>5, <2>6 DEF StoreTyped
<1>7. ASSUME NEW t \in Threads,
             Start(t) \/ Check(t) \/ Connect(t) \/ Return(t) \/ Exists(t) \/ Fetch(t)
               \/ Search(t) \/ Ready(t) \/ Raise(t)
      PROVE  UNCHANGED <<process, store>>
  BY <1>7 DEF Start, Check, Connect, Return, Exists, Fetch, Search, Ready, Raise
<1> QED  BY <1>1, <1>2, <1>3, <1>4, <1>5, <1>6, <1>7 DEF Next, Step, vars

LEMMA ConnsTypedStep == TypeInv /\ [Next]_vars => ConnsTyped'
<1> SUFFICES ASSUME TypeInv, [Next]_vars PROVE ConnsTyped'
  OBVIOUS
<1>0. ConnsTyped  BY DEF TypeInv
<1>1. CASE UNCHANGED <<conns, handle>>
  BY <1>0, <1>1 DEF ConnsTyped, conns
<1>2. CASE Shutdown
  BY <1>0, <1>2 DEF ConnsTyped, Shutdown, local
<1>3. ASSUME client' = made + 1, made' = made + 1, open' = open \cup {made + 1},
             UNCHANGED handle
      PROVE  ConnsTyped'
  <2>1. made' \in Nat /\ 1..made \subseteq 1..made' /\ made + 1 \in 1..made'
    BY <1>0, <1>3 DEF ConnsTyped
  <2>2. open' \subseteq 1..made' /\ client' \in open'  BY <1>0, <1>3, <2>1 DEF ConnsTyped
  <2>3. handle' \in [Threads -> 1..made' \cup {None}]
    BY <1>0, <1>3, <2>1 DEF ConnsTyped
  <2> QED  BY <2>1, <2>2, <2>3 DEF ConnsTyped
<1>4. CASE Boot
  <2>1. \/ client' = made + 1 /\ made' = made + 1 /\ open' = open \cup {made + 1}
        \/ UNCHANGED <<client, open, made>>
    BY <1>4 DEF Boot
  <2>2. UNCHANGED <<connects, handle>>  BY <1>4 DEF Boot, local
  <2> QED  BY <1>1, <1>3, <2>1, <2>2 DEF conns
<1>5. ASSUME NEW t \in Threads, Connect(t) PROVE ConnsTyped'
  <2>1. \/ client' = made + 1 /\ made' = made + 1 /\ open' = open \cup {made + 1}
        \/ UNCHANGED conns
    BY <1>5 DEF Connect
  <2>2. UNCHANGED handle  BY <1>5 DEF Connect, local
  <2> QED  BY <1>1, <1>3, <2>1, <2>2
<1>6. ASSUME NEW t \in Threads, Return(t) PROVE ConnsTyped'
  BY <1>0, <1>6 DEF Return, ConnsTyped, conns
<1>7. ASSUME NEW t \in Threads,
             Start(t) \/ Check(t) \/ Exists(t) \/ Create(t) \/ Delete(t) \/ Insert(t)
               \/ Fetch(t) \/ Search(t) \/ Ready(t) \/ Raise(t)
      PROVE  UNCHANGED <<conns, handle>>
  BY <1>7 DEF Start, Check, Exists, Create, Delete, Insert, Fetch, Search, Ready, Raise, local
<1>8. CASE UNCHANGED vars  BY <1>1, <1>8 DEF vars, local
<1> QED  BY <1>2, <1>1, <1>4, <1>5, <1>6, <1>7, <1>8 DEF Next, Step

LEMMA TypeStep == TypeInv /\ [Next]_vars => TypeInv'
<1> SUFFICES ASSUME TypeInv, [Next]_vars PROVE TypeInv'
  OBVIOUS
<1>1. RaiseInv'  BY RaiseStep DEF TypeInv
<1>2. \A t \in Threads : Located(t)'
  <2>0. \A t \in Threads : Located(t)  BY DEF TypeInv
  <2>1. CASE UNCHANGED <<pc, stage, result, job>>
    BY <2>0, <2>1 DEF Located
  <2>2. CASE Boot \/ Shutdown \/ UNCHANGED vars
    BY <2>1, <2>2 DEF Boot, Shutdown, vars, local
  <2>3. ASSUME NEW t \in Threads, Start(t) PROVE \A u \in Threads : Located(u)'
    <3> DEFINE first == FirstStage[job[t].op]
    <3>1. job[t] \in Job  BY <2>3 DEF Start, TypeInv, RaiseInv
    <3>2. first # "none"  BY <3>1 DEF Job, Operations, FirstStage
    <3>3. /\ stage' = [stage EXCEPT ![t] = first]
          /\ pc' = [pc EXCEPT ![t] = "check"]
          /\ pc[t] = "idle" /\ UNCHANGED <<job, result>>
      BY <2>3 DEF Start, Goto
    <3> HIDE DEF first
    <3>4. pc \in [Threads -> Labels] /\ stage \in [Threads -> Stages]
      BY DEF TypeInv, RaiseInv
    <3> QED  BY <2>0, <3>1, <3>2, <3>3, <3>4 DEF Located
  <2> QED  BY <2>2, <2>3, LocatedStep DEF Next
<1>3. StoreTyped' /\ ConnsTyped'  BY StoreTypedStep, ConnsTypedStep
<1> QED  BY <1>1, <1>2, <1>3 DEF TypeInv

(* What is stored belongs to registered tenants; the parts of an operation  *)
(* and its outcome agree with where its thread is; a thread holds no        *)
(* connection that was never made.                                          *)
THEOREM TypeTheorem == Spec => []TypeOK
  BY TypeInit, TypeStep, TypeMeans, PTL DEF Spec

-----------------------------------------------------------------------------
(* Pages and their order.                                                   *)

LEMMA MinOfTwo ==
  ASSUME NEW a \in Int, NEW b \in Int
  PROVE  Min({a, b}) = IF a <= b THEN a ELSE b
BY DEF Min

(* A page continues what was read; a short one is the last.                 *)
LEMMA PageContinues ==
  ASSUME NEW s \in Seq(Object), NEW off \in Nat, off <= Len(s),
         NEW page, page = PageAt(s, off)
  PROVE  /\ Len(page) < PageSize => SubSeq(s, 1, off) \o page = s
         /\ ~(Len(page) < PageSize) =>
              /\ off + PageSize <= Len(s)
              /\ SubSeq(s, 1, off) \o page = SubSeq(s, 1, off + PageSize)
<1>1. PICK n \in Nat : n = Len(s)  OBVIOUS
<1>2. PICK size \in Nat : size = PageSize /\ size > 0  BY ChunkStoreAssumption
<1>3. PICK last \in Nat : last = IF n <= off + size THEN n ELSE off + size  OBVIOUS
<1>4. page = SubSeq(s, off + 1, last)  BY <1>1, <1>2, <1>3, MinOfTwo DEF PageAt
<1>5. off <= last /\ last <= n  BY <1>1, <1>2, <1>3
<1>6. Len(page) = last - off  BY <1>1, <1>4, <1>5
<1>7. SubSeq(s, 1, off) \o page = SubSeq(s, 1, last)
  BY <1>1, <1>4, <1>5
<1>8. SubSeq(s, 1, n) = s  BY <1>1
<1> QED
  <2>1. ASSUME Len(page) < PageSize PROVE last = n  BY <1>2, <1>3, <1>5, <1>6, <2>1
  <2>2. ASSUME ~(Len(page) < PageSize) PROVE last = off + PageSize /\ last <= n
    BY <1>2, <1>3, <1>5, <1>6, <2>2
  <2> QED  BY <1>1, <1>7, <1>8, <2>1, <2>2

(* What is sorted is a permutation of the list, ordered by index.           *)
LEMMA SortedIs ==
  ASSUME NEW s \in Seq(Object)
  PROVE  /\ Len(Sorted(s)) = Len(s)
         /\ DOMAIN Sorted(s) = 1..Len(s)
         /\ ToSet(Sorted(s)) = ToSet(s)
         /\ \A i, j \in DOMAIN Sorted(s) : i < j => Sorted(s)[i].index <= Sorted(s)[j].index
<1>1. PICK n \in Nat : n = Len(s)  OBVIOUS
<1>2. DOMAIN s = 1..n /\ \A i \in 1..n : s[i].index \in Nat
  <2>1. \A i \in 1..n : s[i] \in Object  BY <1>1
  <2> QED  BY <1>1, <2>1 DEF Object
<1> DEFINE B(i) == {j \in 1..n : Before(s, j, i)}
<1>3. \A i, j \in 1..n : i # j => (Before(s, i, j) <=> ~Before(s, j, i))
  BY <1>2 DEF Before
<1>4. \A i, j, k \in 1..n : Before(s, i, j) /\ Before(s, j, k) => Before(s, i, k)
  BY <1>2 DEF Before
<1>5. \A i \in 1..n : ~Before(s, i, i)  BY <1>2 DEF Before
<1>6. IsFiniteSet(1..n) /\ Cardinality(1..n) = n  BY FS_Interval
<1>7. ASSUME NEW i \in 1..n
      PROVE  IsFiniteSet(B(i)) /\ Cardinality(B(i)) \in Nat /\ Cardinality(B(i)) < n
  <2>1. B(i) \in SUBSET ((1..n) \ {i})  BY <1>5
  <2>2. IsFiniteSet((1..n) \ {i}) /\ Cardinality((1..n) \ {i}) = n - 1
    BY <1>6, FS_RemoveElement
  <2>3. IsFiniteSet(B(i)) /\ Cardinality(B(i)) <= n - 1  BY <2>1, <2>2, FS_Subset
  <2>4. Cardinality(B(i)) \in Nat  BY <2>3, FS_CardinalityType
  <2> QED  BY <2>3, <2>4
<1>8. ASSUME NEW i \in 1..n, NEW j \in 1..n, Before(s, i, j)
      PROVE  Cardinality(B(i)) < Cardinality(B(j))
  <2>1. i \notin B(i) /\ B(i) \cup {i} \in SUBSET B(j)  BY <1>4, <1>5, <1>8
  <2>2. Cardinality(B(i) \cup {i}) = Cardinality(B(i)) + 1  BY <1>7, <2>1, FS_AddElement
  <2>3. Cardinality(B(i) \cup {i}) <= Cardinality(B(j))  BY <1>7, <2>1, FS_Subset
  <2>4. Cardinality(B(i)) \in Nat /\ Cardinality(B(j)) \in Nat  BY <1>7
  <2> HIDE DEF B
  <2> QED  BY <2>2, <2>3, <2>4
<1> DEFINE count == [i \in 1..n |-> Cardinality(B(i))]
           rank == [i \in 1..n |-> count[i] + 1]
           At(k) == CHOOSE i \in 1..n : Cardinality(B(i)) = k - 1
           order == [k \in 1..n |-> At(k)]
<1>8a. /\ \A i \in 1..n : /\ count[i] = Cardinality(B(i))
                          /\ count[i] \in Nat /\ count[i] < n
       /\ \A i, j \in 1..n : Before(s, i, j) => count[i] < count[j]
  <2>1. \A i \in 1..n : Cardinality(B(i)) \in Nat /\ Cardinality(B(i)) < n  BY <1>7
  <2>2. \A i, j \in 1..n : Before(s, i, j) => Cardinality(B(i)) < Cardinality(B(j))  BY <1>8
  <2> HIDE DEF B
  <2>3. \A i \in 1..n : count[i] = Cardinality(B(i))  OBVIOUS
  <2> QED  BY <2>1, <2>2, <2>3
<1>9. /\ rank \in [1..n -> 1..n]
      /\ \A i \in 1..n : rank[i] = count[i] + 1
      /\ \A i, j \in 1..n : Before(s, i, j) => rank[i] < rank[j]
  <2> HIDE DEF count, B
  <2>1. \A i \in 1..n : count[i] + 1 \in 1..n  BY <1>8a
  <2>2. \A i \in 1..n : rank[i] = count[i] + 1  OBVIOUS
  <2>3. rank \in [1..n -> 1..n]  BY <2>1
  <2> HIDE DEF rank
  <2>4. ASSUME NEW i \in 1..n, NEW j \in 1..n, Before(s, i, j) PROVE rank[i] < rank[j]
    <3>1. count[i] < count[j] /\ count[i] \in Nat /\ count[j] \in Nat  BY <1>8a, <2>4
    <3>2. rank[i] = count[i] + 1 /\ rank[j] = count[j] + 1  BY <2>2
    <3> QED  BY <3>1, <3>2
  <2> QED  BY <2>2, <2>3, <2>4, Zenon
<1>9a. \A i, j \in 1..n : rank[i] = rank[j] => i = j
  <2> HIDE DEF rank
  <2>1. \A i \in 1..n : rank[i] \in 1..n  BY <1>9
  <2> QED  BY <1>3, <1>9, <2>1
<1>10. \A k \in 1..n : \E i \in 1..n : rank[i] = k
  <2> HIDE DEF rank
  <2>2. rank \in Injection(1..n, 1..n)  BY <1>9, <1>9a DEF Injection, IsInjective
  <2>3. rank \in Surjection(1..n, 1..n)  BY <1>6, <2>2, FS_Injection
  <2> QED  BY <2>3 DEF Surjection
<1>11. /\ order \in [1..n -> 1..n]
       /\ \A k \in 1..n : rank[order[k]] = k
  <2> HIDE DEF B, rank, count
  <2>1. \A k \in 1..n : \E i \in 1..n : Cardinality(B(i)) = k - 1
    <3> TAKE k \in 1..n
    <3>1. PICK i \in 1..n : rank[i] = k  BY <1>10
    <3>2. count[i] = Cardinality(B(i)) /\ count[i] \in Nat /\ k = count[i] + 1
      BY <1>8a, <1>9, <3>1
    <3>3. Cardinality(B(i)) = k - 1  BY <3>2
    <3> QED  BY <3>3
  <2>2. \A k \in 1..n : At(k) \in 1..n /\ Cardinality(B(At(k))) = k - 1  BY <2>1
  <2>3. \A k \in 1..n : order[k] = At(k)  OBVIOUS
  <2> HIDE DEF At
  <2>4. order \in [1..n -> 1..n]  BY <2>2
  <2> HIDE DEF order
  <2>5. ASSUME NEW k \in 1..n PROVE rank[order[k]] = k
    <3>1. order[k] \in 1..n /\ Cardinality(B(order[k])) = k - 1  BY <2>2, <2>3
    <3>2. count[order[k]] = k - 1  BY <1>8a, <3>1
    <3> QED  BY <1>9, <3>1, <3>2
  <2> QED  BY <2>4, <2>5
<1>12. PICK r : r = Sorted(s)  OBVIOUS
<1>13. r = [k \in 1..n |-> s[order[k]]]
  <2>1. \A k \in 1..n : order[k] = At(k)  OBVIOUS
  <2>2. r = [k \in 1..n |-> s[At(k)]]  BY <1>2, <1>12 DEF Sorted
  <2> HIDE DEF At, order, B
  <2> QED  BY <2>1, <2>2
<1> HIDE DEF rank, order, count, B
<1>14. DOMAIN r = 1..n /\ \A k \in 1..n : r[k] = s[order[k]]  BY <1>13
<1>15. Len(r) = n  BY <1>14
<1>16. ToSet(r) = ToSet(s)
  <2>1. ASSUME NEW i \in 1..n PROVE \E k \in 1..n : r[k] = s[i]
    <3>1. rank[i] \in 1..n /\ rank[order[rank[i]]] = rank[i] /\ order[rank[i]] \in 1..n
      BY <1>9, <1>11
    <3>2. order[rank[i]] = i  BY <1>9a, <3>1
    <3> QED  BY <1>14, <3>1, <3>2
  <2>2. \A k \in 1..n : order[k] \in 1..n  BY <1>11
  <2>3. {r[k] : k \in 1..n} = {s[i] : i \in 1..n}
    <3>1. \A x \in {s[i] : i \in 1..n} : x \in {r[k] : k \in 1..n}
      <4> TAKE x \in {s[i] : i \in 1..n}
      <4>1. PICK i \in 1..n : x = s[i]  OBVIOUS
      <4>2. PICK k \in 1..n : r[k] = s[i]  BY <2>1
      <4> QED  BY <4>1, <4>2
    <3>2. \A x \in {r[k] : k \in 1..n} : x \in {s[i] : i \in 1..n}
      BY <1>14, <2>2
    <3> QED  BY <3>1, <3>2
  <2> QED  BY <1>2, <1>14, <2>3 DEF ToSet
<1>17. ASSUME NEW k \in 1..n, NEW l \in 1..n, k < l PROVE r[k].index <= r[l].index
  <2>1. order[k] \in 1..n /\ order[l] \in 1..n /\ rank[order[k]] = k /\ rank[order[l]] = l
    BY <1>11
  <2>2. ~Before(s, order[l], order[k]) /\ order[l] # order[k]
    <3>1. Before(s, order[l], order[k]) => l < k  BY <1>9, <2>1
    <3> QED  BY <1>17, <2>1, <3>1
  <2>3. Before(s, order[k], order[l])  BY <1>3, <2>1, <2>2
  <2> QED  BY <1>2, <1>14, <2>1, <2>3 DEF Before
<1> QED  BY <1>1, <1>12, <1>14, <1>15, <1>16, <1>17

LEMMA NoTwinsConcat ==
  ASSUME NEW V, NEW s \in Seq(V), NoTwins(s)
  PROVE  \A u \in Seq(V) : NoTwins(u) /\ ToSet(s) \cap ToSet(u) = {} => NoTwins(s \o u)
<1> TAKE u \in Seq(V)
<1> SUFFICES ASSUME NoTwins(u), ToSet(s) \cap ToSet(u) = {} PROVE NoTwins(s \o u)
  OBVIOUS
<1>1. PICK c : c = s \o u  OBVIOUS
<1>2. PICK n \in Nat : n = Len(s)  OBVIOUS
<1>3. PICK m \in Nat : m = Len(u)  OBVIOUS
<1>4. /\ DOMAIN s = 1..n /\ DOMAIN u = 1..m /\ Len(c) = n + m
      /\ \A i \in 1..(n + m) : c[i] = IF i <= n THEN s[i] ELSE u[i - n]
  BY <1>1, <1>2, <1>3
<1>5. \A i \in 1..n : \A j \in 1..m : s[i] # u[j]  BY <1>4 DEF ToSet
<1>6. /\ \A i, j \in 1..n : s[i] = s[j] => i = j
      /\ \A i, j \in 1..m : u[i] = u[j] => i = j
  BY <1>2, <1>3 DEF NoTwins
<1>7. ASSUME NEW i \in 1..(n + m), NEW j \in 1..(n + m), c[i] = c[j] PROVE i = j
  <2>1. CASE i <= n /\ j <= n  BY <1>4, <1>6, <1>7, <2>1
  <2>2. CASE ~(i <= n) /\ ~(j <= n)
    <3>1. i - n \in 1..m /\ j - n \in 1..m  BY <2>2
    <3>2. u[i - n] = u[j - n]  BY <1>4, <1>7, <2>2
    <3>3. i - n = j - n  BY <1>6, <3>1, <3>2
    <3> QED  BY <3>3
  <2>3. CASE i <= n /\ ~(j <= n)
    <3>1. i \in 1..n /\ j - n \in 1..m  BY <2>3
    <3> QED  BY <1>4, <1>5, <1>7, <2>3, <3>1
  <2>4. CASE ~(i <= n) /\ j <= n
    <3>1. j \in 1..n /\ i - n \in 1..m  BY <2>4
    <3> QED  BY <1>4, <1>5, <1>7, <2>4, <3>1
  <2> QED  BY <2>1, <2>2, <2>3, <2>4
<1> QED  BY <1>1, <1>4, <1>7 DEF NoTwins

-----------------------------------------------------------------------------
(* What a read and a search find.                                           *)

(* An object is stored once; it is of a thread that has finished or of an   *)
(* earlier process, and its place in its attachment is known.               *)
ObjectsInv ==
    /\ NoTwins(objects)
    /\ \A o \in ToSet(objects) : /\ o.by \in Threads => pc[o.by] = "done"
                                 /\ o.index < Len(Distance[o.att])

Staged(t) ==
    /\ pc[t] # "idle" => /\ stage[t] = "page" <=> job[t].op = "read"
                         /\ stage[t] = "search" <=> job[t].op = "siblings"
    /\ pc[t] = "exists" => stage[t] \in {"register", "purge", "page", "search"}
    /\ pc[t] = "fetch" => stage[t] = "page"
    /\ pc[t] = "search" => stage[t] = "search"

Empty(t) ==
    pc[t] \notin {"fetch", "done"} => found[t] = <<>> /\ expected[t] = {} /\ offset[t] = 0

(* A read that nobody disturbed has what is before its offset.              *)
Reading(t) ==
    pc[t] = "fetch" /\ t \notin disturbed =>
        /\ offset[t] \in Nat /\ offset[t] <= Len(Of(Att(t), objects))
        /\ found[t] = SubSeq(Of(Att(t), objects), 1, offset[t])
        /\ expected[t] = ToSet(Of(Att(t), objects))

Complete(t) ==
    result[t] = "ok" /\ job[t].op = "read" /\ t \notin disturbed
        => /\ ToSet(found[t]) = expected[t]
           /\ Len(found[t]) = Cardinality(expected[t])
           /\ \A i, j \in DOMAIN found[t] : i < j => found[t][i].index <= found[t][j].index

Nearer(t) ==
    result[t] = "ok" /\ job[t].op = "siblings"
        => /\ found[t] = <<>> <=> expected[t] = {}
           /\ \A o \in expected[t] : Far(found[t][1]) <= Far(o)
           /\ \A i, j \in DOMAIN found[t] : i # j => found[t][i].att # found[t][j].att

Fine(t) == Empty(t) /\ Reading(t) /\ Complete(t) /\ Nearer(t)

ReadInv ==
    /\ DOMAIN found = Threads /\ DOMAIN expected = Threads /\ DOMAIN offset = Threads
    /\ ObjectsInv
    /\ \A t \in Threads : Staged(t) /\ Fine(t)

LEMMA ReadMeans == ReadInv => ReadIsComplete /\ NearestSiblingFirst
<1> SUFFICES ASSUME ReadInv PROVE ReadIsComplete /\ NearestSiblingFirst
  OBVIOUS
<1>1. \A t \in Threads : Complete(t) /\ Nearer(t)  BY DEF ReadInv, Fine
<1>2. ReadIsComplete  BY <1>1 DEF ReadIsComplete, Complete
<1>3. NearestSiblingFirst  BY <1>1 DEF NearestSiblingFirst, Nearer
<1> QED  BY <1>2, <1>3

LEMMA ReadInit == Init => ReadInv
<1> SUFFICES ASSUME Init PROVE ReadInv
  OBVIOUS
<1>1. DOMAIN found = Threads /\ DOMAIN expected = Threads /\ DOMAIN offset = Threads
  BY DEF Init
<1>2. \A t \in Threads : Staged(t) /\ Fine(t)
  <2>1. \A t \in Threads : /\ pc[t] = "idle" /\ stage[t] = "none" /\ result[t] = "none"
                           /\ found[t] = <<>> /\ expected[t] = {} /\ offset[t] = 0
    BY DEF Init
  <2> QED  BY <2>1 DEF Staged, Fine, Empty, Reading, Complete, Nearer
<1>3. ObjectsInv
  <2>1. CASE objects = <<>>
    <3>1. Len(objects) = 0 /\ ToSet(objects) = {}  BY <2>1 DEF ToSet
    <3> QED  BY <3>1 DEF ObjectsInv, NoTwins
  <2>2. CASE objects \in Stored
    <3>1. /\ objects \in Seq([att : Attachments, index : Nat, by : Earlier])
          /\ IsInjective(objects)
          /\ \A o \in ToSet(objects) : o.index < Len(Distance[o.att])
      BY <2>2, ChunkStoreAssumption
    <3>2. \A o \in ToSet(objects) : o.by \in Earlier
      <4> DEFINE V == [att : Attachments, index : Nat, by : Earlier]
      <4>1. \A v \in V : v.by \in Earlier  OBVIOUS
      <4>2. objects \in Seq(V)  BY <3>1
      <4> HIDE DEF V
      <4>3. \A o \in ToSet(objects) : o \in V  BY <4>2 DEF ToSet
      <4> QED  BY <4>1, <4>3
    <3>3. DOMAIN objects = 1..Len(objects)  BY <3>1
    <3>4. NoTwins(objects)  BY <3>1, <3>3 DEF NoTwins, IsInjective
    <3> QED  BY <3>1, <3>2, <3>4, ChunkStoreAssumption DEF ObjectsInv
  <2> QED  BY <2>1, <2>2 DEF Init
<1> QED  BY <1>1, <1>2, <1>3 DEF ReadInv

-----------------------------------------------------------------------------
(* The steps that leave a thread's finds as they are.                       *)

LEMMA FineFrame ==
  ASSUME NEW u, Fine(u), UNCHANGED job,
         pc'[u] = pc[u], result'[u] = result[u],
         found'[u] = found[u], expected'[u] = expected[u], offset'[u] = offset[u],
         disturbed \subseteq disturbed',
         pc[u] = "fetch" /\ u \notin disturbed' => Of(Att(u), objects)' = Of(Att(u), objects)
  PROVE  Fine(u)'
<1>1. Empty(u)'  BY DEF Fine, Empty
<1>2. Att(u)' = Att(u)  BY DEF Att
<1>3. Reading(u)'
  <2> SUFFICES ASSUME pc[u] = "fetch", u \notin disturbed'
               PROVE  /\ offset'[u] \in Nat /\ offset'[u] <= Len(Of(Att(u), objects)')
                      /\ found'[u] = SubSeq(Of(Att(u), objects)', 1, offset'[u])
                      /\ expected'[u] = ToSet(Of(Att(u), objects)')
    BY Zenon DEF Reading
  <2>1. Of(Att(u), objects)' = Of(Att(u), objects) /\ u \notin disturbed  OBVIOUS
  <2>2. /\ offset[u] \in Nat /\ offset[u] <= Len(Of(Att(u), objects))
        /\ found[u] = SubSeq(Of(Att(u), objects), 1, offset[u])
        /\ expected[u] = ToSet(Of(Att(u), objects))
    BY <2>1 DEF Fine, Reading
  <2> QED  BY <2>1, <2>2, Zenon
<1>4. Complete(u)'  BY DEF Fine, Complete
<1>5. Nearer(u)'  BY DEF Fine, Nearer, Far
<1> QED  BY <1>1, <1>3, <1>4, <1>5 DEF Fine

LEMMA FineEmpty ==
  ASSUME NEW u, found'[u] = <<>>, expected'[u] = {}, offset'[u] = 0, pc'[u] # "fetch"
  PROVE  Fine(u)'
<1>1. Empty(u)' /\ Reading(u)'  BY DEF Empty, Reading
<1>2. ToSet(found'[u]) = {} /\ Len(found'[u]) = 0 /\ DOMAIN found'[u] = {}
  BY DEF ToSet
<1>3. Cardinality(expected'[u]) = 0  BY FS_EmptySet
<1>4. Complete(u)'  BY <1>2, <1>3 DEF Complete
<1>5. Nearer(u)'  BY <1>2 DEF Nearer
<1> QED  BY <1>1, <1>4, <1>5 DEF Fine

LEMMA FineRaised ==
  ASSUME NEW u, result'[u] = "raised", pc'[u] = "done"
  PROVE  Fine(u)'
BY DEF Fine, Empty, Reading, Complete, Nearer

LEMMA DoneStays ==
  ASSUME TypeInv, [Next]_vars, NEW u \in Threads, pc[u] = "done"
  PROVE  pc'[u] = "done"
<1>1. CASE Boot \/ Shutdown \/ UNCHANGED vars
  BY <1>1 DEF Boot, Shutdown, vars
<1>2. ASSUME NEW t \in Threads, Start(t) PROVE pc'[u] = "done"
  <2>1. pc[t] = "idle" /\ pc' = [pc EXCEPT ![t] = "check"]  BY <1>2 DEF Start, Goto
  <2> QED  BY <2>1 DEF TypeInv, RaiseInv
<1>3. ASSUME NEW t \in Threads, Step(t) PROVE pc'[u] = "done"
  <2>1. Acts(t)  BY <1>3, StepActs
  <2>2. t # u  BY <2>1 DEF Acts
  <2> QED  BY <2>1, <2>2, ActsMeans DEF TypeInv
<1> QED  BY <1>1, <1>2, <1>3 DEF Next

(* The threads that did not take the step, if it wrote nothing.             *)
LEMMA OthersFine ==
  ASSUME TypeInv, ReadInv, NEW t \in Threads, Acts(t), UNCHANGED <<objects, disturbed>>,
         NEW u \in Threads \ {t},
         found'[u] = found[u], expected'[u] = expected[u], offset'[u] = offset[u]
  PROVE  Fine(u)'
<1>1. pc'[u] = pc[u] /\ result'[u] = result[u]  BY ActsMeans DEF TypeInv
<1>2. UNCHANGED job /\ Fine(u)  BY DEF Acts, ReadInv
<1>3. Of(Att(u), objects)' = Of(Att(u), objects)  BY <1>2 DEF Of, OfAny, Att
<1> QED  BY <1>1, <1>2, <1>3, FineFrame

(* A thread that found nothing before and does not begin to read.           *)
LEMMA QuietFine ==
  ASSUME TypeInv, ReadInv, NEW t \in Threads, Acts(t),
         found'[t] = found[t], expected'[t] = expected[t], offset'[t] = offset[t],
         pc[t] # "fetch", pc'[t] # "fetch"
  PROVE  Fine(t)'
<1>1. pc[t] \notin {"fetch", "done"} /\ Empty(t)  BY DEF Acts, ReadInv, Fine
<1>2. found'[t] = <<>> /\ expected'[t] = {} /\ offset'[t] = 0  BY <1>1 DEF Empty
<1> QED  BY <1>2, FineEmpty

-----------------------------------------------------------------------------
(* Where a step leads.                                                      *)

LEMMA GotoIs ==
  ASSUME TypeInv, NEW t \in Threads, NEW label, Goto(t, label)
  PROVE  pc'[t] = label
BY DEF Goto, TypeInv, RaiseInv

LEMMA AdvanceIs ==
  ASSUME TypeInv, NEW t \in Threads, Advance(t)
  PROVE  pc'[t] \in {"check", "done"}
BY GotoIs DEF Advance, End

LEMMA StagedStep ==
  ASSUME TypeInv, NEW t \in Threads, Step(t), \A u \in Threads : Staged(u)
  PROVE  \A u \in Threads : Staged(u)'
<1>1. Acts(t) /\ RaiseInv  BY StepActs DEF TypeInv
<1>2. UNCHANGED job /\ pc[t] \notin {"idle", "done"}  BY <1>1 DEF Acts
<1>3. ASSUME NEW u \in Threads \ {t} PROVE Staged(u)'
  <2>1. pc'[u] = pc[u] /\ stage'[u] = stage[u]  BY <1>1, ActsMeans
  <2>2. Staged(u)  OBVIOUS
  <2> QED  BY <1>2, <2>1, <2>2 DEF Staged
<1>4. Staged(t) /\ Located(t)  BY DEF TypeInv
<1>5. \/ stage'[t] = stage[t]
      \/ job[t].op = "upsert" /\ stage'[t] \in {"purge", "insert"} /\ pc'[t] = "check"
  <2>1. CASE Moves(t)  BY <2>1 DEF Moves
  <2>2. CASE Ends(t)  BY <2>2 DEF Ends
  <2>3. CASE Advance(t)
    <3>1. CASE NextStage(t) = "none"  BY <2>3, <3>1 DEF Advance
    <3>2. CASE NextStage(t) # "none"
      <4>1. stage' = [stage EXCEPT ![t] = NextStage(t)] /\ Goto(t, "check")
        BY <2>3, <3>2 DEF Advance
      <4>2. job[t].op = "upsert" /\ NextStage(t) \in {"purge", "insert"}
        BY <3>2 DEF NextStage
      <4> QED  BY <1>1, <4>1, <4>2, GotoIs DEF RaiseInv
    <3> QED  BY <3>1, <3>2
  <2>4. CASE UNCHANGED <<pc, stage, result>>  BY <2>4
  <2> QED  BY <1>1, <2>1, <2>2, <2>3, <2>4 DEF Acts
<1>6. ASSUME job[t].op = "upsert", stage'[t] \in {"purge", "insert"}, pc'[t] = "check"
      PROVE  Staged(t)'
  BY <1>2, <1>6 DEF Staged
<1>7. ASSUME stage'[t] = stage[t] PROVE Staged(t)'
  <2>1. /\ stage'[t] = "page" <=> job'[t].op = "read"
        /\ stage'[t] = "search" <=> job'[t].op = "siblings"
    BY <1>2, <1>4, <1>7 DEF Staged
  <2>2. \/ pc'[t] \notin {"exists", "fetch", "search"}
        \/ pc'[t] = "exists" /\ stage[t] \in {"register", "purge", "page", "search"}
        \/ pc'[t] = "fetch" /\ stage[t] = "page"
        \/ pc'[t] = "search" /\ stage[t] = "search"
    <3>1. CASE Check(t) \/ Connect(t) \/ Create(t) \/ Delete(t) \/ Insert(t)
                 \/ Search(t) \/ Ready(t) \/ Raise(t)
      <4>1. \/ Goto(t, "return") \/ Goto(t, "connect") \/ Advance(t) \/ Goto(t, "done")
        BY <3>1 DEF Check, Connect, Create, Delete, Insert, Search, Ready, Raise, End
      <4>2. pc'[t] \in {"return", "connect", "check", "done"}
        BY <4>1, GotoIs, AdvanceIs
      <4> QED  BY <4>2
    <3>2. CASE Return(t)
      <4>1. stage[t] \in Stages /\ stage[t] # "none"
        BY <1>1, <1>2, <1>4 DEF RaiseInv, Located
      <4>2. \/ Goto(t, "insert") \/ Goto(t, "ready")
            \/ Goto(t, "exists") /\ stage[t] \notin {"insert", "probe"}
        BY <3>2 DEF Return
      <4>3. \/ pc'[t] \in {"insert", "ready"}
            \/ pc'[t] = "exists" /\ stage[t] \notin {"insert", "probe"}
        BY <4>2, GotoIs
      <4> QED  BY <4>1, <4>3 DEF Stages
    <3>3. CASE Exists(t)
      <4>1. stage[t] \in {"register", "purge", "page", "search"}
        BY <1>4, <3>3 DEF Exists, Staged
      <4>2. \/ Advance(t) \/ Goto(t, "delete") \/ Goto(t, "create")
            \/ Goto(t, "fetch") /\ stage[t] = "page"
            \/ Goto(t, "search") /\ stage[t] \notin {"register", "purge", "page"}
        <5>1. CASE Tenant[Att(t)] \in tenants  BY <3>3, <5>1 DEF Exists
        <5>2. CASE Tenant[Att(t)] \notin tenants  BY <3>3, <5>2 DEF Exists
        <5> QED  BY <5>1, <5>2
      <4>3. \/ pc'[t] \in {"check", "done", "delete", "create"}
            \/ pc'[t] = "fetch" /\ stage[t] = "page"
            \/ pc'[t] = "search" /\ stage[t] \notin {"register", "purge", "page"}
        BY <4>2, GotoIs, AdvanceIs
      <4> QED  BY <4>1, <4>3
    <3>4. CASE Fetch(t)
      <4>1. stage[t] = "page" /\ pc[t] = "fetch"  BY <1>4, <3>4 DEF Fetch, Staged
      <4>2. Goto(t, "done") \/ UNCHANGED pc  BY <3>4 DEF Fetch, End
      <4>3. pc'[t] = "done" \/ pc'[t] = "fetch"  BY <4>1, <4>2, GotoIs
      <4> QED  BY <4>1, <4>3
    <3> QED  BY <3>1, <3>2, <3>3, <3>4 DEF Step
  <2> QED  BY <1>7, <2>1, <2>2 DEF Staged
<1> QED  BY <1>3, <1>5, <1>6, <1>7

-----------------------------------------------------------------------------
(* The writes.                                                              *)

(* A read under way is of another attachment than the one written, unless   *)
(* it is disturbed.                                                         *)
LEMMA ReadsElsewhere ==
  ASSUME TypeInv, ReadInv, NEW t \in Threads, Disturb(Att(t)),
         NEW u \in Threads, pc[u] = "fetch", u \notin disturbed'
  PROVE  Att(u) \in Attachments \ {Att(t)}
<1>1. job[u].op = "read"  BY DEF ReadInv, Staged
<1>2. job[u] \in Job  BY DEF TypeInv, Located
<1>3. Att(u) \in Attachments  BY <1>2 DEF Att, Job
<1>4. u \in {x \in Threads : pc[x] = "fetch" /\ job[x].op = "read" /\ Att(x) = Att(t)}
        => u \in disturbed'
  BY DEF Disturb
<1> QED  BY <1>1, <1>3, <1>4

LEMMA DeleteElsewhere ==
  ASSUME TypeInv, ReadInv, NEW t \in Threads, Delete(t),
         NEW u \in Threads, pc[u] = "fetch", u \notin disturbed'
  PROVE  Of(Att(u), objects)' = Of(Att(u), objects)
<1>1. Att(u) \in Attachments \ {Att(t)}  BY ReadsElsewhere DEF Delete
<1>2. objects \in Seq(Object)  BY DEF TypeInv, StoreTyped
<1>3. objects' = OfAny(Attachments \ {Att(t)}, objects)  BY DEF Delete
<1>4. PICK a : a = Att(u)  OBVIOUS
<1>5. Of(a, OfAny(Attachments \ {Att(t)}, objects)) = Of(a, objects)
  BY <1>1, <1>2, <1>4, OfOther
<1>6. Att(u)' = a  BY <1>4 DEF Att, Delete
<1>7. Of(Att(u), objects)' = Of(a, objects')  BY <1>6, Zenon DEF Of, OfAny
<1> QED  BY <1>3, <1>4, <1>5, <1>7, Zenon

LEMMA InsertElsewhere ==
  ASSUME TypeInv, ReadInv, NEW t \in Threads, Insert(t),
         NEW u \in Threads, pc[u] = "fetch", u \notin disturbed'
  PROVE  Of(Att(u), objects)' = Of(Att(u), objects)
<1>1. Att(u) \in Attachments \ {Att(t)}  BY ReadsElsewhere DEF Insert
<1>2. objects \in Seq(Object)  BY DEF TypeInv, StoreTyped
<1>3. PICK new : Written(t, new) /\ objects' = objects \o new  BY InsertWrites
<1>4. PICK a : a = Att(u)  OBVIOUS
<1>5. new \in Seq(Object) /\ \A o \in ToSet(new) : o.att # a
  BY <1>1, <1>3, <1>4 DEF Written
<1>6. Of(a, objects \o new) = Of(a, objects)  BY <1>2, <1>5, OfConcat
<1>7. Att(u)' = a  BY <1>4 DEF Att, Insert
<1>8. Of(Att(u), objects)' = Of(a, objects')  BY <1>7, Zenon DEF Of, OfAny
<1> QED  BY <1>3, <1>4, <1>6, <1>8, Zenon

LEMMA ObjectsStep ==
  ASSUME TypeInv, ReadInv, [Next]_vars
  PROVE  ObjectsInv'
<1>1. ASSUME NEW o \in ToSet(objects), o.by \in Threads PROVE pc'[o.by] = "done"
  <2>1. pc[o.by] = "done"  BY <1>1 DEF ReadInv, ObjectsInv
  <2> QED  BY <1>1, <2>1, DoneStays
<1>2. /\ NoTwins(objects)
      /\ \A o \in ToSet(objects) : o.index < Len(Distance[o.att])
  BY DEF ReadInv, ObjectsInv
<1>3. objects \in Seq(Object)  BY DEF TypeInv, StoreTyped
<1>4. CASE UNCHANGED objects
  <2>1. NoTwins(objects)' /\ ToSet(objects)' = ToSet(objects)
    BY <1>2, <1>4 DEF NoTwins, ToSet
  <2> QED  BY <1>1, <1>2, <2>1 DEF ObjectsInv
<1>5. ASSUME NEW t \in Threads, Delete(t) PROVE ObjectsInv'
  <2>1. PICK m : m = OfAny(Attachments \ {Att(t)}, objects)  OBVIOUS
  <2>2. NoTwins(m) /\ ToSet(m) \subseteq ToSet(objects)
    BY <1>2, <1>3, <2>1, OfAnyGives
  <2>3. objects' = m  BY <1>5, <2>1 DEF Delete
  <2>4. NoTwins(objects') /\ ToSet(objects') \subseteq ToSet(objects)  BY <2>2, <2>3
  <2>5. \A o \in ToSet(objects') : /\ o.by \in Threads => pc'[o.by] = "done"
                                   /\ o.index < Len(Distance[o.att])
    BY <1>1, <1>2, <2>4
  <2> QED  BY <2>4, <2>5, Zenon DEF ObjectsInv
<1>6. ASSUME NEW t \in Threads, Insert(t) PROVE ObjectsInv'
  <2>1. PICK new : Written(t, new) /\ objects' = objects \o new  BY <1>6, InsertWrites
  <2>2. /\ new \in Seq(Object) /\ NoTwins(new)
        /\ \A o \in ToSet(new) : o.att = Att(t) /\ o.by = t /\ o.index < Size[t]
    BY <2>1 DEF Written
  <2>3. pc[t] = "insert" /\ stage[t] = "insert" /\ job[t] \in Job
    BY <1>6 DEF Insert, TypeInv, RaiseInv, Placed, Located
  <2>4. ToSet(objects) \cap ToSet(new) = {}
    <3>1. ASSUME NEW o \in ToSet(objects), o \in ToSet(new) PROVE FALSE
      <4>1. o.by = t /\ pc[o.by] = "done"  BY <2>2, <3>1 DEF ReadInv, ObjectsInv
      <4> QED  BY <2>3, <4>1
    <3> QED  BY <3>1
  <2>5. NoTwins(objects')
    BY <1>2, <1>3, <2>1, <2>2, <2>4, NoTwinsConcat
  <2>6. ToSet(objects') = ToSet(objects) \cup ToSet(new)
    BY <1>3, <2>1, <2>2, ConcatSet
  <2>7. pc'[t] = "done"
    <3>1. NextStage(t) = "none"  BY <2>3 DEF NextStage
    <3>2. Advance(t)
      BY <1>6, InsertWrites DEF Insert
    <3> QED  BY <3>1, <3>2, GotoIs DEF Advance, End
  <2>8. ASSUME NEW o \in ToSet(new) PROVE o.index < Len(Distance[o.att])
    <3>1. Att(t) \in Attachments  BY <2>3 DEF Att, Job
    <3>2. Size[t] <= Len(Distance[Att(t)]) /\ Size[t] \in Nat /\ Len(Distance[Att(t)]) \in Nat
      BY <3>1, ChunkStoreAssumption
    <3>3. o.att = Att(t) /\ o.index < Size[t]  BY <2>2
    <3>4. o.index \in Nat
      <4>1. o \in Object
        <5> HIDE DEF Object
        <5> QED  BY <2>2 DEF ToSet
      <4> QED  BY <4>1 DEF Object
    <3> QED  BY <3>2, <3>3, <3>4
  <2>9. \A o \in ToSet(objects') : /\ o.by \in Threads => pc'[o.by] = "done"
                                   /\ o.index < Len(Distance[o.att])
    BY <1>1, <1>2, <2>2, <2>6, <2>7, <2>8
  <2> QED  BY <2>5, <2>9, Zenon DEF ObjectsInv
<1>7. ASSUME NEW t \in Threads,
             Start(t) \/ Check(t) \/ Connect(t) \/ Return(t) \/ Exists(t) \/ Create(t)
               \/ Fetch(t) \/ Search(t) \/ Ready(t) \/ Raise(t)
      PROVE  UNCHANGED objects
  BY <1>7 DEF Start, Check, Connect, Return, Exists, Create, Fetch, Search, Ready, Raise, store
<1>8. CASE Boot \/ Shutdown \/ UNCHANGED vars
  BY <1>4, <1>8 DEF Boot, Shutdown, vars, store
<1> QED  BY <1>4, <1>5, <1>6, <1>7, <1>8 DEF Next, Step

(* A write is not a read: the writer itself has found nothing.              *)
LEMMA WriteFine ==
  ASSUME TypeInv, ReadInv, NEW t \in Threads, Delete(t) \/ Insert(t)
  PROVE  \A u \in Threads : Fine(u)'
<1>1. Acts(t) /\ pc[t] \in {"delete", "insert"}
  <2>1. Step(t)  BY DEF Step
  <2> QED  BY <2>1, StepActs DEF Delete, Insert
<1>2. UNCHANGED <<job, offset, found, expected>> /\ disturbed \subseteq disturbed'
  BY DEF Delete, Insert, Disturb
<1>3. pc'[t] # "fetch"
  <2>1. Advance(t) \/ Goto(t, "done")
    BY InsertWrites DEF Delete, Insert, End
  <2> QED  BY <2>1, GotoIs, AdvanceIs
<1>4. Fine(t)'  BY <1>1, <1>2, <1>3, QuietFine
<1>5. ASSUME NEW u \in Threads \ {t} PROVE Fine(u)'
  <2>1. pc'[u] = pc[u] /\ result'[u] = result[u]  BY <1>1, ActsMeans DEF TypeInv
  <2>2. Fine(u)  BY DEF ReadInv
  <2>3. pc[u] = "fetch" /\ u \notin disturbed' => Of(Att(u), objects)' = Of(Att(u), objects)
    BY DeleteElsewhere, InsertElsewhere
  <2> QED  BY <1>2, <2>1, <2>2, <2>3, FineFrame
<1> QED  BY <1>4, <1>5

-----------------------------------------------------------------------------
(* Reading.                                                                 *)

LEMMA ExistsFine ==
  ASSUME TypeInv, ReadInv, NEW t \in Threads, Exists(t)
  PROVE  \A u \in Threads : Fine(u)'
<1>1. Acts(t) /\ pc[t] = "exists"
  <2>1. Step(t)  BY DEF Step
  <2> QED  BY <2>1, StepActs DEF Exists
<1>2. UNCHANGED <<job, objects, offset, found, disturbed>>
  BY DEF Exists, store
<1>3. /\ DOMAIN expected = Threads
      /\ found[t] = <<>> /\ expected[t] = {} /\ offset[t] = 0
  BY <1>1 DEF ReadInv, Fine, Empty
<1>4. CASE stage[t] = "page" /\ Tenant[Att(t)] \in tenants
  <2>1. /\ Goto(t, "fetch") /\ UNCHANGED result
        /\ expected' = [expected EXCEPT ![t] = ToSet(Of(Att(t), objects))]
    BY <1>4 DEF Exists
  <2>2. pc'[t] = "fetch" /\ result'[t] = "none"
    BY <1>1, <2>1, GotoIs DEF TypeInv, Located
  <2>3. PICK of : of = Of(Att(t), objects)  OBVIOUS
  <2>4. of \in Seq(Object)
    BY <2>3, OfAnyTyped DEF Of, TypeInv, StoreTyped
  <2>5. SubSeq(of, 1, 0) = <<>> /\ 0 <= Len(of)  BY <2>4
  <2>6. Of(Att(t), objects)' = of  BY <1>2, <2>3, Zenon DEF Of, OfAny, Att
  <2>7. expected'[t] = ToSet(of)  BY <1>3, <2>1, <2>3
  <2>8. Reading(t)'
    <3>1. /\ offset'[t] \in Nat /\ offset'[t] <= Len(of)
          /\ found'[t] = SubSeq(of, 1, offset'[t])
      BY <1>2, <1>3, <2>5
    <3> QED  BY <2>6, <2>7, <3>1, Zenon DEF Reading
  <2>9. Fine(t)'  BY <2>2, <2>8 DEF Fine, Empty, Complete, Nearer
  <2>10. \A u \in Threads \ {t} : expected'[u] = expected[u]  BY <1>3, <2>1
  <2> QED  BY <1>1, <1>2, <2>9, <2>10, OthersFine
<1>5. CASE ~(stage[t] = "page" /\ Tenant[Att(t)] \in tenants)
  <2>1. UNCHANGED expected
    <3>1. CASE Tenant[Att(t)] \in tenants  BY <1>5, <3>1 DEF Exists
    <3>2. CASE Tenant[Att(t)] \notin tenants  BY <3>2 DEF Exists
    <3> QED  BY <3>1, <3>2
  <2>2. \/ Advance(t) \/ Goto(t, "delete") \/ Goto(t, "create") \/ Goto(t, "search")
    <3>1. CASE Tenant[Att(t)] \in tenants  BY <1>5, <3>1 DEF Exists
    <3>2. CASE Tenant[Att(t)] \notin tenants  BY <3>2 DEF Exists
    <3> QED  BY <3>1, <3>2
  <2>3. pc'[t] # "fetch"  BY <2>2, GotoIs, AdvanceIs
  <2>4. Fine(t)'  BY <1>1, <1>2, <2>1, <2>3, QuietFine
  <2> QED  BY <1>1, <1>2, <2>1, <2>4, OthersFine
<1> QED  BY <1>4, <1>5

LEMMA FetchFine ==
  ASSUME TypeInv, ReadInv, NEW t \in Threads, Fetch(t)
  PROVE  \A u \in Threads : Fine(u)'
<1>1. Acts(t) /\ pc[t] = "fetch"
  <2>1. Step(t)  BY DEF Step
  <2> QED  BY <2>1, StepActs DEF Fetch
<1>2. UNCHANGED <<job, objects, expected, disturbed>>
  BY DEF Fetch, store, local
<1>3. DOMAIN found = Threads /\ DOMAIN offset = Threads /\ job[t].op = "read"
  BY <1>1 DEF ReadInv, Staged
<1>4. result[t] = "none"  BY <1>1 DEF TypeInv, Located
<1>5. PICK of : of = Of(Att(t), objects)  OBVIOUS
<1>6. of \in Seq(Object) /\ NoTwins(of)
  <2>1. objects \in Seq(Object) /\ NoTwins(objects)
    BY DEF TypeInv, StoreTyped, ReadInv, ObjectsInv
  <2> QED  BY <1>5, <2>1, OfAnyTyped, OfAnyGives DEF Of
<1>7. Of(Att(t), objects)' = of  BY <1>2, <1>5, Zenon DEF Of, OfAny, Att
<1>8. PICK page : page = PageAt(of, offset[t])  OBVIOUS
<1>9. \/ /\ Len(page) < PageSize
         /\ found' = [found EXCEPT ![t] = Sorted(@ \o page)]
         /\ End(t, "ok") /\ UNCHANGED offset
      \/ /\ ~(Len(page) < PageSize)
         /\ found' = [found EXCEPT ![t] = @ \o page]
         /\ offset' = [offset EXCEPT ![t] = @ + PageSize]
         /\ UNCHANGED <<pc, result>>
  BY <1>5, <1>8 DEF Fetch
<1>10. \A u \in Threads \ {t} : Fine(u)'
  <2>1. \A u \in Threads \ {t} : found'[u] = found[u] /\ offset'[u] = offset[u]
    BY <1>3, <1>9
  <2> QED  BY <1>1, <1>2, <2>1, OthersFine
<1>11. \/ pc'[t] = "done" /\ result'[t] = "ok"
       \/ pc'[t] = "fetch" /\ result'[t] = "none"
  BY <1>1, <1>4, <1>9, GotoIs DEF End, TypeInv, RaiseInv
<1>12. Empty(t)' /\ Nearer(t)'
  BY <1>2, <1>3, <1>11 DEF Empty, Nearer
<1>13. CASE t \in disturbed
  BY <1>2, <1>10, <1>12, <1>13 DEF Fine, Reading, Complete
<1>14. CASE t \notin disturbed
  <2>1. /\ offset[t] \in Nat /\ offset[t] <= Len(of)
        /\ found[t] = SubSeq(of, 1, offset[t])
        /\ expected[t] = ToSet(of)
    <3>1. Reading(t)  BY DEF ReadInv, Fine
    <3> QED  BY <1>1, <1>5, <1>14, <3>1, Zenon DEF Reading
  <2>2. CASE Len(page) < PageSize
    <3>1. found'[t] = Sorted(found[t] \o page) /\ End(t, "ok")
      BY <1>3, <1>9, <2>2
    <3>2. found[t] \o page = of
      <4>1. PICK off \in Nat : off = offset[t]  BY <2>1
      <4>2. off <= Len(of) /\ page = PageAt(of, off)  BY <1>8, <2>1, <4>1
      <4>3. SubSeq(of, 1, off) \o page = of  BY <1>6, <2>2, <4>2, PageContinues
      <4>4. found[t] = SubSeq(of, 1, off)  BY <2>1, <4>1
      <4> QED  BY <4>3, <4>4
    <3>3. PICK r : r = Sorted(of)  OBVIOUS
    <3>4. /\ Len(r) = Len(of) /\ ToSet(r) = ToSet(of)
          /\ \A i, j \in DOMAIN r : i < j => r[i].index <= r[j].index
      BY <1>6, <3>3, SortedIs
    <3>5. Cardinality(ToSet(of)) = Len(of)  BY <1>6, NoTwinsCount
    <3>6. found'[t] = r /\ expected'[t] = ToSet(of)  BY <1>2, <2>1, <3>1, <3>2, <3>3
    <3>7. Complete(t)'
      <4>1. /\ ToSet(found'[t]) = expected'[t]
            /\ Len(found'[t]) = Cardinality(expected'[t])
            /\ \A i, j \in DOMAIN found'[t] : i < j => found'[t][i].index <= found'[t][j].index
        BY <3>4, <3>5, <3>6, Zenon
      <4> QED  BY <4>1, Zenon DEF Complete
    <3>8. pc'[t] = "done"  BY <3>1, GotoIs DEF End
    <3> QED  BY <1>10, <1>12, <3>7, <3>8 DEF Fine, Reading
  <2>3. CASE ~(Len(page) < PageSize)
    <3>1. /\ found'[t] = found[t] \o page /\ offset'[t] = offset[t] + PageSize
          /\ UNCHANGED <<pc, result>>
      BY <1>3, <1>9, <2>3
    <3>2. /\ offset[t] + PageSize <= Len(of)
          /\ found[t] \o page = SubSeq(of, 1, offset[t] + PageSize)
      BY <1>6, <1>8, <2>1, <2>3, PageContinues
    <3>3. offset'[t] \in Nat  BY <2>1, <3>1, ChunkStoreAssumption
    <3>4. /\ offset'[t] <= Len(of) /\ found'[t] = SubSeq(of, 1, offset'[t])
          /\ expected'[t] = ToSet(of)
      BY <1>2, <2>1, <3>1, <3>2
    <3>5. Reading(t)'  BY <1>7, <3>3, <3>4, Zenon DEF Reading
    <3>6. Complete(t)'  BY <1>4, <3>1 DEF Complete
    <3> QED  BY <1>10, <1>12, <3>5, <3>6 DEF Fine
  <2> QED  BY <2>2, <2>3
<1> QED  BY <1>13, <1>14

-----------------------------------------------------------------------------
(* Searching.                                                               *)

(* Of each attachment one nearest chunk: one of them is nearest of all.     *)
Best(chunks) == {o \in chunks : \A p \in chunks : p.att = o.att => Far(o) <= Far(p)}

OneOfEach(best) == {CHOOSE o \in best : o.att = a : a \in {o.att : o \in best}}

Choice(one, chunks) ==
    /\ one \subseteq chunks
    /\ \A o, p \in one : o.att = p.att => o = p
    /\ chunks # {} => \E c \in one : \A o \in chunks : Far(c) <= Far(o)

LEMMA BestOfEach ==
  \A chunks : (\A o \in chunks : Far(o) \in Nat) => Choice(OneOfEach(Best(chunks)), chunks)
<1> SUFFICES ASSUME NEW chunks, \A o \in chunks : Far(o) \in Nat,
                    NEW one, one = OneOfEach(Best(chunks))
             PROVE  Choice(one, chunks)
  OBVIOUS
<1> DEFINE best == Best(chunks)
           Pick(a) == CHOOSE o \in best : o.att = a
<1>1. \A b \in best : Pick(b.att) \in best /\ Pick(b.att).att = b.att
  OBVIOUS
<1>2. \A o \in one : \E b \in best : o = Pick(b.att)
  BY DEF OneOfEach
<1>3. \A b \in best : Pick(b.att) \in one
  BY DEF OneOfEach
<1>3a. best = {o \in chunks : \A p \in chunks : p.att = o.att => Far(o) <= Far(p)}
  BY DEF Best
<1> HIDE DEF Pick, best
<1>4. one \subseteq chunks  BY <1>1, <1>2, <1>3a
<1>5. ASSUME NEW o \in one, NEW p \in one, o.att = p.att PROVE o = p
  <2>1. PICK b \in best : o = Pick(b.att)  BY <1>2
  <2>2. PICK c \in best : p = Pick(c.att)  BY <1>2
  <2>3. o.att = b.att /\ p.att = c.att  BY <1>1, <2>1, <2>2
  <2>4. b.att = c.att  BY <1>5, <2>3
  <2> QED  BY <2>1, <2>2, <2>4
<1>6. ASSUME chunks # {} PROVE \E c \in one : \A o \in chunks : Far(c) <= Far(o)
  <2> DEFINE T == {Far(o) : o \in chunks}
  <2>1. PICK least \in T : \A d \in T : least <= d
    <3>1. T \in SUBSET Nat /\ T # {}  BY <1>6
    <3> HIDE DEF T
    <3> QED  BY <3>1, LeastElement
  <2>2. PICK m \in chunks : least = Far(m)  OBVIOUS
  <2>3. \A o \in chunks : Far(m) <= Far(o)  BY <2>1, <2>2
  <2>4. m \in best  BY <1>3a, <2>3
  <2>5. PICK c : c = Pick(m.att)  OBVIOUS
  <2>6. c \in best /\ c.att = m.att /\ c \in one  BY <1>1, <1>3, <2>4, <2>5
  <2>7. Far(c) <= Far(m) /\ c \in chunks  BY <1>3a, <2>6
  <2>8. ASSUME NEW o \in chunks PROVE Far(c) <= Far(o)
    <3>1. Far(c) \in Nat /\ Far(m) \in Nat /\ Far(o) \in Nat  BY <2>7
    <3> QED  BY <2>3, <2>7, <3>1
  <2> QED  BY <2>6, <2>8
<1> QED  BY <1>4, <1>5, <1>6 DEF Choice

LEMMA NearestFirstIs ==
  ASSUME NEW one, IsFiniteSet(one), NEW s \in NearestFirst(one)
  PROVE  /\ one = {} <=> s = <<>>
         /\ \A i \in DOMAIN s : s[i] \in one
         /\ \A i, j \in DOMAIN s : i # j => s[i] # s[j]
         /\ \A c \in one : \E k \in DOMAIN s : c = s[k] /\ (k = 1 \/ Far(s[1]) <= Far(s[k]))
<1>1. PICK n \in Nat : n = Cardinality(one)  BY FS_CardinalityType
<1>2. /\ s \in [1..n -> one] /\ DOMAIN s = 1..n
      /\ \A i, j \in 1..n : i < j => s[i] # s[j] /\ Far(s[i]) <= Far(s[j])
  BY <1>1 DEF NearestFirst
<1>3. \A i, j \in 1..n : i # j => s[i] # s[j]
  <2>1. \A i, j \in 1..n : i # j => i < j \/ j < i  OBVIOUS
  <2> QED  BY <1>2, <2>1
<1>4. \A c \in one : \E k \in 1..n : c = s[k]
  <2>1. IsFiniteSet(1..n) /\ Cardinality(1..n) = n  BY FS_Interval
  <2>2. s \in Injection(1..n, one)  BY <1>2, <1>3 DEF Injection, IsInjective
  <2>3. s \in Surjection(1..n, one)  BY <1>1, <2>1, <2>2, FS_Injection
  <2> QED  BY <2>3 DEF Surjection
<1>5. one = {} <=> n = 0  BY <1>1, FS_EmptySet
<1>6. s = <<>> <=> n = 0
  <2>1. ASSUME n = 0 PROVE s = <<>>
    <3>1. DOMAIN s = {}  BY <1>2, <2>1
    <3>2. s = [i \in {} |-> s[i]]  BY <1>2, <3>1
    <3> QED  BY <1>2, <2>1, <3>2
  <2>2. ASSUME s = <<>> PROVE n = 0
    <3>1. DOMAIN s = {}  BY <2>2
    <3>2. n # 0 => 1 \in 1..n  OBVIOUS
    <3> QED  BY <1>2, <3>1, <3>2
  <2> QED  BY <2>1, <2>2
<1>7. ASSUME NEW c \in one
      PROVE  \E k \in DOMAIN s : c = s[k] /\ (k = 1 \/ Far(s[1]) <= Far(s[k]))
  <2>1. PICK k \in 1..n : c = s[k]  BY <1>4
  <2>2. k = 1 \/ (1 \in 1..n /\ 1 < k)  OBVIOUS
  <2>3. k = 1 \/ Far(s[1]) <= Far(s[k])  BY <1>2, <2>2
  <2> QED  BY <1>2, <2>1, <2>3
<1> QED  BY <1>2, <1>3, <1>5, <1>6, <1>7

(* What the search of a thread finds.                                       *)
LEMMA SearchFinds ==
  ASSUME TypeInv, ReadInv, NEW t \in Threads,
         NEW K \in SUBSET Siblings(t), Nearest(K, Siblings(t)),
         NEW all, all = {objects[i] : i \in Siblings(t)},
         NEW chunks, chunks = {objects[i] : i \in K},
         NEW one, one = OneOfEach(Best(chunks)),
         NEW s \in NearestFirst(one)
  PROVE  /\ s = <<>> <=> all = {}
         /\ \A o \in all : Far(s[1]) <= Far(o)
         /\ \A i, j \in DOMAIN s : i # j => s[i].att # s[j].att
<1>1. PICK n \in Nat : n = Len(objects)  BY DEF TypeInv, StoreTyped
<1>2. objects \in Seq(Object) /\ DOMAIN objects = 1..n  BY <1>1 DEF TypeInv, StoreTyped
<1>3. Siblings(t) \in SUBSET (1..n)  BY <1>2 DEF Siblings
<1>4. ASSUME NEW i \in 1..n PROVE Far(objects[i]) \in Nat
  <2>1. PICK o : o = objects[i]  OBVIOUS
  <2>2. o \in ToSet(objects)  BY <1>2, <2>1 DEF ToSet
  <2>3. o \in Object
    <3> HIDE DEF Object
    <3> QED  BY <1>1, <1>2, <2>1
  <2>4. o.att \in Attachments /\ o.index \in Nat  BY <2>3 DEF Object
  <2>5. o.index < Len(Distance[o.att])  BY <2>2 DEF ReadInv, ObjectsInv
  <2>6. PICK d : d = Distance[o.att]  OBVIOUS
  <2>7. d \in Seq(Nat) /\ o.index < Len(d)  BY <2>4, <2>5, <2>6, ChunkStoreAssumption
  <2>8. o.index + 1 \in 1..Len(d)  BY <2>4, <2>7
  <2>9. d[o.index + 1] \in Nat  BY <2>7, <2>8
  <2> QED  BY <2>1, <2>6, <2>9 DEF Far
<1>5. IsFiniteSet(Siblings(t)) /\ Cardinality(Siblings(t)) \in Nat
  <2>0. 1 \in Int /\ n \in Int  OBVIOUS
  <2>1. IsFiniteSet(1..n)  BY <2>0, FS_Interval
  <2>2. IsFiniteSet(Siblings(t))  BY <1>3, <2>1, FS_Subset
  <2> QED  BY <2>2, FS_CardinalityType
<1>6. Siblings(t) # {} => K # {}
  <2>1. PICK size \in Nat : size = Cardinality(Siblings(t))  BY <1>5
  <2>2. Siblings(t) # {} => size > 0  BY <1>5, <2>1, FS_EmptySet
  <2>3. Cardinality(K) = Min({size, Limit})  BY <2>1 DEF Nearest
  <2>4. Limit \in Nat /\ Limit > 0  BY ChunkStoreAssumption
  <2>5. size > 0 => Cardinality(K) > 0  BY <2>3, <2>4, MinOfTwo
  <2>6. Cardinality({}) = 0  BY FS_EmptySet
  <2>7. K = {} => Cardinality(K) = 0  BY <2>6, Zenon
  <2> QED  BY <2>2, <2>5, <2>7
<1>7. \A i \in K : i \in Siblings(t) /\ i \in 1..n  BY <1>3
<1>8. \A i \in K, j \in Siblings(t) \ K : Far(objects[i]) <= Far(objects[j])
  BY DEF Nearest
<1>9. \A o \in chunks : Far(o) \in Nat  BY <1>4, <1>7
<1>10. /\ one \subseteq chunks
       /\ \A o, p \in one : o.att = p.att => o = p
       /\ chunks # {} => \E c \in one : \A o \in chunks : Far(c) <= Far(o)
  <2>1. Choice(one, chunks)  BY <1>9, BestOfEach, Zenon
  <2> QED  BY <2>1, Zenon DEF Choice
<1>11. IsFiniteSet(one)
  <2>1. chunks \subseteq ToSet(objects)  BY <1>2, <1>7 DEF ToSet
  <2>2. IsFiniteSet(ToSet(objects))
    <3>1. NoTwins(objects)  BY DEF ReadInv, ObjectsInv
    <3> QED  BY <1>2, <3>1, NoTwinsCount
  <2> QED  BY <1>10, <2>1, <2>2, FS_Subset
<1>12. /\ one = {} <=> s = <<>>
       /\ \A i \in DOMAIN s : s[i] \in one
       /\ \A i, j \in DOMAIN s : i # j => s[i] # s[j]
       /\ \A c \in one : \E k \in DOMAIN s : c = s[k] /\ (k = 1 \/ Far(s[1]) <= Far(s[k]))
  BY <1>11, NearestFirstIs
<1>13. all = {} <=> Siblings(t) = {}  OBVIOUS
<1>14. chunks = {} <=> K = {}  OBVIOUS
<1>15. s = <<>> <=> all = {}
  BY <1>6, <1>7, <1>10, <1>12, <1>13, <1>14
<1>16. ASSUME NEW o \in all PROVE Far(s[1]) <= Far(o)
  <2>1. PICK j \in Siblings(t) : o = objects[j]  OBVIOUS
  <2>2. chunks # {}  BY <1>6, <1>14, <2>1
  <2>3. PICK c \in one : \A p \in chunks : Far(c) <= Far(p)  BY <1>10, <2>2
  <2>4. PICK k \in DOMAIN s : c = s[k] /\ (k = 1 \/ Far(s[1]) <= Far(s[k]))  BY <1>12
  <2>5. PICK i \in K : c = objects[i]  BY <1>10
  <2>6. Far(c) <= Far(o)
    <3>1. CASE j \in K  BY <2>1, <2>3, <3>1
    <3>2. CASE j \notin K  BY <1>8, <2>1, <2>5, <3>2
    <3> QED  BY <3>1, <3>2
  <2>7. Far(c) \in Nat /\ Far(o) \in Nat
    <3>1. j \in 1..n /\ i \in 1..n  BY <1>3, <1>7
    <3> QED  BY <1>4, <2>1, <2>5, <3>1
  <2>8. CASE k = 1  BY <2>4, <2>6, <2>8
  <2>9. CASE k # 1
    <3>1. Far(s[1]) <= Far(c)  BY <2>4, <2>9
    <3>2. Far(s[1]) \in Nat
      <4>1. s[1] \in chunks
        <5>1. DOMAIN s = 1..Cardinality(one)  BY DEF NearestFirst
        <5>2. Cardinality(one) \in Nat  BY <1>11, FS_CardinalityType
        <5>3. 1 \in DOMAIN s  BY <5>1, <5>2
        <5> QED  BY <1>10, <1>12, <5>3
      <4> QED  BY <1>9, <4>1
    <3> QED  BY <2>6, <2>7, <3>1, <3>2
  <2> QED  BY <2>8, <2>9
<1>17. ASSUME NEW i \in DOMAIN s, NEW j \in DOMAIN s, i # j PROVE s[i].att # s[j].att
  BY <1>10, <1>12, <1>17
<1> QED  BY <1>15, <1>16, <1>17

LEMMA SearchFine ==
  ASSUME TypeInv, ReadInv, NEW t \in Threads, Search(t)
  PROVE  \A u \in Threads : Fine(u)'
<1>1. Acts(t) /\ pc[t] = "search"
  <2>1. Step(t)  BY DEF Step
  <2> QED  BY <2>1, StepActs DEF Search
<1>2. UNCHANGED <<job, objects, offset, disturbed>> /\ End(t, "ok")
  BY DEF Search, store, local
<1>3. /\ DOMAIN found = Threads /\ DOMAIN expected = Threads
      /\ job[t].op = "siblings"
  BY <1>1 DEF ReadInv, Staged
<1>4. PICK K \in NearVector(t) :
        LET chunks == {objects[i] : i \in K}
            best   == {o \in chunks : \A p \in chunks : p.att = o.att => Far(o) <= Far(p)}
            one    == {CHOOSE o \in best : o.att = a : a \in {o.att : o \in best}}
        IN \E s \in NearestFirst(one) : found' = [found EXCEPT ![t] = s]
  BY Zenon DEF Search
<1> DEFINE members == {objects[i] : i \in K}
<1>5. \E s \in NearestFirst(OneOfEach(Best(members))) : found' = [found EXCEPT ![t] = s]
  BY <1>4, Zenon DEF OneOfEach, Best
<1>6. PICK chunks : chunks = members  OBVIOUS
<1>7. PICK one : one = OneOfEach(Best(chunks))  OBVIOUS
<1>8. \E s \in NearestFirst(one) : found' = [found EXCEPT ![t] = s]
  <2> HIDE DEF members
  <2> QED  BY <1>5, <1>6, <1>7, Zenon
<1>9. PICK s \in NearestFirst(one) : found' = [found EXCEPT ![t] = s]
  BY <1>8
<1>10. PICK all : all = {objects[i] : i \in Siblings(t)}  OBVIOUS
<1>11. K \in SUBSET Siblings(t) /\ Nearest(K, Siblings(t))
  BY <1>4 DEF NearVector
<1>12. /\ s = <<>> <=> all = {}
       /\ \A o \in all : Far(s[1]) <= Far(o)
       /\ \A i, j \in DOMAIN s : i # j => s[i].att # s[j].att
  BY <1>6, <1>7, <1>9, <1>10, <1>11, SearchFinds
<1>13. /\ found'[t] = s /\ expected'[t] = all
       /\ \A u \in Threads \ {t} : found'[u] = found[u] /\ expected'[u] = expected[u]
  <2>1. expected' = [expected EXCEPT ![t] = all]  BY <1>10 DEF Search
  <2> QED  BY <1>3, <1>9, <2>1
<1>14. \A u \in Threads \ {t} : Fine(u)'
  BY <1>1, <1>2, <1>13, OthersFine
<1>15. pc'[t] = "done"  BY <1>2, GotoIs DEF End
<1>16. Empty(t)' /\ Reading(t)'  BY <1>15 DEF Empty, Reading
<1>17. Complete(t)'  BY <1>2, <1>3 DEF Complete
<1>18. Nearer(t)'  BY <1>12, <1>13 DEF Nearer, Far
<1> QED  BY <1>14, <1>16, <1>17, <1>18 DEF Fine

-----------------------------------------------------------------------------
(* Every step.                                                              *)

LEMMA ReadStep == TypeInv /\ ReadInv /\ [Next]_vars => ReadInv'
<1> SUFFICES ASSUME TypeInv, ReadInv, [Next]_vars PROVE ReadInv'
  OBVIOUS
<1>1. ObjectsInv'  BY ObjectsStep
<1>2. \A u \in Threads : Staged(u) /\ Fine(u)  BY DEF ReadInv
<1>3. ASSUME UNCHANGED <<objects, pc, stage, job, result, finds>>
      PROVE  \A u \in Threads : Staged(u)' /\ Fine(u)'
  <2>1. \A u \in Threads : Staged(u)'  BY <1>2, <1>3 DEF Staged
  <2>2. ASSUME NEW u \in Threads PROVE Fine(u)'
    <3>1. Of(Att(u), objects)' = Of(Att(u), objects)  BY <1>3 DEF Of, OfAny, Att
    <3>2. Fine(u)  BY <1>2
    <3> QED  BY <1>3, <3>1, <3>2, FineFrame DEF finds
  <2> QED  BY <2>1, <2>2
<1>4. ASSUME Boot \/ Shutdown \/ UNCHANGED vars
      PROVE  \A u \in Threads : Staged(u)' /\ Fine(u)'
  BY <1>3, <1>4 DEF Boot, Shutdown, vars, store, local
<1>5. ASSUME NEW t \in Threads, Start(t)
      PROVE  \A u \in Threads : Staged(u)' /\ Fine(u)'
  <2>1. /\ UNCHANGED <<objects, job, result, offset, found, expected, disturbed>>
        /\ pc[t] = "idle" /\ job[t] \in Job
        /\ pc' = [pc EXCEPT ![t] = "check"]
        /\ stage' = [stage EXCEPT ![t] = FirstStage[job[t].op]]
    BY <1>5 DEF Start, Goto, store, finds, TypeInv, RaiseInv
  <2>2. pc'[t] = "check" /\ \A u \in Threads \ {t} : pc'[u] = pc[u] /\ stage'[u] = stage[u]
    BY <2>1 DEF TypeInv, RaiseInv
  <2>3. Staged(t)'
    <3>1. stage'[t] = FirstStage[job[t].op]  BY <2>1 DEF TypeInv, RaiseInv
    <3>2. job[t].op \in Operations  BY <2>1 DEF Job
    <3>3. /\ stage'[t] = "page" <=> job[t].op = "read"
          /\ stage'[t] = "search" <=> job[t].op = "siblings"
      BY <3>1, <3>2 DEF FirstStage, Operations
    <3> QED  BY <2>1, <2>2, <3>3 DEF Staged
  <2>4. ASSUME NEW u \in Threads \ {t} PROVE Staged(u)'
    <3>1. Staged(u)  BY <1>2
    <3> QED  BY <2>1, <2>2, <3>1 DEF Staged
  <2>5. Fine(t)'
    <3>1. Empty(t)  BY <1>2 DEF Fine
    <3>2. found[t] = <<>> /\ expected[t] = {} /\ offset[t] = 0
      BY <2>1, <3>1 DEF Empty
    <3> QED  BY <2>1, <2>2, <3>2, FineEmpty
  <2>6. ASSUME NEW u \in Threads \ {t} PROVE Fine(u)'
    <3>1. Of(Att(u), objects)' = Of(Att(u), objects)  BY <2>1 DEF Of, OfAny, Att
    <3>2. Fine(u)  BY <1>2
    <3> QED  BY <2>1, <2>2, <3>1, <3>2, FineFrame
  <2> QED  BY <2>3, <2>4, <2>5, <2>6
<1>6. ASSUME NEW t \in Threads, Step(t)
      PROVE  \A u \in Threads : Staged(u)' /\ Fine(u)'
  <2>1. \A u \in Threads : Staged(u)'  BY <1>2, <1>6, StagedStep
  <2>2. Acts(t)  BY <1>6, StepActs
  <2>3. ASSUME Check(t) \/ Connect(t) \/ Return(t) \/ Create(t) \/ Ready(t) \/ Raise(t)
        PROVE  \A u \in Threads : Fine(u)'
    <3>1. UNCHANGED <<objects, offset, found, expected, disturbed>>
      BY <2>3 DEF Check, Connect, Return, Create, Ready, Raise, store, finds
    <3>2. \A u \in Threads \ {t} : Fine(u)'  BY <2>2, <3>1, OthersFine
    <3>3. CASE Raise(t)
      <4>1. End(t, "raised")  BY <3>3 DEF Raise
      <4>2. pc'[t] = "done" /\ result'[t] = "raised"
        BY <4>1, GotoIs DEF End, TypeInv, RaiseInv
      <4> QED  BY <3>2, <4>2, FineRaised
    <3>4. CASE Check(t) \/ Connect(t) \/ Return(t) \/ Create(t) \/ Ready(t)
      <4>1. pc[t] # "fetch"  BY <3>4 DEF Check, Connect, Return, Create, Ready
      <4>2. \/ Goto(t, "return") \/ Goto(t, "connect") \/ Goto(t, "insert") \/ Goto(t, "ready")
            \/ Goto(t, "exists") \/ Goto(t, "done") \/ Advance(t)
        BY <3>4 DEF Check, Connect, Return, Create, Ready, End
      <4>3. pc'[t] # "fetch"  BY <4>2, GotoIs, AdvanceIs
      <4>4. Fine(t)'  BY <2>2, <3>1, <4>1, <4>3, QuietFine
      <4> QED  BY <3>2, <4>4
    <3> QED  BY <2>3, <3>3, <3>4
  <2>4. Delete(t) \/ Insert(t) => \A u \in Threads : Fine(u)'  BY WriteFine
  <2>5. Exists(t) => \A u \in Threads : Fine(u)'  BY ExistsFine
  <2>6. Fetch(t) => \A u \in Threads : Fine(u)'  BY FetchFine
  <2>7. Search(t) => \A u \in Threads : Fine(u)'  BY SearchFine
  <2>8. \A u \in Threads : Fine(u)'
    BY <1>6, <2>3, <2>4, <2>5, <2>6, <2>7 DEF Step
  <2> QED  BY <2>1, <2>8
<1>7. DOMAIN found' = Threads /\ DOMAIN expected' = Threads /\ DOMAIN offset' = Threads
  <2>0. DOMAIN found = Threads /\ DOMAIN expected = Threads /\ DOMAIN offset = Threads
    BY DEF ReadInv
  <2>1. ASSUME NEW t \in Threads, Exists(t)
        PROVE  DOMAIN found' = Threads /\ DOMAIN expected' = Threads /\ DOMAIN offset' = Threads
    <3>1. UNCHANGED <<found, offset>>  BY <2>1 DEF Exists
    <3>2. UNCHANGED expected \/ \E v : expected' = [expected EXCEPT ![t] = v]
      <4>1. CASE Tenant[Att(t)] \in tenants  BY <2>1, <4>1 DEF Exists
      <4>2. CASE Tenant[Att(t)] \notin tenants  BY <2>1, <4>2 DEF Exists
      <4> QED  BY <4>1, <4>2
    <3> QED  BY <2>0, <3>1, <3>2
  <2>2. ASSUME NEW t \in Threads, Fetch(t)
        PROVE  DOMAIN found' = Threads /\ DOMAIN expected' = Threads /\ DOMAIN offset' = Threads
    <3>1. /\ UNCHANGED expected /\ \E v : found' = [found EXCEPT ![t] = v]
          /\ UNCHANGED offset \/ \E v : offset' = [offset EXCEPT ![t] = v]
      BY <2>2 DEF Fetch
    <3> QED  BY <2>0, <3>1
  <2>3. ASSUME NEW t \in Threads, Search(t)
        PROVE  DOMAIN found' = Threads /\ DOMAIN expected' = Threads /\ DOMAIN offset' = Threads
    <3>1. /\ UNCHANGED offset /\ \E v : found' = [found EXCEPT ![t] = v]
          /\ \E v : expected' = [expected EXCEPT ![t] = v]
      BY <2>3, Zenon DEF Search
    <3> QED  BY <2>0, <3>1
  <2>4. ASSUME NEW t \in Threads,
               Start(t) \/ Check(t) \/ Connect(t) \/ Return(t) \/ Create(t) \/ Delete(t)
                 \/ Insert(t) \/ Ready(t) \/ Raise(t)
        PROVE  UNCHANGED <<found, expected, offset>>
    BY <2>4 DEF Start, Check, Connect, Return, Create, Delete, Insert, Ready, Raise, finds
  <2>5. CASE Boot \/ Shutdown \/ UNCHANGED vars
    BY <2>0, <2>5 DEF Boot, Shutdown, vars, finds
  <2> QED  BY <2>0, <2>1, <2>2, <2>3, <2>4, <2>5 DEF Next, Step
<1> QED  BY <1>1, <1>4, <1>5, <1>6, <1>7 DEF Next, ReadInv

LEMMA ReadAlways == Spec => [](TypeInv /\ ReadInv)
  BY TypeInit, TypeStep, ReadInit, ReadStep, PTL DEF Spec

(* A read whose attachment nobody writes has every chunk there was when it  *)
(* began, once and in document order, in however many pages it came and     *)
(* whatever was written elsewhere between two of them.                      *)
THEOREM ReadTheorem == Spec => []ReadIsComplete
<1>1. TypeInv /\ ReadInv => ReadIsComplete  BY ReadMeans
<1> QED  BY ReadAlways, <1>1, PTL

(* The first sibling a search reports is the nearest there is: neither the  *)
(* limit nor the document's own chunks hide it.                             *)
THEOREM SearchTheorem == Spec => []NearestSiblingFirst
<1>1. TypeInv /\ ReadInv => NearestSiblingFirst  BY ReadMeans
<1> QED  BY ReadAlways, <1>1, PTL

=============================================================================

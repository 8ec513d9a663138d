----------------------------- MODULE ChunkStore -----------------------------
(***************************************************************************)
(* vectors/repo.py and vectors/client.py: the operations on the chunks in  *)
(* Weaviate, call by call, from worker threads that share one cached       *)
(* client, between the start-up that creates the collection and the        *)
(* shut-down that closes the client.                                       *)
(***************************************************************************)
EXTENDS Integers, FiniteSets, SequencesExt

CONSTANTS
    Threads,        \* threads, of one operation each
    Workloads,      \* what the threads may be asked for, None for nothing
    Attachments,
    Tenant,         \* [Attachments -> tenants]
    Plan,           \* [Attachments -> plans]
    Size,           \* [Threads -> Nat]: how many chunks a thread's upsert has
    Stored,         \* sequences of objects an earlier process may have left
    Distance,       \* [Attachments -> Seq(Nat)]: of each chunk from the centroid searched for
    PageSize,       \* _FETCH_PAGE_SIZE
    Limit,          \* limit of the sibling search
    MaxFailures,    \* bound: how often Weaviate may fail
    Earlier,        \* uploads of an earlier process
    None

Operations == {"upsert", "delete", "read", "siblings", "probe"}
Job        == [op : Operations, att : Attachments]

ASSUME ChunkStoreAssumption ==
    /\ Workloads \subseteq [Threads -> Job \cup {None}]
    /\ None \notin Job
    /\ Size \in [Threads -> Nat]
    /\ IsFiniteSet(Threads)
    /\ Stored \subseteq Seq([att : Attachments, index : Nat, by : Earlier])
    /\ \A s \in Stored : /\ IsInjective(s)
                         /\ \A o \in ToSet(s) : o.index < Len(Distance[o.att])
    /\ \A a \in Attachments : /\ Distance[a] \in Seq(Nat)
                              /\ \A t \in Threads : Size[t] <= Len(Distance[a])
    /\ PageSize \in Nat \ {0} /\ Limit \in Nat \ {0}
    /\ MaxFailures \in Nat
    /\ Earlier \cap Threads = {}

VARIABLES
    phase,      \* "off", "up", "closed": the process
    schema,     \* the DocChunk collection exists
    tenants,    \* tenants registered in it
    objects,    \* its objects, in insertion order
    client,     \* _client: None or a connection
    open,       \* connections opened and not closed
    made,       \* connections made so far
    pc,         \* where each thread is
    stage,      \* the part of its operation a thread is in
    job,
    handle,     \* the connection get_client returned to it
    offset,     \* read: offset of the next page
    found,      \* objects a read has so far, or a search has found
    result,     \* how the operation ended
    connects,   \* history: connections a thread made
    expected,   \* history: objects there were for a read or a search
    disturbed,  \* history: reads whose attachment was written meanwhile
    failures,   \* how often Weaviate failed
    excused     \* history: operations that met a fault, a closed client or no collection

process == <<phase, schema>>
store   == <<tenants, objects>>
conns   == <<client, open, made, connects>>
local   == <<stage, job, handle>>
finds   == <<offset, found, expected, disturbed>>
faults  == <<failures, excused>>
vars    == <<process, store, conns, pc, local, finds, result, faults>>

Object == [att : Attachments, index : Nat, by : Threads \cup Earlier]

Init ==
    /\ phase = "off"
    /\ schema \in BOOLEAN
    /\ objects \in (IF schema THEN Stored ELSE {<<>>})
    /\ tenants = {Tenant[o.att] : o \in ToSet(objects)}
    /\ client = None /\ open = {} /\ made = 0
    /\ pc = [t \in Threads |-> "idle"]
    /\ stage = [t \in Threads |-> "none"]
    /\ job \in Workloads
    /\ handle = [t \in Threads |-> None]
    /\ offset = [t \in Threads |-> 0]
    /\ found = [t \in Threads |-> <<>>]
    /\ result = [t \in Threads |-> "none"]
    /\ connects = [t \in Threads |-> 0]
    /\ expected = [t \in Threads |-> {}]
    /\ disturbed = {}
    /\ failures = 0 /\ excused = {}

-----------------------------------------------------------------------------
(* Helpers.                                                                 *)

Goto(t, label) == pc' = [pc EXCEPT ![t] = label]

End(t, how) == Goto(t, "done") /\ result' = [result EXCEPT ![t] = how]

Att(t) == job[t].att

(* The objects of some attachments, in their order.                         *)
OfAny(atts, objs) ==
    LET upto[i \in 0..Len(objs)] ==
            IF i = 0 THEN <<>>
            ELSE IF objs[i].att \in atts THEN Append(upto[i - 1], objs[i]) ELSE upto[i - 1]
    IN upto[Len(objs)]

Of(a, objs) == OfAny({a}, objs)

(* Mutant of FirstStage: an upsert does not register the tenant.             *)
FirstStageUnregistered == [upsert |-> "purge", delete |-> "purge", read |-> "page",
                           siblings |-> "search", probe |-> "probe"]

(* The parts of an operation; each begins by asking for the client.         *)
FirstStage == [upsert |-> "register", delete |-> "purge", read |-> "page",
               siblings |-> "search", probe |-> "probe"]

NextStage(t) ==
    IF job[t].op # "upsert" THEN "none"
    ELSE CASE stage[t] = "register" -> "purge"
           [] stage[t] = "purge"    -> "insert"
           [] OTHER                 -> "none"

(* A part of the operation is over.                                         *)
Advance(t) ==
    LET next == NextStage(t) IN
    IF next = "none" THEN End(t, "ok") /\ UNCHANGED stage
    ELSE /\ stage' = [stage EXCEPT ![t] = next]
         /\ Goto(t, "check")
         /\ UNCHANGED result

(* A call on the thread's connection can succeed: the connection was not    *)
(* closed, and the collection exists.                                       *)
Usable(t) == handle[t] \in open /\ schema

Fail == failures < MaxFailures /\ failures' = failures + 1

(* A call to Weaviate raises, and the operation with it: on a fault, on a   *)
(* closed connection, without the collection.                               *)
Raise(t) ==
    /\ pc[t] \in {"exists", "create", "delete", "insert", "fetch", "search", "ready"}
    /\ \/ Fail
       \/ ~Usable(t) /\ UNCHANGED failures
    /\ End(t, "raised")
    /\ excused' = excused \cup {t}
    /\ UNCHANGED <<process, store, conns, local, finds>>

(* The reads of an attachment that are under way when it is written.        *)
Disturb(a) ==
    disturbed' = disturbed \cup
        {t \in Threads : pc[t] = "fetch" /\ job[t].op = "read" /\ Att(t) = a}

-----------------------------------------------------------------------------
(* The life of the process.                                                 *)

(* ensure_collections, before any request.  If it raises, the service boots *)
(* without a client and, at first, without the collection.                  *)
Boot ==
    /\ phase = "off"
    /\ phase' = "up"
    /\ \/ /\ schema' = TRUE
          /\ client' = made + 1 /\ made' = made + 1 /\ open' = open \cup {made + 1}
          /\ UNCHANGED failures
       \/ /\ Fail
          /\ \/ UNCHANGED <<client, open, made>>
             \/ client' = made + 1 /\ made' = made + 1 /\ open' = open \cup {made + 1}
          /\ UNCHANGED schema
    /\ UNCHANGED <<store, connects, pc, local, finds, result, excused>>

(* Mutant of Shutdown: the closed client stays in _client.                  *)
ShutdownKeepsReference ==
    /\ phase = "up"
    /\ phase' = "closed"
    /\ open' = open \ {client}
    /\ UNCHANGED <<schema, store, client, made, connects, pc, local, finds, result, faults>>

(* close_client.  A thread may still be at work: the request that started   *)
(* it has timed out.                                                        *)
Shutdown ==
    /\ phase = "up"
    /\ phase' = "closed"
    /\ client' = None
    /\ open' = open \ {client}
    /\ UNCHANGED <<schema, store, made, connects, pc, local, finds, result, faults>>

Start(t) ==
    /\ phase = "up"
    /\ pc[t] = "idle"
    /\ job[t] # None
    /\ stage' = [stage EXCEPT ![t] = FirstStage[job[t].op]]
    /\ Goto(t, "check")
    /\ UNCHANGED <<process, store, conns, job, handle, finds, result, faults>>

-----------------------------------------------------------------------------
(* get_client: check, connect and assign, return the global's value.        *)

(* Mutant of Check: the cached client is never looked at.                   *)
CheckNothing(t) ==
    /\ pc[t] = "check"
    /\ Goto(t, "connect")
    /\ UNCHANGED <<process, store, conns, local, finds, result, faults>>

Check(t) ==
    /\ pc[t] = "check"
    /\ Goto(t, IF client \in open THEN "return" ELSE "connect")
    /\ UNCHANGED <<process, store, conns, local, finds, result, faults>>

(* connect_to_custom returns and _client is assigned, whatever it holds by  *)
(* then; or it raises, having closed what it opened.                        *)
Connect(t) ==
    /\ pc[t] = "connect"
    /\ \/ /\ made' = made + 1
          /\ client' = made'
          /\ open' = open \cup {made'}
          /\ connects' = [connects EXCEPT ![t] = @ + 1]
          /\ Goto(t, "return")
          /\ UNCHANGED <<result, faults>>
       \/ /\ Fail
          /\ End(t, "raised")
          /\ excused' = excused \cup {t}
          /\ UNCHANGED conns
    /\ UNCHANGED <<process, store, local, finds>>

Return(t) ==
    /\ pc[t] = "return"
    /\ handle' = [handle EXCEPT ![t] = client]
    /\ Goto(t, CASE stage[t] = "insert" -> "insert"
                 [] stage[t] = "probe"  -> "ready"
                 [] OTHER               -> "exists")
    /\ UNCHANGED <<process, store, conns, stage, job, finds, result, faults>>

-----------------------------------------------------------------------------
(* Tenants.                                                                 *)

(* tenants.exists, asked by every part but the insert.  A tenant that does  *)
(* not exist is created by ensure_tenant and has nothing to delete, to read *)
(* or to search.                                                            *)
Exists(t) ==
    /\ pc[t] = "exists"
    /\ Usable(t)
    /\ IF Tenant[Att(t)] \in tenants
       THEN /\ CASE stage[t] = "register" -> Advance(t)
                 [] stage[t] = "purge"  -> Goto(t, "delete") /\ UNCHANGED <<stage, result>>
                 [] stage[t] = "page"   -> Goto(t, "fetch") /\ UNCHANGED <<stage, result>>
                 [] OTHER               -> Goto(t, "search") /\ UNCHANGED <<stage, result>>
            /\ expected' = IF stage[t] = "page"
                           THEN [expected EXCEPT ![t] = ToSet(Of(Att(t), objects))]
                           ELSE expected
       ELSE /\ IF stage[t] = "register"
               THEN Goto(t, "create") /\ UNCHANGED <<stage, result>>
               ELSE Advance(t)
            /\ UNCHANGED expected
    /\ UNCHANGED <<process, store, conns, job, handle, offset, found, disturbed, faults>>

(* Creating a tenant that another thread has created meanwhile changes      *)
(* nothing.                                                                 *)
Create(t) ==
    /\ pc[t] = "create"
    /\ Usable(t)
    /\ tenants' = tenants \cup {Tenant[Att(t)]}
    /\ Advance(t)
    /\ UNCHANGED <<process, objects, conns, job, handle, finds, faults>>

-----------------------------------------------------------------------------
(* Writing.                                                                 *)

Delete(t) ==
    /\ pc[t] = "delete"
    /\ Usable(t)
    /\ objects' = OfAny(Attachments \ {Att(t)}, objects)
    /\ Disturb(Att(t))
    /\ \/ Advance(t) /\ UNCHANGED faults
       \/ /\ Fail
          /\ End(t, "raised")
          /\ excused' = excused \cup {t}
          /\ UNCHANGED stage
    /\ UNCHANGED <<process, tenants, conns, job, handle, offset, found, expected>>

(* insert_many into an unknown tenant fails for every object, which raises; *)
(* an object that fails among others is only reported.                      *)
Insert(t) ==
    /\ pc[t] = "insert"
    /\ Usable(t)
    /\ Disturb(Att(t))
    /\ IF Tenant[Att(t)] \in tenants
       THEN /\ \E n \in 0..Size[t] : \E kept \in [1..n -> 0..(Size[t] - 1)] :
                /\ \A i, j \in 1..n : i < j => kept[i] < kept[j]
                /\ IF n = Size[t] THEN UNCHANGED failures ELSE Fail
                /\ n > 0 \/ Size[t] = 0
                /\ objects' = objects \o
                      [i \in 1..n |-> [att |-> Att(t), index |-> kept[i], by |-> t]]
            /\ Advance(t)
       ELSE UNCHANGED <<objects, stage, failures>> /\ End(t, "raised")
    /\ UNCHANGED <<process, tenants, conns, job, handle, offset, found, expected, excused>>

-----------------------------------------------------------------------------
(* Reading.                                                                 *)

PageAt(objs, n) == SubSeq(objs, n + 1, Min({Len(objs), n + PageSize}))

(* list.sort(): ordered by index and, where that is equal, by place.        *)
Before(objs, i, j) == \/ objs[i].index < objs[j].index
                      \/ objs[i].index = objs[j].index /\ i < j

Sorted(objs) ==
    LET places == DOMAIN objs
        At(k) == CHOOSE i \in places : Cardinality({j \in places : Before(objs, j, i)}) = k - 1
    IN [k \in places |-> objs[At(k)]]

(* Mutants of Fetch: the offset does not move; the first page is all.       *)
FetchSamePage(t) ==
    /\ pc[t] = "fetch"
    /\ Usable(t)
    /\ LET page == PageAt(Of(Att(t), objects), 0) IN
        IF Len(page) < PageSize
        THEN found' = [found EXCEPT ![t] = page] /\ End(t, "ok")
        ELSE UNCHANGED <<found, pc, result>>
    /\ UNCHANGED <<process, store, conns, local, offset, expected, disturbed, faults>>

FetchOnePage(t) ==
    /\ pc[t] = "fetch"
    /\ Usable(t)
    /\ found' = [found EXCEPT ![t] = PageAt(Of(Att(t), objects), 0)]
    /\ End(t, "ok")
    /\ UNCHANGED <<process, store, conns, local, offset, expected, disturbed, faults>>

(* One page of get_all_chunks; the loop ends with a short or an empty page, *)
(* and what was read is sorted by index.                                    *)
Fetch(t) ==
    /\ pc[t] = "fetch"
    /\ Usable(t)
    /\ \E page \in {PageAt(Of(Att(t), objects), offset[t])} :
       IF Len(page) < PageSize
       THEN /\ found' = [found EXCEPT ![t] = Sorted(@ \o page)]
            /\ End(t, "ok")
            /\ UNCHANGED offset
       ELSE /\ found' = [found EXCEPT ![t] = @ \o page]
            /\ offset' = [offset EXCEPT ![t] = @ + PageSize]
            /\ UNCHANGED <<pc, result>>
    /\ UNCHANGED <<process, store, conns, local, expected, disturbed, faults>>

Siblings(t) == {i \in DOMAIN objects : /\ objects[i].att # Att(t)
                                       /\ Tenant[objects[i].att] = Tenant[Att(t)]
                                       /\ Plan[objects[i].att] = Plan[Att(t)]}

Far(o) == Distance[o.att][o.index + 1]

Nearest(K, all) == /\ Cardinality(K) = Min({Cardinality(all), Limit})
                   /\ \A i \in K, j \in all \ K : Far(objects[i]) <= Far(objects[j])

(* Mutant of NearVector: the filters are applied to what the search returns. *)
NearVectorThenFilter(t) ==
    {K \cap Siblings(t) : K \in {K \in SUBSET DOMAIN objects : Nearest(K, DOMAIN objects)}}

(* near_vector: the Limit nearest chunks that pass the filter.              *)
NearVector(t) == {K \in SUBSET Siblings(t) : Nearest(K, Siblings(t))}

NearestFirst(chunks) ==
    {s \in [1..Cardinality(chunks) -> chunks] :
        \A i, j \in DOMAIN s : i < j => s[i] # s[j] /\ Far(s[i]) <= Far(s[j])}

(* sibling_similarities: of each attachment the nearest chunk found, the    *)
(* nearest first; which of two as near comes first is Weaviate's choice.    *)
Search(t) ==
    /\ pc[t] = "search"
    /\ Usable(t)
    /\ \E K \in NearVector(t) :
        LET chunks == {objects[i] : i \in K}
            best   == {o \in chunks : \A p \in chunks : p.att = o.att => Far(o) <= Far(p)}
            one    == {CHOOSE o \in best : o.att = a : a \in {o.att : o \in best}}
        IN \E s \in NearestFirst(one) : found' = [found EXCEPT ![t] = s]
    /\ expected' = [expected EXCEPT ![t] = {objects[i] : i \in Siblings(t)}]
    /\ End(t, "ok")
    /\ UNCHANGED <<process, store, conns, local, offset, disturbed, faults>>

(* readyz: is_ready asks for no collection.                                 *)
Ready(t) ==
    /\ pc[t] = "ready"
    /\ handle[t] \in open
    /\ End(t, "ok")
    /\ UNCHANGED <<process, store, conns, local, finds, faults>>

-----------------------------------------------------------------------------
Step(t) ==
    \/ Check(t) \/ Connect(t) \/ Return(t)
    \/ Exists(t) \/ Create(t) \/ Delete(t) \/ Insert(t)
    \/ Fetch(t) \/ Search(t) \/ Ready(t) \/ Raise(t)

Next ==
    \/ Boot \/ Shutdown
    \/ \E t \in Threads : Start(t) \/ Step(t)

Spec == Init /\ [][Next]_vars

(* The Weaviate client has timeouts: every call returns or raises.          *)
FairSpec == Spec /\ \A t \in Threads : WF_vars(Step(t))

-----------------------------------------------------------------------------
(* Properties.                                                              *)

(* The store holds objects of registered tenants; threads and connections   *)
(* hold values of their types.                                              *)
TypeOK ==
    /\ phase \in {"off", "up", "closed"} /\ schema \in BOOLEAN
    /\ ToSet(objects) \subseteq Object
    /\ {Tenant[o.att] : o \in ToSet(objects)} \subseteq tenants
    /\ client \in open \cup {None}
    /\ open \subseteq 1..made
    /\ \A t \in Threads :
        /\ pc[t] = "idle" <=> stage[t] = "none"
        /\ pc[t] = "done" <=> result[t] # "none"
        /\ handle[t] \in 1..made \cup {None}

(* While the process is up no thread connects twice, however often its      *)
(* operation asks for the client, and none connects if the start-up did;    *)
(* the connections nobody refers to any more, which are never closed, are   *)
(* those of the threads that raced for the first one and lost.              *)
OneConnectionPerThread ==
    phase = "up" =>
        LET connected == {t \in Threads : connects[t] > 0} IN
        /\ \A t \in Threads : connects[t] <= 1
        /\ connected # {} => Cardinality(open \ {client}) < Cardinality(connected)
        /\ connected = {} => open \subseteq {client}

(* No operation fails by the service's own doing: not when two threads      *)
(* register one tenant, not for a tenant that has no data, not when another *)
(* thread connects in between.  What raises met a failing Weaviate, a       *)
(* missing collection or a closed client.                                   *)
OnlyWeaviateRaises == \A t \in Threads : result[t] = "raised" => t \in excused

(* A finished read whose attachment was not written meanwhile has every     *)
(* chunk the store held when it began, each once, in document order,        *)
(* whatever writes of other attachments came between its pages.             *)
ReadIsComplete ==
    \A t \in Threads :
        result[t] = "ok" /\ job[t].op = "read" /\ t \notin disturbed
            => /\ ToSet(found[t]) = expected[t]
               /\ Len(found[t]) = Cardinality(expected[t])
               /\ \A i, j \in DOMAIN found[t] : i < j => found[t][i].index <= found[t][j].index

(* The first sibling reported is at the nearest of all siblings' chunks,    *)
(* one is reported if any sibling has chunks, and none is reported twice,   *)
(* although the limit counts chunks and the searched document's own chunks  *)
(* are nearer than any other.                                               *)
NearestSiblingFirst ==
    \A t \in Threads :
        result[t] = "ok" /\ job[t].op = "siblings"
            => /\ found[t] = <<>> <=> expected[t] = {}
               /\ \A o \in expected[t] : Far(found[t][1]) <= Far(o)
               /\ \A i, j \in DOMAIN found[t] : i # j => found[t][i].att # found[t][j].att

(* Every operation that began ends: paging does not go on for ever.         *)
OperationsEnd == \A t \in Threads : pc[t] = "check" ~> pc[t] = "done"

=============================================================================

---------------------------- MODULE MCChunkStore ----------------------------
(***************************************************************************)
(* An instance of ChunkStore: two attachments of one plan and one of       *)
(* another plan of the same tenant.  At once there are two uploads that    *)
(* register one tenant; a read, a delete of what it reads and an upload    *)
(* elsewhere; a search, an upload of what it should find and a probe of    *)
(* the client.  Attachment a1 may have been stored by an earlier process   *)
(* with three chunks: a full page and a short one.                         *)
(***************************************************************************)
EXTENDS ChunkStore

CONSTANTS e1, t1, t2, t3, a1, a2, a3, ten, p1, p2

MCTenant   == [a \in {a1, a2, a3} |-> ten]
MCPlan     == a1 :> p1 @@ a2 :> p1 @@ a3 :> p2
MCSize     == t1 :> 2 @@ t2 :> 2 @@ t3 :> 0
MCDistance == a1 :> <<0, 0, 0>> @@ a2 :> <<2, 1, 3>> @@ a3 :> <<1, 1, 1>>

Task(op, a) == [op |-> op, att |-> a]

Work(j, k, l) == t1 :> j @@ t2 :> k @@ t3 :> l

MCWorkloads == {
    Work(Task("upsert", a1), Task("upsert", a2), None),
    Work(Task("upsert", a2), Task("delete", a1), Task("read", a1)),
    Work(Task("siblings", a1), Task("upsert", a2), Task("probe", a3)) }

Chunks(a, n) == [i \in 1..n |-> [att |-> a, index |-> i - 1, by |-> e1]]

MCStored == {<<>>, Chunks(a3, 1) \o Chunks(a1, 3) \o Chunks(a2, 1)}
=============================================================================

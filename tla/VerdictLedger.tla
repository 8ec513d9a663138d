---------------------------- MODULE VerdictLedger ----------------------------
(***************************************************************************)
(* What POST /v1/integrity/analyze promises about the verdicts it hands    *)
(* out, without pipeline, threads, vector store or rescans.  Each call     *)
(* works towards one verdict for the bytes it names.  The ledger keeps the *)
(* verdicts that were saved; a saved verdict may later be counted in the   *)
(* tenant's audit.  A call is told                                         *)
(*   - that it was refused, with nothing saved,                            *)
(*   - its own verdict as final, only once it is saved and counted,        *)
(*   - a saved verdict for the same bytes,                                 *)
(*   - a degraded verdict, which is never saved, or                        *)
(*   - the fallback, which says nothing about its verdict: work begun for  *)
(*     it may still be saved and counted.                                  *)
(***************************************************************************)
CONSTANTS Requests, Contents, None

VARIABLES ledger, key, reply, source

vars == <<ledger, key, reply, source>>

Init ==
    /\ ledger = [r \in Requests |-> "unsaved"]
    /\ key = [r \in Requests |-> None]
    /\ reply = [r \in Requests |-> "none"]
    /\ source = [r \in Requests |-> None]

Name(r, c) ==
    /\ key[r] = None
    /\ reply[r] = "none"
    /\ key' = [key EXCEPT ![r] = c]
    /\ UNCHANGED <<ledger, reply, source>>

Save(r) ==
    /\ key[r] # None
    /\ ledger[r] = "unsaved"
    /\ reply[r] \in {"none", "fallback"}
    /\ ledger' = [ledger EXCEPT ![r] = "saved"]
    /\ UNCHANGED <<key, source>>

Tally(r) ==
    /\ ledger[r] = "saved"
    /\ reply[r] \in {"none", "fallback"}
    /\ ledger' = [ledger EXCEPT ![r] = "counted"]
    /\ UNCHANGED <<key, source>>

(* A write and the reply it leads to may be one step. *)
Keep(r) == UNCHANGED reply
Fallback(r) == reply[r] = "none" /\ reply' = [reply EXCEPT ![r] = "fallback"]
Final(r) == /\ reply[r] = "none"
            /\ ledger'[r] = "counted"
            /\ reply' = [reply EXCEPT ![r] = "full"]

Refuse(r, kind) ==
    /\ reply[r] = "none"
    /\ ledger[r] = "unsaved"
    /\ kind \in {"400", "502", "500", "degraded"}
    /\ kind \in {"400", "502"} => key[r] = None
    /\ kind = "degraded" => key[r] # None
    /\ reply' = [reply EXCEPT ![r] = kind]
    /\ UNCHANGED <<ledger, key, source>>

Hit(r, v) ==
    /\ reply[r] = "none"
    /\ ledger[r] = "unsaved"
    /\ key[r] # None
    /\ key[v] = key[r]
    /\ ledger[v] # "unsaved"
    /\ reply' = [reply EXCEPT ![r] = "hit"]
    /\ source' = [source EXCEPT ![r] = v]
    /\ UNCHANGED <<ledger, key>>

Give(r) ==
    /\ UNCHANGED <<ledger, key, source>>
    /\ Fallback(r) \/ Final(r)

Next == \E r \in Requests :
    \/ \E c \in Contents : Name(r, c)
    \/ Save(r) /\ (Keep(r) \/ Fallback(r))
    \/ Tally(r) /\ (Keep(r) \/ Fallback(r) \/ Final(r))
    \/ Give(r)
    \/ \E kind \in {"400", "502", "500", "degraded"} : Refuse(r, kind)
    \/ \E v \in Requests : Hit(r, v)

Spec == Init /\ [][Next]_vars
=============================================================================

-------------------------- MODULE RegistryContract --------------------------
(***************************************************************************)
(* What a caller of the agent registry client may rely on: the settings of *)
(* one guest are a register, and a request is put to it once, or at some   *)
(* time, or perhaps never.                                                 *)
(***************************************************************************)
CONSTANTS Request, Doc, NoDoc

VARIABLES
    doc,     \* the settings document, NoDoc when there is none
    phase,   \* phase[r]: "unsent", "open", "ok" or "failed"
    ask,     \* ask[r]: what is asked: [op, value]
    took,    \* took[r]: the request has had its effect
    seen     \* seen[r]: the document its last reading met

contract == <<doc, phase, ask, took, seen>>

Init ==
    /\ doc \in Doc
    /\ phase = [r \in Request |-> "unsent"]
    /\ ask = [r \in Request |-> [op |-> "none", value |-> NoDoc]]
    /\ took = [r \in Request |-> FALSE]
    /\ seen = [r \in Request |-> NoDoc]

Ask(r) ==
    /\ phase[r] = "unsent" /\ phase' = [phase EXCEPT ![r] = "open"]
    /\ \E a \in {ask'[r]} : ask' = [ask EXCEPT ![r] = a]
    /\ UNCHANGED <<doc, took, seen>>

\* A put has its effect at most once, and not after it was answered.  One
\* that failed may still have it, at any later time.
Put(r) ==
    /\ phase[r] \in {"open", "failed"} /\ ask[r].op = "put" /\ ~took[r]
    /\ doc' = ask[r].value
    /\ took' = [took EXCEPT ![r] = TRUE]
    /\ UNCHANGED <<phase, ask, seen>>

\* A delete may have its effect again and again, even after its success.
Delete(r) ==
    /\ phase[r] # "unsent" /\ ask[r].op = "delete"
    /\ doc' = NoDoc
    /\ took' = [took EXCEPT ![r] = @ \/ doc # NoDoc]
    /\ UNCHANGED <<phase, ask, seen>>

Read(r) ==
    /\ phase[r] = "open" /\ ask[r].op \in {"get", "exists"}
    /\ seen' = [seen EXCEPT ![r] = doc]
    /\ took' = [took EXCEPT ![r] = TRUE]
    /\ UNCHANGED <<doc, phase, ask>>

\* A success is never made up: the request took effect while it was open,
\* and what a get returns was the document at some time of the call.
Succeed(r) ==
    /\ phase[r] = "open" /\ took[r]
    /\ ask[r].op = "get" => seen[r] # NoDoc
    /\ phase' = [phase EXCEPT ![r] = "ok"]
    /\ UNCHANGED <<doc, ask, took, seen>>

Fail(r) ==
    /\ phase[r] = "open"
    /\ phase' = [phase EXCEPT ![r] = "failed"]
    /\ UNCHANGED <<doc, ask, took, seen>>

Next ==
    \E r \in Request :
        Ask(r) \/ Put(r) \/ Delete(r) \/ Read(r) \/ Succeed(r) \/ Fail(r)

Spec == Init /\ [][Next]_contract
=============================================================================

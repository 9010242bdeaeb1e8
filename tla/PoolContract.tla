---------------------------- MODULE PoolContract ----------------------------
(***************************************************************************)
(* What a caller of the pool client may rely on: the pool is a table of    *)
(* guests, a request changes it once, or at some time, or perhaps never,   *)
(* and an order takes a free guest away from all the others.               *)
(***************************************************************************)
CONSTANTS Request, Guest, NoEntry, None

VARIABLES
    pool,    \* pool[g]: the entry [state, spec] of a guest, or NoEntry
    phase,   \* phase[r]: "unsent", "open", "ok", "notFound" or "failed"
    body,    \* body[r]: what is asked: [op, guest, state, spec]
    took,    \* took[r]: the request has had its effect
    got,     \* got[r]: the guest an order took
    missed   \* missed[r]: while it was open the request met no entry

contract == <<pool, phase, body, took, got, missed>>

Init ==
    /\ pool \in [Guest -> {pool[g] : g \in Guest}]
    /\ phase = [r \in Request |-> "unsent"]
    /\ body = [r \in Request |-> None]
    /\ took = [r \in Request |-> FALSE]
    /\ got = [r \in Request |-> None]
    /\ missed = [r \in Request |-> FALSE]

Ask(r) ==
    /\ phase[r] = "unsent" /\ phase' = [phase EXCEPT ![r] = "open"]
    /\ \E b \in {body'[r]} : body' = [body EXCEPT ![r] = b]
    /\ UNCHANGED <<pool, took, got, missed>>

Asked(r, ops) == phase[r] # "unsent" /\ body[r].op \in ops

\* Nothing is done twice, nor after the request was answered; one that
\* failed may still be carried out, at any later time.
Pending(r, ops) ==
    /\ Asked(r, ops) /\ phase[r] \in {"open", "failed"} /\ ~took[r]
    /\ took' = [took EXCEPT ![r] = TRUE]
    /\ UNCHANGED <<phase, body, missed>>

Fits(g, filter) ==
    /\ pool[g] # NoEntry /\ pool[g].state = "free"
    /\ pool[g].spec = filter.spec

Take(r) ==
    /\ Pending(r, {"order"})
    /\ \E g \in Guest :
          /\ Fits(g, body[r])
          /\ pool' = [pool EXCEPT ![g].state = "provisioning"]
          /\ got' = [got EXCEPT ![r] = g]

Put(r) ==
    /\ Pending(r, {"add", "update"})
    /\ body[r].op = "update" => pool[body[r].guest] # NoEntry
    /\ pool' = [pool EXCEPT ![body[r].guest] = [state |-> body[r].state, spec |-> body[r].spec]]
    /\ UNCHANGED got

SetState(r) ==
    /\ Pending(r, {"free"})
    /\ pool[body[r].guest] # NoEntry
    /\ pool' = [pool EXCEPT ![body[r].guest].state = body[r].state]
    /\ UNCHANGED got

Get(r) == Pending(r, {"get"}) /\ pool[body[r].guest] # NoEntry /\ UNCHANGED <<pool, got>>

Miss(r) ==
    /\ Asked(r, {"order", "get", "update", "free"}) /\ ~took[r]
    /\ IF body[r].op = "order" THEN \A g \in Guest : ~Fits(g, body[r])
       ELSE pool[body[r].guest] = NoEntry
    /\ missed' = [missed EXCEPT ![r] = TRUE]
    /\ UNCHANGED <<pool, phase, body, took, got>>

\* No answer is made up: a success had its effect, and what was not found
\* was not there.
Conclude(r, result) ==
    /\ phase[r] = "open" /\ phase' = [phase EXCEPT ![r] = result]
    /\ UNCHANGED <<pool, body, took, got, missed>>
Succeed(r)  == took[r] /\ Conclude(r, "ok")
NotFound(r) == missed[r] /\ ~took[r] /\ Conclude(r, "notFound")
Fail(r)     == Conclude(r, "failed")

Next ==
    \E r \in Request :
        \/ Ask(r) \/ Take(r) \/ Put(r) \/ SetState(r) \/ Get(r) \/ Miss(r)
        \/ Succeed(r) \/ NotFound(r) \/ Fail(r)

Spec == Init /\ [][Next]_contract
=============================================================================

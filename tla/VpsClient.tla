----------------------------- MODULE VpsClient ------------------------------
(***************************************************************************)
(* The generated client of the VPS server, which keeps the pool of guests, *)
(* and the two calls that use it: CreateInstanceFromVPS takes a guest that *)
(* is free, reloads it and reports it in use; DeleteInstanceFromVPS gives  *)
(* a guest back.  A request is sent once.  Its answer may be lost, may be  *)
(* one of a gateway, or may lack its body, and the request may reach the   *)
(* server after the client gave it up.                                     *)
(***************************************************************************)
EXTENDS Naturals, FiniteSets, FiniteSetsExt

CONSTANTS
    Call, Guest,
    Size,        \* what a guest is: records [cpu, memory, private, public]
    SizeOf,      \* SizeOf[g]: what the guest is at SoftLayer
    InPool,      \* guests the pool has at first
    Held,        \* guests that are VMs of the director at first
    First,       \* the call, before all others, that made these VMs
    NoEntry, None,
    MaxFaults    \* bound: answers lost or spoilt, processes killed

ASSUME VpsAssumption ==
    /\ SizeOf \in [Guest -> Size]
    /\ InPool \subseteq Guest /\ Held \subseteq Guest
    /\ First \notin Call
    /\ None \notin {"create", "delete", "free"}
    /\ MaxFaults \in Nat

VARIABLES
    pool,     \* pool[g]: the entry [state, spec] of a guest, or NoEntry
    kind,     \* kind[c]: "create" or "delete", None before it starts
    want,     \* want[c]: the size a create asks for
    vm,       \* vm[c]: the guest the call works on, None until it knows it
    maker,    \* maker[c]: the create whose VM a delete deletes
    pc,       \* pc[c]: the request or the step the call is at, or its end
    phase,    \* phase[r]: request r = <<c, op>>, as the contract has it
    body,     \* body[r]: what it asks
    conn,     \* conn[c]: None, Sent, or the answer [code, vm, text]
    late,     \* requests given up that may still reach the server
    took, got, missed,   \* what the server did for each request
    users,    \* users[g]: the creates whose VM, for the director, is g
    faults

Op      == {"order", "update", "get", "add", "free"}
Request == Call \X Op

server   == <<pool, took, got, missed>>
identity == <<kind, want, maker>>
vars     == <<pool, kind, want, vm, maker, pc, phase, body, conn, late, took,
              got, missed, users, faults>>

Reply(code, g) == [code |-> code, vm |-> g, text |-> "whole"]
Sent           == Reply(0, None)    \* no answer yet
Replies        == [code : {0, 200, 202, 404, 502}, vm : Guest \cup {None},
                   text : {"whole", "none", "cut"}]
ASSUME NoReplyAssumption == None \notin Replies

Ended     == {"idle", "ok", "failed", "crashed"}
Active(c) == pc[c] \notin Ended

Init ==
    /\ pool = [g \in Guest |-> IF g \notin InPool THEN NoEntry
                 ELSE [state |-> IF g \in Held THEN "using" ELSE "free", spec |-> SizeOf[g]]]
    /\ kind = [c \in Call |-> None]
    /\ want = [c \in Call |-> None]
    /\ vm = [c \in Call |-> None]
    /\ maker = [c \in Call |-> None]
    /\ pc = [c \in Call |-> "idle"]
    /\ phase = [r \in Request |-> "unsent"]
    /\ body = [r \in Request |-> None]
    /\ conn = [c \in Call |-> None]
    /\ late = {}
    /\ took = [r \in Request |-> FALSE]
    /\ got = [r \in Request |-> None]
    /\ missed = [r \in Request |-> FALSE]
    /\ users = [g \in Guest |-> IF g \in Held THEN {First} ELSE {}]
    /\ faults = 0

Create(c, size) ==
    /\ kind[c] = None
    /\ kind' = [kind EXCEPT ![c] = "create"]
    /\ want' = [want EXCEPT ![c] = size]
    /\ pc' = [pc EXCEPT ![c] = "order"]
    /\ UNCHANGED <<server, vm, maker, phase, body, conn, late, users, faults>>

\* The director deletes a VM it has, and once more when that failed.
Delete(c, g, u) ==
    /\ kind[c] = None
    /\ u \in users[g]
    /\ \A d \in Call : ~(kind[d] = "delete" /\ vm[d] = g /\ Active(d))
    /\ kind' = [kind EXCEPT ![c] = "delete"]
    /\ vm' = [vm EXCEPT ![c] = g]
    /\ maker' = [maker EXCEPT ![c] = u]
    /\ pc' = [pc EXCEPT ![c] = "get"]
    /\ UNCHANGED <<server, want, phase, body, conn, late, users, faults>>

-----------------------------------------------------------------------------
(* What the requests say: the parameters and the models of the client.     *)

Entry(op, g, state, spec) == [op |-> op, guest |-> g, state |-> state, spec |-> spec]
\* Fields that are not set are left out of the JSON.
VMFilter(state, spec) == Entry("order", None, state, spec)
VMState(g, state)     == Entry("free", g, state, None)

OrderAnyVM(c) == VMFilter(None, want[c])    \* State forgotten
OrderVMByFilterParams(c) == VMFilter("free", want[c])

UpdateVMFree(c) == Entry("update", vm[c], "free", SizeOf[vm[c]])    \* as in the delete
UpdateVMParams(c)          == Entry("update", vm[c], "using", SizeOf[vm[c]])
GetVMByCidParams(c)        == Entry("get", vm[c], None, None)
AddVMSwapped(c) ==    \* one VLAN for the other
    LET s == SizeOf[vm[c]] IN
    Entry("add", vm[c], "free", [s EXCEPT !.private = s.public, !.public = s.private])
AddVMParams(c)             == Entry("add", vm[c], "free", SizeOf[vm[c]])
UpdateVMWithStateParams(c) == VMState(vm[c], "free")

Params(c) ==
    CASE pc[c] = "order"  -> OrderVMByFilterParams(c)
      [] pc[c] = "update" -> UpdateVMParams(c)
      [] pc[c] = "get"    -> GetVMByCidParams(c)
      [] pc[c] = "add"    -> AddVMParams(c)
      [] pc[c] = "free"   -> UpdateVMWithStateParams(c)

Submit(c) ==
    /\ pc[c] \in Op /\ phase[<<c, pc[c]>>] = "unsent"
    /\ phase' = [phase EXCEPT ![<<c, pc[c]>>] = "open"]
    /\ body' = [body EXCEPT ![<<c, pc[c]>>] = Params(c)]
    /\ conn' = [conn EXCEPT ![c] = Sent]
    /\ UNCHANGED <<server, identity, vm, pc, late, users, faults>>

-----------------------------------------------------------------------------
(* The VPS server, as the client's documentation of its operations has it. *)

Answered(c) == conn[c] \notin {None, Sent}
Faulty      == faults < MaxFaults /\ faults' = faults + 1

Offered(g, filter) ==
    /\ pool[g] # NoEntry
    /\ filter.state = None \/ pool[g].state = filter.state
    /\ pool[g].spec = filter.spec

\* Changes the pool and gives the reply.
Carry(r, reply) ==
    LET b == body[r]
        done(p, g) == pool' = p /\ got' = [got EXCEPT ![r] = g] /\ reply = Reply(200, g)
                        /\ took' = [took EXCEPT ![r] = TRUE] /\ UNCHANGED missed
        absent     == reply = Reply(404, None) /\ missed' = [missed EXCEPT ![r] = TRUE]
                        /\ UNCHANGED <<pool, took, got>>
        known      == pool[b.guest] # NoEntry
    IN  \/ /\ b.op = "order"
           /\ \E g \in Guest : Offered(g, b)
                                 /\ done([pool EXCEPT ![g].state = "provisioning"], g)
        \/ b.op = "order" /\ (\A g \in Guest : ~Offered(g, b)) /\ absent
        \/ /\ b.op = "add" \/ (b.op = "update" /\ known)
           /\ done([pool EXCEPT ![b.guest] = [state |-> b.state, spec |-> b.spec]], None)
        \/ b.op = "free" /\ known /\ done([pool EXCEPT ![b.guest].state = b.state], None)
        \/ b.op = "get" /\ known /\ done(pool, None)
        \/ b.op \in {"update", "free", "get"} /\ ~known /\ absent

Serve(c) ==
    /\ conn[c] = Sent
    /\ \E code \in {200, 404}, g \in Guest \cup {None} :
          /\ Carry(<<c, pc[c]>>, Reply(code, g))
          /\ conn' = [conn EXCEPT ![c] = Reply(code, g)]
    /\ UNCHANGED <<identity, vm, pc, phase, body, late, users, faults>>

ServeLate(r) ==
    /\ r \in late /\ late' = late \ {r}
    /\ \E code \in {200, 404}, g \in Guest \cup {None} : Carry(r, Reply(code, g))
    /\ UNCHANGED <<identity, vm, pc, phase, body, conn, users, faults>>

\* A gateway answers for the server, or the answer's body is cut or lost.
Spoil(c) ==
    /\ Faulty
    /\ \/ /\ conn[c] # None
          /\ \E code \in {202, 502} : conn' = [conn EXCEPT ![c] = Reply(code, None)]
          /\ late' = IF conn[c] = Sent THEN late \cup {<<c, pc[c]>>} ELSE late
       \/ /\ UNCHANGED late
          /\ Answered(c) /\ conn[c].code = 200
          /\ \E text \in {"none", "cut"} : conn' = [conn EXCEPT ![c].text = text]
    /\ UNCHANGED <<server, identity, vm, pc, phase, body, users>>

-----------------------------------------------------------------------------
(* How the answers are read.  A body that is missing is none (io.EOF is    *)
(* passed over), one that cannot be decoded is an error; every code that   *)
(* the operation does not list is an error, also one of success.           *)

Read(answer, codes) ==
    CASE answer.code = 200 -> IF answer.text = "cut" THEN "error" ELSE "ok"
      [] answer.code = 404 /\ 404 \in codes -> "notFound"
      [] OTHER -> "error"

OrderTakingAll(answer) ==    \* an error for "not found"
    IF Read(answer, {404}) = "error" THEN "notFound" ELSE Read(answer, {404})
OrderVMByFilterReader(answer)   == Read(answer, {404})
UpdateVMReader(answer)          == Read(answer, {404})
GetVMByCidReader(answer)        == Read(answer, {404})
AddVMReader(answer)             == Read(answer, {})
UpdateVMWithStateReader(answer) == Read(answer, {404})

Reader(op, answer) ==
    CASE op = "order"  -> OrderVMByFilterReader(answer)
      [] op = "update" -> UpdateVMReader(answer)
      [] op = "get"    -> GetVMByCidReader(answer)
      [] op = "add"    -> AddVMReader(answer)
      [] op = "free"   -> UpdateVMWithStateReader(answer)

\* The contract's word for a result of the call's request.
Phase(result) == IF result = "error" THEN "failed" ELSE result

\* The call reads the answer to op and goes on to next.
Answer(c, op, result, next) ==
    /\ pc[c] = op /\ Answered(c)
    /\ Reader(op, conn[c]) = result
    /\ phase' = [phase EXCEPT ![<<c, op>>] = Phase(result)]
    /\ conn' = [conn EXCEPT ![c] = None]
    /\ pc' = [pc EXCEPT ![c] = next]
    /\ UNCHANGED <<server, identity, body, late, faults>>

-----------------------------------------------------------------------------
(* CreateInstanceFromVPS.                                                  *)

\* Without a body in the answer there is no vm: (*vm).Cid panics.
Ordered(c) ==
    /\ \/ Answer(c, "order", "ok", IF conn[c].text = "none" THEN "crashed" ELSE "reload")
       \/ Answer(c, "order", "notFound", "createBySoftlayer")
       \/ Answer(c, "order", "error", "failed")
    /\ vm' = [vm EXCEPT ![c] = IF pc'[c] = "reload" THEN conn[c].vm ELSE None]
    /\ UNCHANGED users

\* No guest of the pool fits: one is ordered from SoftLayer.  The IP of the
\* template, which nothing sets, is read next: the process panics, and the
\* guest is neither the director's nor the pool's.
CreateBySoftlayer(c) ==
    /\ pc[c] = "createBySoftlayer"
    /\ pc' = [pc EXCEPT ![c] = "failed"] \/ pc' = [pc EXCEPT ![c] = "crashed"]
    /\ UNCHANGED <<server, identity, vm, phase, body, conn, late, users, faults>>

\* ReloadInstance and GetInstance; an error of theirs ends the call.
Reload(c) ==
    /\ pc[c] = "reload"
    /\ \/ pc' = [pc EXCEPT ![c] = "update"] /\ UNCHANGED faults
       \/ pc' = [pc EXCEPT ![c] = "failed"] /\ Faulty
    /\ UNCHANGED <<server, identity, vm, phase, body, conn, late, users>>

Updated(c) ==
    /\ \/ /\ Answer(c, "update", "ok", "ok")
          /\ users' = [users EXCEPT ![vm[c]] = @ \cup {c}]
       \/ /\ \E result \in {"notFound", "error"} : Answer(c, "update", result, "failed")
          /\ UNCHANGED users
    /\ UNCHANGED vm

-----------------------------------------------------------------------------
(* DeleteInstanceFromVPS.                                                  *)

Given(c) == users' = [users EXCEPT ![vm[c]] = @ \ {maker[c]}] /\ UNCHANGED vm

\* A guest that the pool does not know is read at SoftLayer and added.
Looked(c) ==
    /\ \/ Answer(c, "get", "ok", "free")
       \/ Answer(c, "get", "notFound", "add")
       \/ Answer(c, "get", "error", "failed")
    /\ UNCHANGED <<vm, users>>

Added(c) ==
    \/ Answer(c, "add", "ok", "ok") /\ Given(c)
    \/ Answer(c, "add", "error", "failed") /\ UNCHANGED <<vm, users>>

Freed(c) ==
    \/ Answer(c, "free", "ok", "ok") /\ Given(c)
    \/ /\ \E result \in {"notFound", "error"} : Answer(c, "free", result, "failed")
       /\ UNCHANGED <<vm, users>>

-----------------------------------------------------------------------------
\* The client gives up (the answer takes longer than 30 s, the connection
\* breaks), or the process is killed.
GiveUp(c) ==
    /\ Active(c) /\ Faulty
    /\ conn[c] # None \/ pc[c] \notin Op
    /\ pc' = [pc EXCEPT ![c] = "failed"]
    /\ phase' = IF conn[c] = None THEN phase ELSE [phase EXCEPT ![<<c, pc[c]>>] = "failed"]
    /\ late' = IF conn[c] = Sent THEN late \cup {<<c, pc[c]>>} ELSE late
    /\ conn' = [conn EXCEPT ![c] = None]
    /\ UNCHANGED <<server, identity, vm, body, users>>

AllDone == (\A c \in Call : kind[c] # None /\ ~Active(c)) /\ UNCHANGED vars

Next ==
    \/ \E c \in Call, s \in Size : Create(c, s)
    \/ \E c \in Call, g \in Guest : \E u \in users[g] : Delete(c, g, u)
    \/ \E c \in Call :
          \/ Submit(c) \/ Serve(c) \/ Spoil(c) \/ GiveUp(c)
          \/ Ordered(c) \/ CreateBySoftlayer(c) \/ Reload(c) \/ Updated(c)
          \/ Looked(c) \/ Added(c) \/ Freed(c)
    \/ \E r \in late : ServeLate(r)
    \/ AllDone

Spec == Init /\ [][Next]_vars

-----------------------------------------------------------------------------
(* Properties.                                                             *)

\* Types of the variables.
TypeOK ==
    /\ \A g \in Guest : pool[g] # NoEntry =>
          pool[g].state \in {"free", "provisioning", "using"} /\ pool[g].spec \in Size
    /\ kind \in [Call -> {None, "create", "delete"}]
    /\ vm \in [Call -> Guest \cup {None}]
    /\ pc \in [Call -> Ended \cup Op \cup {"reload", "createBySoftlayer"}]
    /\ phase \in [Request -> {"unsent", "open", "ok", "notFound", "failed"}]
    /\ \A c \in Call : Answered(c) => conn[c].code \in {200, 202, 404, 502}
    /\ late \subseteq Request
    /\ users \in [Guest -> SUBSET (Call \cup {First})]
    /\ faults \in 0..MaxFaults

\* The client keeps what PoolContract promises: nothing is done twice, a
\* success had its effect, and what was not found was not there.
Contract == INSTANCE PoolContract
KeepsPoolContract == Contract!Spec

\* A guest whose delete_vm failed once its entry was to be freed: the
\* director has it still, and the pool may offer it.
Doubtful ==
    {vm[c] : c \in {c \in Call : kind[c] = "delete" /\ pc[c] = "failed"
                      /\ {phase[<<c, "add">>], phase[<<c, "free">>]} # {"unsent"}}}

\* The VMs of a guest that no delete_vm gives back at the moment.
Kept(g) == users[g] \ {maker[c] : c \in {c \in Call : Active(c) /\ vm[c] = g}}

\* A guest is one VM of the director, unless a delete_vm of it failed.
NoGuestIsShared == \A g \in Guest \ Doubtful : Cardinality(Kept(g)) <= 1

\* The pool does not offer a guest that is a VM of the director, unless a
\* delete_vm of it failed.
HeldIsNotOffered ==
    \A g \in Guest \ Doubtful :
        Kept(g) # {} /\ pool[g] # NoEntry => pool[g].state # "free"

\* A VM made of a guest of the pool has the processors, the memory and the
\* VLANs that were asked for.
SizeIsAsked ==
    \A g \in Guest : \A c \in users[g] \ {First} : SizeOf[g] = want[c]
=============================================================================

--------------------------- MODULE VpsClientProofs ---------------------------
(* Proofs about VpsClient, for any number of calls, guests, sizes and      *)
(* faults: the client keeps PoolContract, no guest is two VMs, none that   *)
(* is a VM is offered, and a VM has the size that was asked for.           *)
EXTENDS VpsClient, FiniteSetTheorems, TLAPS

-----------------------------------------------------------------------------
(* The inductive invariant.                                                *)

States == {"free", "provisioning", "using"}

TypeInv ==
    /\ pool \in [Guest -> [state : States, spec : Size] \cup {NoEntry}]
    /\ kind \in [Call -> {None, "create", "delete"}]
    /\ want \in [Call -> Size \cup {None}]
    /\ vm \in [Call -> Guest \cup {None}]
    /\ maker \in [Call -> Call \cup {First, None}]
    /\ pc \in [Call -> Ended \cup Op \cup {"reload", "createBySoftlayer"}]
    /\ phase \in [Request -> {"unsent", "open", "ok", "notFound", "failed"}]
    /\ DOMAIN body = Request
    /\ conn \in [Call -> Replies \cup {None}]
    /\ late \subseteq Request
    /\ took \in [Request -> BOOLEAN]
    /\ missed \in [Request -> BOOLEAN]
    /\ got \in [Request -> Guest \cup {None}]
    /\ users \in [Guest -> SUBSET (Call \cup {First})]
    /\ faults \in 0..MaxFaults

\* Where a call of each kind may be, and which requests it has made by then.
Course(c) ==
    /\ pc[c] = "idle" <=> kind[c] = None
    /\ kind[c] = "create" =>
          /\ pc[c] \in {"order", "createBySoftlayer", "reload", "update", "ok", "failed", "crashed"}
          /\ want[c] \in Size
    /\ kind[c] = "delete" => pc[c] \in {"get", "add", "free", "ok", "failed"} /\ vm[c] \in Guest
    /\ kind[c] # "create" => phase[<<c, "order">>] = "unsent" /\ phase[<<c, "update">>] = "unsent"
    /\ kind[c] # "delete" => phase[<<c, "get">>] = "unsent" /\ phase[<<c, "add">>] = "unsent"
                             /\ phase[<<c, "free">>] = "unsent"
    /\ pc[c] \in {"order", "createBySoftlayer", "reload"} => phase[<<c, "update">>] = "unsent"
    /\ pc[c] \in {"get", "add"} => phase[<<c, "free">>] = "unsent"
    /\ pc[c] \in {"get", "free"} => phase[<<c, "add">>] = "unsent"
    /\ pc[c] \in {"reload", "update"} =>
          vm[c] \in Guest /\ took[<<c, "order">>] /\ got[<<c, "order">>] = vm[c]

\* The connection of a call is that of its open request, and tells what the
\* server did.
Connection(c) ==
    /\ \A op \in Op : phase[<<c, op>>] = "open" => pc[c] = op /\ conn[c] # None
    /\ \A op \in Op : phase[<<c, op>>] = "failed" => pc[c] = "failed"
    /\ conn[c] # None =>
          /\ pc[c] \in Op /\ phase[<<c, pc[c]>>] = "open"
          /\ conn[c] = Sent => ~took[<<c, pc[c]>>] /\ <<c, pc[c]>> \notin late
          /\ conn[c].code = 0 => conn[c] = Sent
          /\ conn[c].code = 200 => took[<<c, pc[c]>>] /\ <<c, pc[c]>> \notin late
          /\ conn[c].code = 404 => missed[<<c, pc[c]>>] /\ ~took[<<c, pc[c]>>]
                                   /\ <<c, pc[c]>> \notin late
          /\ conn[c].code = 200 /\ pc[c] = "order" => conn[c].vm = got[<<c, pc[c]>>]

\* What a request says, and what it may still bring about.
Effect(c, op) ==
    /\ phase[<<c, op>>] = "unsent" => ~took[<<c, op>>]
    /\ phase[<<c, op>>] # "unsent" =>
          /\ body[<<c, op>>].op = op
          /\ op = "order" => body[<<c, op>>].state = "free" /\ body[<<c, op>>].spec = want[c]
          /\ op # "order" => body[<<c, op>>].guest = vm[c] /\ vm[c] \in Guest
          /\ op = "update" => body[<<c, op>>].state = "using"
          /\ op \in {"add", "free"} => body[<<c, op>>].state = "free"
          /\ op \in {"add", "update"} => body[<<c, op>>].spec = SizeOf[vm[c]]
    /\ ~took[<<c, op>>] \/ op # "order" => got[<<c, op>>] = None
    /\ took[<<c, op>>] /\ op = "order" =>
          got[<<c, op>>] \in Guest /\ SizeOf[got[<<c, op>>]] = want[c]
    /\ <<c, op>> \in late => ~took[<<c, op>>] /\ phase[<<c, op>>] \in {"open", "failed"}

CallInv == \A c \in Call : Course(c) /\ Connection(c) /\ \A op \in Op : Effect(c, op)

\* An entry of the pool tells what the guest is.
SpecInv == \A g \in Guest : pool[g] # NoEntry => pool[g].spec = SizeOf[g]

\* A VM of the director was made by a create_vm that took its guest.
Makes(c, g) == took[<<c, "order">>] /\ got[<<c, "order">>] = g
UserInv == \A g \in Guest : \A c \in users[g] \ {First} : pc[c] = "ok" /\ kind[c] = "create" /\ Makes(c, g)

\* One delete_vm at a time gives a guest back, and the director has the VM
\* until it is answered.
Deletes(d, g) == kind[d] = "delete" /\ Active(d) /\ vm[d] = g
DeleteInv ==
    /\ \A g \in Guest : \A d, e \in Call : Deletes(d, g) /\ Deletes(e, g) => d = e
    /\ \A g \in Guest : \A d \in Call : Deletes(d, g) => maker[d] \in users[g]

\* The calls that have a claim to a guest: the create_vm whose VM it is or
\* that took it and has not come to its end, or has lost it.  The claim ends
\* when the pool has the guest back.
Returned(d) == took[<<d, "add">>] \/ took[<<d, "free">>]
Claims(c, g) ==
    /\ c \in users[g] \/ (c \in Call /\ Makes(c, g) /\ pc[c] # "ok")
    /\ \A d \in Call : Deletes(d, g) /\ Returned(d) => maker[d] # c

\* A guest has one claim at most, and none while it is offered.
Claimed(g) ==
    /\ \A c, d \in Call \cup {First} : Claims(c, g) /\ Claims(d, g) => c = d
    /\ pool[g] # NoEntry /\ pool[g].state = "free" => \A c \in Call \cup {First} : ~Claims(c, g)
ClaimInv == \A g \in Guest \ Doubtful : Claimed(g)

VpsInv == TypeInv /\ CallInv /\ SpecInv /\ UserInv /\ DeleteInv /\ ClaimInv

-----------------------------------------------------------------------------
(* Lemmas about calls, answers and claims.                                 *)

\* The requests there are.
LEMMA OpsAre == Op = {"order", "update", "get", "add", "free"}
BY DEF Op

\* No answer is none.
LEMMA ReplyIsSome ==
  /\ \A code \in {0, 200, 202, 404, 502}, g \in Guest \cup {None} :
        Reply(code, g) \in Replies /\ Reply(code, g) # None
        /\ Reply(code, g).code = code /\ Reply(code, g).vm = g
  /\ Sent \in Replies /\ Sent # None /\ Sent.code = 0
  /\ \A a \in Replies : a # None
BY NoReplyAssumption DEF Reply, Sent, Replies

\* How an answer is read.
LEMMA Reads ==
  ASSUME NEW op \in Op, NEW answer \in Replies
  PROVE  /\ Reader(op, answer) \in {"ok", "notFound", "error"}
         /\ Reader(op, answer) = "ok" => answer.code = 200
         /\ Reader(op, answer) = "notFound" => answer.code = 404 /\ op # "add"
<1>1. \A codes : /\ Read(answer, codes) \in {"ok", "notFound", "error"}
                 /\ Read(answer, codes) = "ok" => answer.code = 200
                 /\ Read(answer, codes) = "notFound" => answer.code = 404 /\ 404 \in codes
  BY DEF Read
<1>2. \E codes : Reader(op, answer) = Read(answer, codes) /\ (op = "add" => codes = {})
  BY DEF Op, Reader, OrderVMByFilterReader, UpdateVMReader, GetVMByCidReader, AddVMReader,
    UpdateVMWithStateReader
<1> QED BY <1>1, <1>2

\* A guest is in doubt when a delete_vm of it failed after it told the pool.
Doubts(d, g) ==
    /\ kind[d] = "delete" /\ pc[d] = "failed" /\ vm[d] = g
    /\ phase[<<d, "add">>] # "unsent" \/ phase[<<d, "free">>] # "unsent"

\* The guests in doubt, before and after a step.
LEMMA DoubtfulIs ==
  ASSUME NEW g
  PROVE  /\ g \in Doubtful <=> \E d \in Call : Doubts(d, g)
         /\ g \in Doubtful' <=> \E d \in Call : Doubts(d, g)'
<1>1. \A a, b : {a, b} # {"unsent"} <=> a # "unsent" \/ b # "unsent"
  OBVIOUS
<1> QED BY <1>1 DEF Doubtful, Doubts

\* Of a call, nothing changes.
Same(x) ==
    /\ UNCHANGED <<kind[x], want[x], vm[x], maker[x], pc[x], conn[x]>>
    /\ \A o \in Op : /\ UNCHANGED <<phase[<<x, o>>], body[<<x, o>>], took[<<x, o>>],
                                    missed[<<x, o>>], got[<<x, o>>]>>
                     /\ <<x, o>> \in late' => <<x, o>> \in late

\* A call nothing of which changes stays as it has to be.
LEMMA OthersKept ==
  ASSUME CallInv, NEW x \in Call, Same(x)
  PROVE  Course(x)' /\ Connection(x)' /\ \A o \in Op : Effect(x, o)'
<1> USE DEF Same
<1>1. Course(x)'
  BY OpsAre DEF CallInv, Course
<1>2. Connection(x)'
  <2>1. Connection(x)
    BY DEF CallInv
  <2>2. conn[x] # None => pc[x] \in Op
    BY <2>1 DEF Connection
  <2> QED BY <2>1, <2>2 DEF Connection
<1>3. ASSUME NEW o \in Op PROVE Effect(x, o)'
  BY DEF CallInv, Effect
<1> QED BY <1>1, <1>2, <1>3

\* A call that moves on keeps the claims as they are, if it neither ends a
\* return of its guest nor begins one.
LEMMA QuietStep ==
  ASSUME TypeInv, UserInv, DeleteInv, SpecInv, ClaimInv, NEW c \in Call,
         \A x \in Call \ {c} : Same(x),
         UNCHANGED <<pool, users, took, got>>, pc[c] \notin {"ok", "failed"},
         \A g \in Guest : Deletes(c, g)' => Deletes(c, g) /\ maker'[c] = maker[c],
         \A g \in Guest : Deletes(c, g) /\ Returned(c) => Deletes(c, g)' \/ g \in Doubtful'
  PROVE  UserInv' /\ DeleteInv' /\ SpecInv' /\ ClaimInv'
<1>1. \A x \in Call \ {c} : \A g \in Guest : (Deletes(x, g)' <=> Deletes(x, g))
  BY DEF Same, Deletes, Active
<1>2. \A x \in Call : (Returned(x)' <=> Returned(x)) /\ \A g \in Guest : (Makes(x, g)' <=> Makes(x, g))
  BY DEF Returned, Makes
<1>3. UserInv'
  <2> SUFFICES ASSUME NEW g \in Guest, NEW x \in users[g] \ {First}
               PROVE  pc'[x] = "ok" /\ kind'[x] = "create" /\ Makes(x, g)'
    BY DEF UserInv
  <2>1. x \in Call /\ pc[x] = "ok" /\ kind[x] = "create" /\ Makes(x, g)
    BY DEF UserInv, TypeInv
  <2> QED BY <1>2, <2>1 DEF Same
<1>4. DeleteInv'
  <2>1. \A x \in Call : \A g \in Guest : Deletes(x, g)' => Deletes(x, g) /\ maker'[x] = maker[x]
    BY <1>1 DEF Same
  <2> QED BY <2>1 DEF DeleteInv
<1>5. SpecInv'
  BY DEF SpecInv
<1>6. \A g \in Guest : g \in Doubtful => g \in Doubtful'
  <2>1. \A g \in Guest : \A d \in Call : Doubts(d, g) => Doubts(d, g)'
    BY OpsAre DEF Doubts, Same
  <2> QED BY <2>1, DoubtfulIs
<1>7. \A g \in Guest \ Doubtful' : \A x \in Call \cup {First} : Claims(x, g)' => Claims(x, g)
  <2> SUFFICES ASSUME NEW g \in Guest \ Doubtful', NEW x \in Call \cup {First}, Claims(x, g)'
               PROVE  Claims(x, g)
    OBVIOUS
  <2>1. x \in users[g] \/ (x \in Call /\ Makes(x, g) /\ pc[x] # "ok")
    <3>1. x \in Call /\ pc'[x] # "ok" => pc[x] # "ok"
      BY DEF Same
    <3> QED BY <1>2, <3>1 DEF Claims
  <2>2. ASSUME NEW d \in Call, Deletes(d, g), Returned(d) PROVE maker[d] # x
    <3>1. Deletes(d, g)' /\ Returned(d)'
      BY <1>1, <1>2, <2>2
    <3>2. maker'[d] = maker[d]
      BY <3>1 DEF Same
    <3> QED BY <3>1, <3>2 DEF Claims
  <2> QED BY <2>1, <2>2 DEF Claims
<1>8. ClaimInv'
  <2> SUFFICES ASSUME NEW g \in Guest, g \notin Doubtful' PROVE Claimed(g)'
    BY DEF ClaimInv
  <2>1. Claimed(g)
    BY <1>6 DEF ClaimInv
  <2> QED BY <1>7, <2>1 DEF Claimed
<1> QED BY <1>3, <1>4, <1>5, <1>8

\* What the requests of a call say.
LEMMA ParamsAre ==
  ASSUME NEW c \in Call, pc[c] \in Op
  PROVE  /\ Params(c).op = pc[c]
         /\ pc[c] = "order" => Params(c).state = "free" /\ Params(c).spec = want[c]
         /\ pc[c] # "order" => Params(c).guest = vm[c]
         /\ pc[c] = "update" => Params(c).state = "using"
         /\ pc[c] \in {"add", "free"} => Params(c).state = "free"
         /\ pc[c] \in {"add", "update"} => Params(c).spec = SizeOf[vm[c]]
BY DEF Op, Params, Entry, VMFilter, VMState, OrderVMByFilterParams, UpdateVMParams,
   GetVMByCidParams, AddVMParams, UpdateVMWithStateParams

\* Each kind of call makes its own requests.
LEMMA Kinds ==
  ASSUME VpsInv, NEW c \in Call
  PROVE  /\ pc[c] \in {"order", "update", "reload", "createBySoftlayer"} => kind[c] = "create"
         /\ pc[c] \in {"get", "add", "free"} => kind[c] = "delete"
         /\ kind[c] = "create" => kind[c] # "delete" /\ want[c] \in Size
         /\ pc[c] \in Op /\ pc[c] # "order" => vm[c] \in Guest
<1>1. kind[c] \in {None, "create", "delete"} /\ Course(c)
  BY DEF VpsInv, TypeInv, CallInv
<1> QED BY <1>1, OpsAre DEF Course

\* A call that has not begun has done nothing.
LEMMA IdleCall ==
  ASSUME VpsInv, NEW c \in Call, kind[c] = None
  PROVE  /\ pc[c] = "idle" /\ conn[c] = None /\ \A o \in Op : phase[<<c, o>>] = "unsent"
         /\ ~Returned(c)
<1>1. Course(c) /\ Connection(c) /\ \A o \in Op : Effect(c, o)
  BY DEF VpsInv, CallInv
<1>2. pc[c] = "idle" /\ kind[c] # "create" /\ kind[c] # "delete"
  BY <1>1, VpsAssumption DEF Course
<1>3. \A o \in Op : phase[<<c, o>>] = "unsent"
  BY <1>1, <1>2, OpsAre DEF Course
<1>4. conn[c] = None
  BY <1>1, <1>2, OpsAre DEF Connection
<1>5. ~Returned(c)
  BY <1>1, <1>3, OpsAre DEF Effect, Returned
<1> QED BY <1>2, <1>3, <1>4, <1>5

\* The answer a is what a spoilt connection brings: it tells nothing new, and
\* a request whose answer a gateway gave may still be carried out.
Spoils(c, a) ==
    /\ conn[c] # None /\ conn' = [conn EXCEPT ![c] = a]
    /\ a.code # 0
    /\ a.code \in {202, 502} \/ (a.code = conn[c].code /\ a.vm = conn[c].vm)
    /\ late' \subseteq late \cup {<<c, pc[c]>>}
    /\ ~(conn[c] = Sent /\ a.code \in {202, 502}) => UNCHANGED late

\* With this answer the call goes on to next, working on y, and the director
\* has the VMs it had.
GoesOn(c, op, result, next, y) ==
    /\ UNCHANGED users /\ vm' = [vm EXCEPT ![c] = y]
    /\ op # "order" => y = vm[c]
    /\ \/ result = "error" /\ next = "failed"
       \/ result = "notFound" /\ next = "failed" /\ op \in {"update", "free"}
       \/ result = "notFound" /\ next = "createBySoftlayer" /\ op = "order"
       \/ result = "notFound" /\ next = "add" /\ op = "get"
       \/ result = "ok" /\ next = "free" /\ op = "get"
       \/ result = "ok" /\ next = "crashed" /\ op = "order"
       \/ result = "ok" /\ next = "reload" /\ op = "order" /\ y = conn[c].vm

\* A create_vm that begins has no claim.
LEMMA CreateKeeps ==
  ASSUME VpsInv, NEW c \in Call, NEW s \in Size, Create(c, s)
  PROVE  VpsInv'
<1>1. kind[c] = None /\ pc[c] = "idle" /\ conn[c] = None /\ \A o \in Op : phase[<<c, o>>] = "unsent"
  BY IdleCall DEF Create
<1>2. UNCHANGED <<pool, vm, maker, phase, body, conn, late, took, missed, got, users,
          faults>>
  BY DEF Create, server, identity
<1>3. \A x \in Call : kind'[x] = IF x = c THEN "create" ELSE kind[x]
  BY <1>1 DEF VpsInv, TypeInv, Request, Create, server, identity
<1>4. \A x \in Call : want'[x] = IF x = c THEN s ELSE want[x]
  BY <1>1 DEF VpsInv, TypeInv, Request, Create, server, identity
<1>5. \A x \in Call : pc'[x] = IF x = c THEN "order" ELSE pc[x]
  BY <1>1 DEF VpsInv, TypeInv, Request, Create, server, identity
<1>6. TypeInv'
  <2>1. kind' \in [Call -> {None, "create", "delete"}]
    BY <1>1 DEF VpsInv, TypeInv, Request, Op, Create, server, identity
  <2>2. want' \in [Call -> Size \cup {None}]
    BY <1>1 DEF VpsInv, TypeInv, Request, Op, Create, server, identity
  <2>3. pc' \in [Call -> Ended \cup Op \cup {"reload", "createBySoftlayer"}]
    BY <1>1 DEF VpsInv, TypeInv, Request, Op, Create, server, identity
  <2> QED BY <1>2, <2>1, <2>2, <2>3 DEF VpsInv, TypeInv
<1>7. \A x \in Call \ {c} : Same(x)
  <2> SUFFICES ASSUME NEW x \in Call, x # c PROVE Same(x)
    OBVIOUS
  <2>1. UNCHANGED <<kind[x], want[x], vm[x], maker[x], pc[x], conn[x]>>
    BY <1>1, <1>2, <1>3, <1>4, <1>5
  <2>2. \A o \in Op : /\ UNCHANGED <<phase[<<x, o>>], body[<<x, o>>], took[<<x, o>>],
                                     missed[<<x, o>>], got[<<x, o>>]>>
                      /\ <<x, o>> \in late' => <<x, o>> \in late
    BY <1>1, <1>2, <1>3, <1>4, <1>5
  <2> QED BY <2>1, <2>2 DEF Same
<1>8. Course(c) /\ Connection(c) /\ \A o \in Op : Effect(c, o)
  BY DEF VpsInv, CallInv
<1>9. Course(c)'
  BY <1>1, <1>2, <1>3, <1>4, <1>5, <1>8, OpsAre, VpsAssumption DEF Course
<1>10. Connection(c)'
  BY <1>1, <1>2, <1>3, <1>4, <1>5, <1>8, OpsAre, ReplyIsSome DEF Connection
<1>11. ASSUME NEW o \in Op PROVE Effect(c, o)'
  BY <1>1, <1>2, <1>3, <1>4, <1>5, <1>8 DEF Effect
<1>12. CallInv'
  BY <1>7, <1>9, <1>10, <1>11, OthersKept DEF VpsInv, CallInv
<1>13. UserInv' /\ DeleteInv' /\ SpecInv' /\ ClaimInv'
  <2>1. pc[c] \notin {"ok", "failed"}
    BY <1>1, OpsAre DEF Active, Ended
  <2>2. \A g \in Guest : Deletes(c, g)' => Deletes(c, g) /\ maker'[c] = maker[c]
    BY <1>1, <1>2, <1>3, <1>4, <1>5 DEF Deletes, Active, Ended
  <2>3. \A g \in Guest : Deletes(c, g) /\ Returned(c) => Deletes(c, g)' \/ g \in Doubtful'
    BY <1>1, <1>2, <1>3, <1>4, <1>5, <1>8, OpsAre DEF Deletes, Active, Ended
  <2> QED BY <1>2, <2>1, <2>2, <2>3, <1>7, QuietStep DEF VpsInv
<1> QED BY <1>6, <1>12, <1>13 DEF VpsInv

\* A request that is sent was never sent before.
LEMMA SubmitKeeps ==
  ASSUME VpsInv, NEW c \in Call, Submit(c)
  PROVE  VpsInv'
<1>1. pc[c] \in Op /\ phase[<<c, pc[c]>>] = "unsent"
  BY DEF Submit
<1>2. UNCHANGED <<pool, kind, want, vm, maker, pc, late, took, missed, got, users,
          faults>>
  BY DEF Submit, server, identity
<1>3. \A x \in Call, o \in Op : phase'[<<x, o>>] =
      IF x = c /\ o = pc[c] THEN "open" ELSE phase[<<x, o>>]
  BY <1>1 DEF VpsInv, TypeInv, Request, Submit, server, identity
<1>4. \A x \in Call, o \in Op : body'[<<x, o>>] =
      IF x = c /\ o = pc[c] THEN Params(c) ELSE body[<<x, o>>]
  BY <1>1 DEF VpsInv, TypeInv, Request, Submit, server, identity
<1>5. \A x \in Call : conn'[x] = IF x = c THEN Sent ELSE conn[x]
  BY <1>1 DEF VpsInv, TypeInv, Request, Submit, server, identity
<1>6. TypeInv'
  <2>1. phase' \in [Request -> {"unsent", "open", "ok", "notFound", "failed"}]
    BY <1>1 DEF VpsInv, TypeInv, Request, Op, Submit, server, identity
  <2>2. DOMAIN body' = Request
    BY <1>1 DEF VpsInv, TypeInv, Request, Op, Submit, server, identity
  <2>3. conn' \in [Call -> Replies \cup {None}]
    BY <1>1, ReplyIsSome DEF VpsInv, TypeInv, Request, Op, Submit, server,
      identity
  <2> QED BY <1>2, <2>1, <2>2, <2>3 DEF VpsInv, TypeInv
<1>7. \A x \in Call \ {c} : Same(x)
  <2> SUFFICES ASSUME NEW x \in Call, x # c PROVE Same(x)
    OBVIOUS
  <2>1. UNCHANGED <<kind[x], want[x], vm[x], maker[x], pc[x], conn[x]>>
    BY <1>1, <1>2, <1>3, <1>4, <1>5
  <2>2. \A o \in Op : /\ UNCHANGED <<phase[<<x, o>>], body[<<x, o>>], took[<<x, o>>],
                                     missed[<<x, o>>], got[<<x, o>>]>>
                      /\ <<x, o>> \in late' => <<x, o>> \in late
    BY <1>1, <1>2, <1>3, <1>4, <1>5
  <2> QED BY <2>1, <2>2 DEF Same
<1>8. Course(c) /\ Connection(c) /\ \A o \in Op : Effect(c, o)
  BY DEF VpsInv, CallInv
<1>9. Course(c)'
  <2>1. \A o \in Op : o # pc[c] => phase'[<<c, o>>] = phase[<<c, o>>]
    BY <1>3
  <2> QED BY <1>1, <1>2, <2>1, <1>8, OpsAre, Kinds DEF Course
<1>10. Connection(c)'
  <2>1. ~took[<<c, pc[c]>>] /\ <<c, pc[c]>> \notin late
    BY <1>1, <1>8 DEF Effect
  <2>2. \A o \in Op : phase'[<<c, o>>] = "open" => o = pc[c]
    <3>1. \A o \in Op : phase[<<c, o>>] = "open" => pc[c] = o
      BY <1>8 DEF Connection
    <3> QED BY <1>3, <3>1
  <2>3. \A o \in Op : phase'[<<c, o>>] = "failed" => pc[c] = "failed"
    BY <1>3, <1>8 DEF Connection
  <2>4. conn'[c] = Sent /\ Sent # None /\ Sent.code = 0
    BY <1>5, ReplyIsSome
  <2>5. phase'[<<c, pc[c]>>] = "open"
    BY <1>1, <1>3
  <2> QED BY <1>1, <1>2, <2>1, <2>2, <2>3, <2>4, <2>5 DEF Connection
<1>11. ASSUME NEW o \in Op PROVE Effect(c, o)'
  <2>1. CASE o # pc[c]
    <3>1. phase'[<<c, o>>] = phase[<<c, o>>] /\ body'[<<c, o>>] = body[<<c, o>>]
      BY <1>3, <1>4, <2>1
    <3> QED BY <1>2, <3>1, <1>8 DEF Effect
  <2>2. CASE o = pc[c]
    <3>1. phase'[<<c, o>>] = "open" /\ body'[<<c, o>>] = Params(c)
      BY <1>3, <1>4, <2>2
    <3>2. phase[<<c, o>>] = "unsent" /\ (o # "order" => vm[c] \in Guest)
      BY <1>1, <2>2, Kinds
    <3> QED BY <1>1, <1>2, <2>2, <3>1, <3>2, <1>8, ParamsAre DEF Effect
  <2> QED BY <2>1, <2>2
<1>12. CallInv'
  BY <1>7, <1>9, <1>10, <1>11, OthersKept DEF VpsInv, CallInv
<1>13. UserInv' /\ DeleteInv' /\ SpecInv' /\ ClaimInv'
  <2>1. pc[c] \notin {"ok", "failed"}
    BY <1>1, OpsAre DEF Active, Ended
  <2>2. \A g \in Guest : Deletes(c, g)' => Deletes(c, g) /\ maker'[c] = maker[c]
    BY <1>1, <1>2, <1>3, <1>4, <1>5 DEF Deletes, Active, Ended
  <2>3. \A g \in Guest : Deletes(c, g) /\ Returned(c) => Deletes(c, g)' \/ g \in Doubtful'
    BY <1>1, <1>2, <1>3, <1>4, <1>5, <1>8, OpsAre DEF Deletes, Active, Ended
  <2> QED BY <1>2, <2>1, <2>2, <2>3, <1>7, QuietStep DEF VpsInv
<1> QED BY <1>6, <1>12, <1>13 DEF VpsInv

\* An answer that is spoilt tells nothing new.
LEMMA SpoilAnswerKeeps ==
  ASSUME VpsInv, NEW c \in Call, NEW a \in Replies, Spoil(c), Spoils(c, a)
  PROVE  VpsInv'
<1> USE DEF Spoils
<1>1. pc[c] \in Op /\ phase[<<c, pc[c]>>] = "open" /\ a # Sent
  BY ReplyIsSome DEF VpsInv, CallInv, Connection
<1>2. UNCHANGED <<pool, kind, want, vm, maker, pc, phase, body, took, missed, got,
          users>>
  BY DEF Spoil, Faulty, server, identity
<1>3. \A x \in Call : conn'[x] = IF x = c THEN a ELSE conn[x]
  BY <1>1 DEF VpsInv, TypeInv, Request, Spoil, Faulty, server, identity
<1>4. \A x \in Call, o \in Op : <<x, o>> \in late' => <<x, o>> \in late
      \/ (x = c /\ o = pc[c] /\ conn[c] = Sent /\ a.code \in {202, 502})
  OBVIOUS
<1>5. /\ a.code \in {202, 502} \/ (a.code = conn[c].code /\ a.vm = conn[c].vm)
      /\ a # None
  BY ReplyIsSome DEF Replies, VpsInv, TypeInv
<1>6. TypeInv'
  <2>1. conn' \in [Call -> Replies \cup {None}]
    BY <1>1, ReplyIsSome DEF VpsInv, TypeInv, Request, Op, Spoil, Faulty,
      server, identity
  <2>2. late' \subseteq Request
    BY <1>1 DEF VpsInv, TypeInv, Request, Op, Spoil, Faulty, server, identity
  <2>3. faults' \in 0..MaxFaults
    BY <1>1, VpsAssumption DEF VpsInv, TypeInv, Request, Op, Spoil, Faulty,
      server, identity
  <2> QED BY <1>2, <2>1, <2>2, <2>3 DEF VpsInv, TypeInv
<1>7. \A x \in Call \ {c} : Same(x)
  <2> SUFFICES ASSUME NEW x \in Call, x # c PROVE Same(x)
    OBVIOUS
  <2>1. UNCHANGED <<kind[x], want[x], vm[x], maker[x], pc[x], conn[x]>>
    BY <1>1, <1>2, <1>3, <1>4, <1>5
  <2>2. \A o \in Op : /\ UNCHANGED <<phase[<<x, o>>], body[<<x, o>>], took[<<x, o>>],
                                     missed[<<x, o>>], got[<<x, o>>]>>
                      /\ <<x, o>> \in late' => <<x, o>> \in late
    BY <1>1, <1>2, <1>3, <1>4, <1>5
  <2> QED BY <2>1, <2>2 DEF Same
<1>8. Course(c) /\ Connection(c) /\ \A o \in Op : Effect(c, o)
  BY DEF VpsInv, CallInv
<1>9. Course(c)'
  BY <1>1, <1>2, <1>3, <1>4, <1>5, <1>8, OpsAre, VpsAssumption DEF Course
<1>10. Connection(c)'
  <2>1. conn'[c] = a /\ a # None /\ a # Sent
    BY <1>1, <1>3, <1>5
  <2>2. <<c, pc[c]>> \in late' => <<c, pc[c]>> \in late \/ a.code \in {202, 502}
    BY <1>1, <1>4
  <2>3. a.code = 200 => conn[c].code = 200 /\ conn[c].vm = a.vm
    BY <1>5
  <2>4. a.code = 404 => conn[c].code = 404
    BY <1>5
  <2> QED BY <1>1, <1>2, <2>1, <2>2, <2>3, <2>4, <1>8 DEF Connection
<1>11. ASSUME NEW o \in Op PROVE Effect(c, o)'
  <2>1. <<c, o>> \in late' => ~took[<<c, o>>] /\ phase[<<c, o>>] \in {"open", "failed"}
    BY <1>1, <1>4, <1>8 DEF Effect, Connection
  <2> QED BY <1>2, <2>1, <1>8 DEF Effect
<1>12. CallInv'
  BY <1>7, <1>9, <1>10, <1>11, OthersKept DEF VpsInv, CallInv
<1>13. UserInv' /\ DeleteInv' /\ SpecInv' /\ ClaimInv'
  <2>1. pc[c] \notin {"ok", "failed"}
    BY <1>1, OpsAre DEF Active, Ended
  <2>2. \A g \in Guest : Deletes(c, g)' => Deletes(c, g) /\ maker'[c] = maker[c]
    BY <1>1, <1>2, <1>3, <1>4, <1>5 DEF Deletes, Active, Ended
  <2>3. \A g \in Guest : Deletes(c, g) /\ Returned(c) => Deletes(c, g)' \/ g \in Doubtful'
    BY <1>1, <1>2, <1>3, <1>4, <1>5, <1>8, OpsAre DEF Deletes, Active, Ended
  <2> QED BY <1>2, <2>1, <2>2, <2>3, <1>7, QuietStep DEF VpsInv
<1> QED BY <1>6, <1>12, <1>13 DEF VpsInv

\* SoftLayer makes a guest or reloads one, or fails.
LEMMA MoveKeeps ==
  ASSUME VpsInv, NEW c \in Call, NEW next, CreateBySoftlayer(c) \/ Reload(c),
         pc' = [pc EXCEPT ![c] = next]
  PROVE  VpsInv'
<1>1. \/ pc[c] = "createBySoftlayer" /\ next \in {"failed", "crashed"}
      \/ pc[c] = "reload" /\ next \in {"update", "failed"}
  BY DEF VpsInv, TypeInv, CreateBySoftlayer, Reload
<1>2. UNCHANGED <<pool, kind, want, vm, maker, phase, body, conn, late, took, missed,
          got, users>>
  BY DEF CreateBySoftlayer, Reload, Faulty, server, identity
<1>3. \A x \in Call : pc'[x] = IF x = c THEN next ELSE pc[x]
  BY <1>1 DEF VpsInv, TypeInv, Request, CreateBySoftlayer, Reload, Faulty,
    server, identity
<1>4. TypeInv'
  <2>1. pc' \in [Call -> Ended \cup Op \cup {"reload", "createBySoftlayer"}]
    BY <1>1 DEF VpsInv, TypeInv, Request, Op, CreateBySoftlayer, Reload,
      Faulty, server, identity, Ended
  <2>2. faults' \in 0..MaxFaults
    BY <1>1, VpsAssumption DEF VpsInv, TypeInv, Request, Op, CreateBySoftlayer,
      Reload, Faulty, server, identity
  <2> QED BY <1>2, <2>1, <2>2 DEF VpsInv, TypeInv
<1>5. \A x \in Call \ {c} : Same(x)
  <2> SUFFICES ASSUME NEW x \in Call, x # c PROVE Same(x)
    OBVIOUS
  <2>1. UNCHANGED <<kind[x], want[x], vm[x], maker[x], pc[x], conn[x]>>
    BY <1>1, <1>2, <1>3
  <2>2. \A o \in Op : /\ UNCHANGED <<phase[<<x, o>>], body[<<x, o>>], took[<<x, o>>],
                                     missed[<<x, o>>], got[<<x, o>>]>>
                      /\ <<x, o>> \in late' => <<x, o>> \in late
    BY <1>1, <1>2, <1>3
  <2> QED BY <2>1, <2>2 DEF Same
<1>6. Course(c) /\ Connection(c) /\ \A o \in Op : Effect(c, o)
  BY DEF VpsInv, CallInv
<1>7. Course(c)'
  BY <1>1, <1>2, <1>3, <1>6, OpsAre, VpsAssumption DEF Course
<1>8. Connection(c)'
  BY <1>1, <1>2, <1>3, <1>6, OpsAre, ReplyIsSome DEF Connection
<1>9. ASSUME NEW o \in Op PROVE Effect(c, o)'
  BY <1>1, <1>2, <1>3, <1>6 DEF Effect
<1>10. CallInv'
  BY <1>5, <1>7, <1>8, <1>9, OthersKept DEF VpsInv, CallInv
<1>11. UserInv' /\ DeleteInv' /\ SpecInv' /\ ClaimInv'
  <2>1. pc[c] \notin {"ok", "failed"}
    BY <1>1, OpsAre DEF Active, Ended
  <2>2. \A g \in Guest : Deletes(c, g)' => Deletes(c, g) /\ maker'[c] = maker[c]
    BY <1>1, <1>2, <1>3 DEF Deletes, Active, Ended
  <2>3. \A g \in Guest : Deletes(c, g) /\ Returned(c) => Deletes(c, g)' \/ g \in Doubtful'
    BY <1>1, <1>2, <1>3, <1>6, OpsAre DEF Deletes, Active, Ended, Course
  <2> QED BY <1>2, <2>1, <2>2, <2>3, <1>5, QuietStep DEF VpsInv
<1> QED BY <1>4, <1>10, <1>11 DEF VpsInv

\* A request that is given up may still be carried out.
LEMMA GiveUpKeeps ==
  ASSUME VpsInv, NEW c \in Call, GiveUp(c)
  PROVE  VpsInv'
<1>1. Active(c) /\ (conn[c] = None => pc[c] \notin Op)
  BY DEF GiveUp
<1>2. UNCHANGED <<pool, kind, want, vm, maker, body, took, missed, got, users>>
  BY DEF GiveUp, Faulty, server, identity
<1>3. \A x \in Call : pc'[x] = IF x = c THEN "failed" ELSE pc[x]
  BY <1>1 DEF VpsInv, TypeInv, Request, GiveUp, Faulty, server, identity
<1>4. \A x \in Call : conn'[x] = IF x = c THEN None ELSE conn[x]
  BY <1>1 DEF VpsInv, TypeInv, Request, GiveUp, Faulty, server, identity
<1>5. \A x \in Call, o \in Op : <<x, o>> \in late' =>
      <<x, o>> \in late \/ (x = c /\ o = pc[c] /\ conn[c] = Sent)
  BY DEF GiveUp
<1>6. \A x \in Call, o \in Op : phase'[<<x, o>>] =
      IF x = c /\ o = pc[c] /\ conn[c] # None THEN "failed" ELSE phase[<<x, o>>]
  BY DEF VpsInv, TypeInv, Request, GiveUp
<1>7. /\ conn[c] # None => pc[c] \in Op /\ phase[<<c, pc[c]>>] = "open"
      /\ \A o \in Op : phase[<<c, o>>] = "open" => o = pc[c] /\ conn[c] # None
      /\ pc[c] \notin {"idle", "ok", "failed", "crashed"}
  BY <1>1 DEF VpsInv, CallInv, Connection, Active, Ended
<1>8. TypeInv'
  <2>1. pc' \in [Call -> Ended \cup Op \cup {"reload", "createBySoftlayer"}]
    BY <1>1 DEF VpsInv, TypeInv, Request, Op, GiveUp, Faulty, server, identity,
      Ended
  <2>2. phase' \in [Request -> {"unsent", "open", "ok", "notFound", "failed"}]
    BY <1>1 DEF VpsInv, TypeInv, Request, Op, GiveUp, Faulty, server, identity
  <2>3. conn' \in [Call -> Replies \cup {None}]
    BY <1>1, ReplyIsSome DEF VpsInv, TypeInv, Request, Op, GiveUp, Faulty,
      server, identity
  <2>4. late' \subseteq Request
    BY <1>1, <1>7, ReplyIsSome DEF VpsInv, TypeInv, Request, Op, GiveUp,
      Faulty, server, identity
  <2>5. faults' \in 0..MaxFaults
    BY <1>1, VpsAssumption DEF VpsInv, TypeInv, Request, Op, GiveUp, Faulty,
      server, identity
  <2> QED BY <1>2, <2>1, <2>2, <2>3, <2>4, <2>5 DEF VpsInv, TypeInv
<1>9. \A x \in Call \ {c} : Same(x)
  <2> SUFFICES ASSUME NEW x \in Call, x # c PROVE Same(x)
    OBVIOUS
  <2>1. UNCHANGED <<kind[x], want[x], vm[x], maker[x], pc[x], conn[x]>>
    BY <1>1, <1>2, <1>3, <1>4, <1>5, <1>6, <1>7
  <2>2. \A o \in Op : /\ UNCHANGED <<phase[<<x, o>>], body[<<x, o>>], took[<<x, o>>],
                                     missed[<<x, o>>], got[<<x, o>>]>>
                      /\ <<x, o>> \in late' => <<x, o>> \in late
    BY <1>1, <1>2, <1>3, <1>4, <1>5, <1>6, <1>7
  <2> QED BY <2>1, <2>2 DEF Same
<1>10. Course(c) /\ Connection(c) /\ \A o \in Op : Effect(c, o)
  BY DEF VpsInv, CallInv
<1>11. Course(c)'
  <2>1. \A o \in Op : phase[<<c, o>>] = "unsent" => phase'[<<c, o>>] = "unsent"
    BY <1>6, <1>7
  <2>2. pc'[c] = "failed" /\ kind[c] # None
    BY <1>3, <1>7, <1>10 DEF Course
  <2> QED BY <1>2, <2>1, <2>2, <1>10, OpsAre DEF Course
<1>12. Connection(c)'
  <2>1. \A o \in Op : phase'[<<c, o>>] # "open"
    BY <1>6, <1>7
  <2> QED BY <1>3, <1>4, <2>1 DEF Connection
<1>13. ASSUME NEW o \in Op PROVE Effect(c, o)'
  <2>1. <<c, o>> \in late' => ~took[<<c, o>>] /\ phase'[<<c, o>>] \in {"open", "failed"}
    <3>1. CASE <<c, o>> \in late
      BY <1>6, <3>1, <1>10 DEF Effect
    <3>2. CASE o = pc[c] /\ conn[c] = Sent
      BY <1>6, <3>2, <1>10, ReplyIsSome DEF Connection
    <3> QED BY <1>5, <3>1, <3>2
  <2>2. phase'[<<c, o>>] = "unsent" <=> phase[<<c, o>>] = "unsent"
    BY <1>6, <1>7
  <2> QED BY <1>2, <2>1, <2>2, <1>10 DEF Effect
<1>14. CallInv'
  BY <1>9, <1>11, <1>12, <1>13, OthersKept DEF VpsInv, CallInv
<1>15. UserInv' /\ DeleteInv' /\ SpecInv' /\ ClaimInv'
  <2>1. pc[c] \notin {"ok", "failed"}
    BY <1>1, OpsAre DEF Active, Ended
  <2>2. \A g \in Guest : Deletes(c, g)' => Deletes(c, g) /\ maker'[c] = maker[c]
    BY <1>1, <1>2, <1>3, <1>4, <1>5, <1>6, <1>7 DEF Deletes, Active, Ended
  <2>3. \A g \in Guest : Deletes(c, g) /\ Returned(c) => Deletes(c, g)' \/ g \in Doubtful'
    <3> SUFFICES ASSUME NEW g \in Guest, Deletes(c, g), Returned(c) PROVE g \in Doubtful'
      OBVIOUS
    <3>1. phase[<<c, "add">>] # "unsent" \/ phase[<<c, "free">>] # "unsent"
      BY <1>10, OpsAre DEF Returned, Effect
    <3>2. \A o \in Op : phase[<<c, o>>] # "unsent" => phase'[<<c, o>>] # "unsent"
      BY <1>6
    <3>3. Doubts(c, g)'
      BY <1>2, <1>3, <3>1, <3>2, OpsAre DEF Doubts, Deletes
    <3> QED BY <3>3, DoubtfulIs
  <2> QED BY <1>2, <2>1, <2>2, <2>3, <1>9, QuietStep DEF VpsInv
<1> QED BY <1>8, <1>14, <1>15 DEF VpsInv

\* A delete_vm that begins takes no claim from anybody.
LEMMA DeleteKeeps ==
  ASSUME VpsInv, NEW c \in Call, NEW g \in Guest, NEW u \in users[g],
         Delete(c, g, u)
  PROVE  VpsInv'
<1>1. /\ kind[c] = None /\ pc[c] = "idle" /\ conn[c] = None /\ ~Returned(c)
      /\ \A o \in Op : phase[<<c, o>>] = "unsent"
  BY IdleCall DEF Delete
<1>2. UNCHANGED <<pool, want, phase, body, conn, late, took, missed, got, users,
          faults>>
  BY DEF Delete, server, identity
<1>3. \A x \in Call : kind'[x] = IF x = c THEN "delete" ELSE kind[x]
  BY <1>1 DEF VpsInv, TypeInv, Request, Delete, server, identity
<1>4. \A x \in Call : vm'[x] = IF x = c THEN g ELSE vm[x]
  BY <1>1 DEF VpsInv, TypeInv, Request, Delete, server, identity
<1>5. \A x \in Call : maker'[x] = IF x = c THEN u ELSE maker[x]
  BY <1>1 DEF VpsInv, TypeInv, Request, Delete, server, identity
<1>6. \A x \in Call : pc'[x] = IF x = c THEN "get" ELSE pc[x]
  BY <1>1 DEF VpsInv, TypeInv, Request, Delete, server, identity
<1>7. TypeInv'
  <2>1. kind' \in [Call -> {None, "create", "delete"}]
    BY <1>1 DEF VpsInv, TypeInv, Request, Op, Delete, server, identity
  <2>2. vm' \in [Call -> Guest \cup {None}]
    BY <1>1 DEF VpsInv, TypeInv, Request, Op, Delete, server, identity
  <2>3. maker' \in [Call -> Call \cup {First, None}]
    BY <1>1 DEF VpsInv, TypeInv, Request, Op, Delete, server, identity
  <2>4. pc' \in [Call -> Ended \cup Op \cup {"reload", "createBySoftlayer"}]
    BY <1>1 DEF VpsInv, TypeInv, Request, Op, Delete, server, identity
  <2> QED BY <1>2, <2>1, <2>2, <2>3, <2>4 DEF VpsInv, TypeInv
<1>8. \A x \in Call \ {c} : Same(x)
  <2> SUFFICES ASSUME NEW x \in Call, x # c PROVE Same(x)
    OBVIOUS
  <2>1. UNCHANGED <<kind[x], want[x], vm[x], maker[x], pc[x], conn[x]>>
    BY <1>1, <1>2, <1>3, <1>4, <1>5, <1>6
  <2>2. \A o \in Op : /\ UNCHANGED <<phase[<<x, o>>], body[<<x, o>>], took[<<x, o>>],
                                     missed[<<x, o>>], got[<<x, o>>]>>
                      /\ <<x, o>> \in late' => <<x, o>> \in late
    BY <1>1, <1>2, <1>3, <1>4, <1>5, <1>6
  <2> QED BY <2>1, <2>2 DEF Same
<1>9. Course(c) /\ Connection(c) /\ \A o \in Op : Effect(c, o)
  BY DEF VpsInv, CallInv
<1>10. Course(c)'
  BY <1>1, <1>2, <1>3, <1>4, <1>5, <1>6, <1>9, OpsAre, VpsAssumption DEF Course
<1>11. Connection(c)'
  BY <1>1, <1>2, <1>3, <1>4, <1>5, <1>6, <1>9, OpsAre, ReplyIsSome DEF
    Connection
<1>12. ASSUME NEW o \in Op PROVE Effect(c, o)'
  BY <1>1, <1>2, <1>3, <1>4, <1>5, <1>6, <1>9 DEF Effect
<1>13. CallInv'
  BY <1>8, <1>10, <1>11, <1>12, OthersKept DEF VpsInv, CallInv
<1>14. UserInv' /\ DeleteInv' /\ SpecInv' /\ ClaimInv'
  <2>1. \A x \in Call : (Returned(x)' <=> Returned(x)) /\ \A h \in Guest : (Makes(x, h)' <=> Makes(x, h))
    BY <1>2 DEF Returned, Makes

  <2>2. UserInv'
    <3> SUFFICES ASSUME NEW h \in Guest, NEW x \in users[h] \ {First}
                 PROVE  pc'[x] = "ok" /\ kind'[x] = "create" /\ Makes(x, h)'
      BY <1>2 DEF UserInv
    <3>1. x \in Call /\ pc[x] = "ok" /\ kind[x] = "create" /\ Makes(x, h)
      BY DEF VpsInv, UserInv, TypeInv
    <3> QED BY <1>1, <2>1, <3>1, <1>8 DEF Same
  <2>3. \A x \in Call, h \in Guest : x # c => (Deletes(x, h)' <=> Deletes(x, h))
    BY <1>8 DEF Same, Deletes, Active
  <2>4. DeleteInv'
    <3>1. \A h \in Guest : Deletes(c, h)' <=> h = g
      BY <1>3, <1>4, <1>6, OpsAre DEF Deletes, Active, Ended
    <3>2. \A x \in Call : x # c => ~Deletes(x, g)
      BY DEF Delete, Deletes
    <3>3. \A h \in Guest, x \in Call : Deletes(x, h)' => maker'[x] \in users'[h]
      BY <1>2, <1>5, <2>3, <3>1, <1>8 DEF VpsInv, DeleteInv, Same
    <3>4. ASSUME NEW h \in Guest, NEW d \in Call, NEW e \in Call, Deletes(d, h)', Deletes(e, h)'
          PROVE  d = e
      <4>1. d # c /\ e # c => d = e
        BY <2>3, <3>4 DEF VpsInv, DeleteInv
      <4>2. d # c /\ e = c => FALSE
        BY <2>3, <3>1, <3>2, <3>4
      <4>3. d = c /\ e # c => FALSE
        BY <2>3, <3>1, <3>2, <3>4
      <4> QED BY <4>1, <4>2, <4>3
    <3> QED BY <3>3, <3>4 DEF DeleteInv
  <2>5. \A h \in Guest, x \in Call \cup {First} : Claims(x, h)' => Claims(x, h)
    <3> SUFFICES ASSUME NEW h \in Guest, NEW x \in Call \cup {First}, Claims(x, h)'
                 PROVE  Claims(x, h)
      OBVIOUS
    <3>1. x \in users[h] \/ (x \in Call /\ Makes(x, h) /\ pc[x] # "ok")
      BY <1>1, <1>2, <2>1, <1>8 DEF Claims, Same
    <3>2. ASSUME NEW d \in Call, Deletes(d, h), Returned(d) PROVE maker[d] # x
      <4>1. d # c
        BY <1>1, <3>2
      <4>2. Deletes(d, h)' /\ Returned(d)' /\ maker'[d] = maker[d]
        BY <2>1, <2>3, <3>2, <4>1, <1>8 DEF Same
      <4> QED BY <4>2 DEF Claims
    <3> QED BY <3>1, <3>2 DEF Claims
  <2>6. ClaimInv'
    <3> SUFFICES ASSUME NEW h \in Guest, h \notin Doubtful' PROVE Claimed(h)'
      BY DEF ClaimInv
    <3>1. h \notin Doubtful
      <4>1. \A d \in Call : Doubts(d, h) => Doubts(d, h)'
        BY <1>8, <1>1, OpsAre DEF Doubts, Same
      <4> QED BY <4>1, DoubtfulIs
    <3>2. Claimed(h)
      BY <3>1 DEF VpsInv, ClaimInv
    <3> QED BY <1>2, <2>5, <3>2 DEF Claimed
  <2>7. SpecInv'
    BY <1>2 DEF VpsInv, SpecInv

  <2> QED BY <2>2, <2>4, <2>6, <2>7
<1> QED BY <1>7, <1>13, <1>14 DEF VpsInv

\* An answer that leaves the director with the VMs it had moves the call on,
\* or ends it.
LEMMA AnswerKeeps ==
  ASSUME VpsInv, NEW c \in Call, NEW op \in Op, NEW result, NEW next, NEW y \in
         Guest \cup {None}, Answer(c, op, result, next), GoesOn(c, op, result,
         next, y)
  PROVE  VpsInv'
<1> USE DEF GoesOn
<1>1. pc[c] = op /\ conn[c] \in Replies /\ conn[c] # None /\ phase[<<c, op>>] = "open"
  BY DEF Answer, Answered, VpsInv, TypeInv, CallInv, Connection
<1>2. UNCHANGED <<pool, kind, want, maker, body, late, took, missed, got, users,
          faults>>
  BY DEF Answer, server, identity
<1>3. \A x \in Call : vm'[x] = IF x = c THEN y ELSE vm[x]
  BY <1>1 DEF VpsInv, TypeInv, Request, Answer, server, identity
<1>4. \A x \in Call : pc'[x] = IF x = c THEN next ELSE pc[x]
  BY <1>1 DEF VpsInv, TypeInv, Request, Answer, server, identity
<1>5. \A x \in Call, o \in Op : phase'[<<x, o>>] =
      IF x = c /\ o = op THEN Phase(result) ELSE phase[<<x, o>>]
  BY <1>1 DEF VpsInv, TypeInv, Request, Answer, server, identity
<1>6. \A x \in Call : conn'[x] = IF x = c THEN None ELSE conn[x]
  BY <1>1 DEF VpsInv, TypeInv, Request, Answer, server, identity
<1>7. /\ result \in {"ok", "notFound", "error"}
      /\ result = "ok" => conn[c].code = 200 /\ took[<<c, op>>] /\ <<c, op>> \notin late
      /\ result = "notFound" => conn[c].code = 404 /\ <<c, op>> \notin late
      /\ result = "ok" /\ op = "order" => conn[c].vm = got[<<c, op>>]
  <2>1. /\ Reader(op, conn[c]) = result
        /\ conn[c].code = 200 => took[<<c, op>>] /\ <<c, op>> \notin late
        /\ conn[c].code = 404 => <<c, op>> \notin late
        /\ conn[c].code = 200 /\ op = "order" => conn[c].vm = got[<<c, op>>]
    BY <1>1 DEF Answer, VpsInv, CallInv, Connection
  <2> QED BY <1>1, <2>1, Reads
<1>8. /\ phase'[<<c, op>>] \in {"ok", "notFound", "failed"}
      /\ phase'[<<c, op>>] = "failed" => next = "failed"
      /\ <<c, op>> \in late => phase'[<<c, op>>] = "failed"
      /\ next # "ok"
  BY <1>5, <1>7 DEF Phase
<1>9. TypeInv'
  <2>1. vm' \in [Call -> Guest \cup {None}]
    BY <1>1 DEF VpsInv, TypeInv, Request, Op, Answer, server, identity
  <2>2. pc' \in [Call -> Ended \cup Op \cup {"reload", "createBySoftlayer"}]
    BY <1>1 DEF VpsInv, TypeInv, Request, Op, Answer, server, identity, Ended
  <2>3. phase' \in [Request -> {"unsent", "open", "ok", "notFound", "failed"}]
    BY <1>1, <1>7 DEF VpsInv, TypeInv, Request, Op, Answer, server, identity,
      Phase
  <2>4. conn' \in [Call -> Replies \cup {None}]
    BY <1>1, ReplyIsSome DEF VpsInv, TypeInv, Request, Op, Answer, server,
      identity
  <2> QED BY <1>2, <2>1, <2>2, <2>3, <2>4 DEF VpsInv, TypeInv
<1>10. \A x \in Call \ {c} : Same(x)
  <2> SUFFICES ASSUME NEW x \in Call, x # c PROVE Same(x)
    OBVIOUS
  <2>1. UNCHANGED <<kind[x], want[x], vm[x], maker[x], pc[x], conn[x]>>
    BY <1>1, <1>2, <1>3, <1>4, <1>5, <1>6, <1>7, <1>8
  <2>2. \A o \in Op : /\ UNCHANGED <<phase[<<x, o>>], body[<<x, o>>], took[<<x, o>>],
                                     missed[<<x, o>>], got[<<x, o>>]>>
                      /\ <<x, o>> \in late' => <<x, o>> \in late
    BY <1>1, <1>2, <1>3, <1>4, <1>5, <1>6, <1>7, <1>8
  <2> QED BY <2>1, <2>2 DEF Same
<1>11. Course(c) /\ Connection(c) /\ \A o \in Op : Effect(c, o)
  BY DEF VpsInv, CallInv
<1>12. Course(c)'
  <2>1. \A o \in Op : phase'[<<c, o>>] = "unsent" <=> phase[<<c, o>>] = "unsent"
    BY <1>1, <1>5, <1>8
  <2>2. next = "reload" => op = "order" /\ y = got[<<c, op>>] /\ took[<<c, op>>] /\ y \in Guest
    BY <1>7, <1>11 DEF Effect
  <2>3. pc'[c] = next /\ vm'[c] = y
    BY <1>3, <1>4
  <2>4. /\ kind[c] \in {"create", "delete"}
        /\ next \in {"createBySoftlayer", "reload", "crashed"} => kind[c] = "create"
        /\ next \in {"free", "add"} => kind[c] = "delete"
        /\ next \in {"failed", "createBySoftlayer", "reload", "crashed", "free", "add"}
    BY <1>1, Kinds, OpsAre
  <2>5. /\ kind[c] = "delete" => y = vm[c]
        /\ next \in {"createBySoftlayer", "reload"} => phase[<<c, "update">>] = "unsent"
        /\ next \in {"free", "add"} =>
              phase[<<c, "free">>] = "unsent" /\ phase[<<c, "add">>] = "unsent"
    BY <1>1, <1>11, Kinds DEF Course
  <2> QED BY <1>2, <2>1, <2>2, <2>3, <2>4, <2>5, <1>11, OpsAre, VpsAssumption DEF Course
<1>13. Connection(c)'
  <2>1. \A o \in Op : phase[<<c, o>>] # "failed" /\ (o # op => phase[<<c, o>>] # "open")
    BY <1>1, OpsAre, <1>11 DEF Connection
  <2> QED BY <1>4, <1>5, <1>6, <1>8, <2>1 DEF Connection
<1>14. ASSUME NEW o \in Op PROVE Effect(c, o)'
  <2>1. o # "order" /\ phase[<<c, o>>] # "unsent" => vm'[c] = vm[c]
    <3>1. CASE op # "order"
      BY <1>3, <3>1
    <3>2. CASE op = "order"
      BY <1>1, <3>2, <1>11, Kinds, OpsAre DEF Course
    <3> QED BY <3>1, <3>2
  <2>2. phase'[<<c, o>>] = "unsent" <=> phase[<<c, o>>] = "unsent"
    BY <1>1, <1>5, <1>8
  <2>3. <<c, o>> \in late => phase'[<<c, o>>] \in {"open", "failed"}
    BY <1>5, <1>8, <1>11 DEF Effect
  <2>4. Effect(c, o)
    BY <1>11
  <2>5. o # "order" /\ phase[<<c, o>>] # "unsent" =>
           body'[<<c, o>>] = body[<<c, o>>] /\ body[<<c, o>>].guest = vm'[c] /\ vm'[c] \in Guest
           /\ (o \in {"add", "update"} => body[<<c, o>>].spec = SizeOf[vm'[c]])
    BY <1>2, <2>1, <2>4 DEF Effect
  <2> QED BY <1>2, <2>2, <2>3, <2>4, <2>5 DEF Effect
<1>15. CallInv'
  BY <1>10, <1>12, <1>13, <1>14, OthersKept DEF VpsInv, CallInv
<1>16. UserInv' /\ DeleteInv' /\ SpecInv' /\ ClaimInv'
  <2>1. pc[c] \notin {"ok", "failed"}
    BY <1>1, OpsAre DEF Active, Ended
  <2>2. \A g \in Guest : Deletes(c, g)' => Deletes(c, g) /\ maker'[c] = maker[c]
    <3> SUFFICES ASSUME NEW g \in Guest, Deletes(c, g)'
                 PROVE  Deletes(c, g) /\ maker'[c] = maker[c]
      OBVIOUS
    <3>1. kind[c] = "delete" /\ Active(c)
      BY <1>1, <1>2, OpsAre DEF Deletes, Active, Ended
    <3>2. op # "order" /\ vm[c] = g
      BY <1>1, <1>3, <3>1, Kinds DEF Deletes
    <3> QED BY <1>2, <3>1, <3>2 DEF Deletes
  <2>3. \A g \in Guest : Deletes(c, g) /\ Returned(c) => Deletes(c, g)' \/ g \in Doubtful'
    <3> SUFFICES ASSUME NEW g \in Guest, Deletes(c, g), Returned(c)
                 PROVE  Deletes(c, g)' \/ g \in Doubtful'
      OBVIOUS
    <3>1. phase[<<c, "add">>] # "unsent" \/ phase[<<c, "free">>] # "unsent"
      BY <1>11, OpsAre DEF Returned, Effect
    <3>2. \A o \in Op : phase[<<c, o>>] # "unsent" => phase'[<<c, o>>] # "unsent"
      BY <1>5, <1>8
    <3>3. next = "failed" /\ op # "order"
      BY <1>1, <3>1, <1>11, Kinds, OpsAre DEF Deletes, Course
    <3>4. Doubts(c, g)'
      BY <1>2, <1>3, <1>4, <3>1, <3>2, <3>3, OpsAre DEF Doubts, Deletes
    <3> QED BY <3>4, DoubtfulIs
  <2> QED BY <1>2, <2>1, <2>2, <2>3, <1>10, QuietStep DEF VpsInv
<1> QED BY <1>9, <1>15, <1>16 DEF VpsInv

\* A create_vm that is answered has the VM it had the claim to.
LEMMA UpdatedKeeps ==
  ASSUME VpsInv, NEW c \in Call, Answer(c, "update", "ok", "ok"), users' =
         [users EXCEPT ![vm[c]] = @ \cup {c}], UNCHANGED vm
  PROVE  VpsInv'
<1>1. pc[c] = "update" /\ conn[c] \in Replies /\ conn[c] # None /\ phase[<<c, "update">>] = "open"
  <2>1. pc[c] = "update" /\ "update" \in Op /\ conn[c] \in Replies \cup {None} /\ conn[c] # None
    BY OpsAre DEF Answer, Answered, VpsInv, TypeInv
  <2> QED BY <2>1 DEF VpsInv, CallInv, Connection
<1>2. UNCHANGED <<pool, kind, want, vm, maker, body, late, took, missed, got,
          faults>>
  BY DEF Answer, server, identity
<1>3. \A x \in Call : pc'[x] = IF x = c THEN "ok" ELSE pc[x]
  BY <1>1 DEF VpsInv, TypeInv, Request, Answer, server, identity
<1>4. \A x \in Call, o \in Op : phase'[<<x, o>>] =
      IF x = c /\ o = "update" THEN Phase("ok") ELSE phase[<<x, o>>]
  BY <1>1 DEF VpsInv, TypeInv, Request, Answer, server, identity
<1>5. \A x \in Call : conn'[x] = IF x = c THEN None ELSE conn[x]
  BY <1>1 DEF VpsInv, TypeInv, Request, Answer, server, identity
<1>6. /\ "ok" \in {"ok", "notFound", "error"}
      /\ "ok" = "ok" => conn[c].code = 200 /\ took[<<c, "update">>] /\ <<c, "update">> \notin late
      /\ "ok" = "notFound" => conn[c].code = 404 /\ <<c, "update">> \notin late
      /\ "ok" = "ok" /\ "update" = "order" => conn[c].vm = got[<<c, "update">>]
  <2>1. /\ Reader("update", conn[c]) = "ok"
        /\ conn[c].code = 200 => took[<<c, "update">>] /\ <<c, "update">> \notin late
        /\ conn[c].code = 404 => <<c, "update">> \notin late
        /\ conn[c].code = 200 /\ "update" = "order" => conn[c].vm = got[<<c, "update">>]
    BY <1>1 DEF Answer, VpsInv, CallInv, Connection
  <2> QED BY <1>1, <2>1, Reads, OpsAre
<1>7. phase'[<<c, "update">>] = "ok" /\ <<c, "update">> \notin late
  BY <1>4, <1>6, OpsAre DEF Phase
<1>8. TypeInv'
  <2>1. pc' \in [Call -> Ended \cup Op \cup {"reload", "createBySoftlayer"}]
    BY <1>1 DEF VpsInv, TypeInv, Request, Op, Answer, server, identity, Ended
  <2>2. phase' \in [Request -> {"unsent", "open", "ok", "notFound", "failed"}]
    BY <1>1 DEF VpsInv, TypeInv, Request, Op, Answer, server, identity, Phase
  <2>3. conn' \in [Call -> Replies \cup {None}]
    BY <1>1, ReplyIsSome DEF VpsInv, TypeInv, Request, Op, Answer, server,
      identity
  <2>4. users' \in [Guest -> SUBSET (Call \cup {First})]
    BY <1>1 DEF VpsInv, TypeInv, Request, Op, Answer, server, identity
  <2> QED BY <1>2, <2>1, <2>2, <2>3, <2>4 DEF VpsInv, TypeInv
<1>9. \A x \in Call \ {c} : Same(x)
  <2> SUFFICES ASSUME NEW x \in Call, x # c PROVE Same(x)
    OBVIOUS
  <2>1. UNCHANGED <<kind[x], want[x], vm[x], maker[x], pc[x], conn[x]>>
    BY <1>1, <1>2, <1>3, <1>4, <1>5, <1>6, <1>7
  <2>2. \A o \in Op : /\ UNCHANGED <<phase[<<x, o>>], body[<<x, o>>], took[<<x, o>>],
                                     missed[<<x, o>>], got[<<x, o>>]>>
                      /\ <<x, o>> \in late' => <<x, o>> \in late
    BY <1>1, <1>2, <1>3, <1>4, <1>5, <1>6, <1>7
  <2> QED BY <2>1, <2>2 DEF Same
<1>10. Course(c) /\ Connection(c) /\ \A o \in Op : Effect(c, o)
  BY DEF VpsInv, CallInv
<1>11. Course(c)'
  <2>1. \A o \in Op : phase'[<<c, o>>] = "unsent" <=> phase[<<c, o>>] = "unsent"
    BY <1>1, <1>4, <1>7
  <2>2. pc'[c] = "ok" /\ kind[c] # None
    BY <1>1, <1>3, <1>10, OpsAre DEF Course
  <2> QED BY <1>2, <2>1, <2>2, <1>10, OpsAre DEF Course
<1>12. Connection(c)'
  <2>1. \A o \in Op : phase[<<c, o>>] # "failed" /\ (o # "update" => phase[<<c, o>>] # "open")
    BY <1>1, OpsAre, <1>10 DEF Connection
  <2> QED BY <1>4, <1>5, <1>7, <2>1 DEF Connection
<1>13. ASSUME NEW o \in Op PROVE Effect(c, o)'
  <2>1. phase'[<<c, o>>] = "unsent" <=> phase[<<c, o>>] = "unsent"
    BY <1>1, <1>4, <1>7
  <2>2. <<c, o>> \in late => phase'[<<c, o>>] \in {"open", "failed"}
    BY <1>4, <1>7, <1>10 DEF Effect
  <2> QED BY <1>2, <2>1, <2>2, <1>10 DEF Effect
<1>14. CallInv'
  BY <1>9, <1>11, <1>12, <1>13, OthersKept DEF VpsInv, CallInv
<1>15. UserInv' /\ DeleteInv' /\ SpecInv' /\ ClaimInv'
  <2>1. \A x \in Call : (Returned(x)' <=> Returned(x)) /\ \A g \in Guest : (Makes(x, g)' <=> Makes(x, g))
    BY <1>2 DEF Returned, Makes

  <2>10. /\ vm[c] \in Guest /\ Makes(c, vm[c]) /\ kind[c] = "create"
         /\ \A g \in Guest : Makes(c, g) => g = vm[c]
         /\ \A g \in Guest : c \notin users[g]
    BY <1>1, <1>10, Kinds, OpsAre, VpsAssumption DEF Course, Makes, VpsInv, UserInv
  <2>11. \A g \in Guest : users'[g] = IF g = vm[c] THEN users[g] \cup {c} ELSE users[g]
    BY <2>10 DEF VpsInv, TypeInv
  <2>2. UserInv'
    <3> SUFFICES ASSUME NEW g \in Guest, NEW x \in users'[g] \ {First}
                 PROVE  pc'[x] = "ok" /\ kind'[x] = "create" /\ Makes(x, g)'
      BY DEF UserInv
    <3>1. CASE x = c
      BY <1>2, <1>3, <2>1, <2>10, <2>11, <3>1
    <3>2. CASE x # c
      <4>1. x \in users[g] /\ x \in Call
        BY <2>11, <3>2 DEF VpsInv, TypeInv
      <4>2. pc[x] = "ok" /\ kind[x] = "create" /\ Makes(x, g)
        BY <4>1 DEF VpsInv, UserInv
      <4> QED BY <2>1, <3>2, <4>1, <4>2, <1>9 DEF Same
    <3> QED BY <3>1, <3>2
  <2>3. \A x \in Call, g \in Guest : (Deletes(x, g)' <=> Deletes(x, g)) /\ maker'[x] = maker[x]
    BY <1>2, <2>10, <1>9 DEF Same, Deletes, Active
  <2>4. DeleteInv'
    BY <2>3, <2>11 DEF VpsInv, DeleteInv
  <2>5. \A g \in Guest, x \in Call \cup {First} : Claims(x, g)' => Claims(x, g)
    <3> SUFFICES ASSUME NEW g \in Guest, NEW x \in Call \cup {First}, Claims(x, g)'
                 PROVE  Claims(x, g)
      OBVIOUS
    <3>1. x \in users[g] \/ (x \in Call /\ Makes(x, g) /\ pc[x] # "ok")
      BY <1>1, <2>1, <2>10, <2>11, <1>9 DEF Claims, Same
    <3>2. ASSUME NEW d \in Call, Deletes(d, g), Returned(d) PROVE maker[d] # x
      BY <2>1, <2>3, <3>2 DEF Claims
    <3> QED BY <3>1, <3>2 DEF Claims
  <2>6. ClaimInv'
    <3> SUFFICES ASSUME NEW g \in Guest, g \notin Doubtful' PROVE Claimed(g)'
      BY DEF ClaimInv
    <3>1. g \notin Doubtful
      <4>1. \A d \in Call : Doubts(d, g) => Doubts(d, g)'
        BY <1>9, <1>1, OpsAre DEF Doubts, Same
      <4> QED BY <4>1, DoubtfulIs
    <3>2. Claimed(g)
      BY <3>1 DEF VpsInv, ClaimInv
    <3> QED BY <1>2, <2>5, <3>2 DEF Claimed
  <2>7. SpecInv'
    BY <1>2 DEF VpsInv, SpecInv

  <2> QED BY <2>2, <2>4, <2>6, <2>7
<1> QED BY <1>8, <1>14, <1>15 DEF VpsInv

\* A delete_vm that is answered gave back the guest of its VM.
LEMMA GivenKeeps ==
  ASSUME VpsInv, NEW c \in Call, NEW op \in {"add", "free"}, Answer(c, op,
         "ok", "ok"), Given(c)
  PROVE  VpsInv'
<1>1. pc[c] = op /\ op \in Op /\ conn[c] \in Replies /\ conn[c] # None /\ phase[<<c, op>>] = "open"
  <2>1. pc[c] = op /\ op \in Op /\ conn[c] \in Replies \cup {None} /\ conn[c] # None
    BY OpsAre DEF Answer, Answered, VpsInv, TypeInv
  <2> QED BY <2>1 DEF VpsInv, CallInv, Connection
<1>2. UNCHANGED <<pool, kind, want, vm, maker, body, late, took, missed, got,
          faults>>
  BY DEF Answer, Given, server, identity
<1>3. \A x \in Call : pc'[x] = IF x = c THEN "ok" ELSE pc[x]
  BY <1>1 DEF VpsInv, TypeInv, Request, Answer, Given, server, identity
<1>4. \A x \in Call, o \in Op : phase'[<<x, o>>] =
      IF x = c /\ o = op THEN Phase("ok") ELSE phase[<<x, o>>]
  BY <1>1 DEF VpsInv, TypeInv, Request, Answer, Given, server, identity
<1>5. \A x \in Call : conn'[x] = IF x = c THEN None ELSE conn[x]
  BY <1>1 DEF VpsInv, TypeInv, Request, Answer, Given, server, identity
<1>6. /\ "ok" \in {"ok", "notFound", "error"}
      /\ "ok" = "ok" => conn[c].code = 200 /\ took[<<c, op>>] /\ <<c, op>> \notin late
      /\ "ok" = "notFound" => conn[c].code = 404 /\ <<c, op>> \notin late
      /\ "ok" = "ok" /\ op = "order" => conn[c].vm = got[<<c, op>>]
  <2>1. /\ Reader(op, conn[c]) = "ok"
        /\ conn[c].code = 200 => took[<<c, op>>] /\ <<c, op>> \notin late
        /\ conn[c].code = 404 => <<c, op>> \notin late
        /\ conn[c].code = 200 /\ op = "order" => conn[c].vm = got[<<c, op>>]
    BY <1>1 DEF Answer, VpsInv, CallInv, Connection
  <2> QED BY <1>1, <2>1, Reads
<1>7. phase'[<<c, op>>] = "ok" /\ <<c, op>> \notin late
  BY <1>1, <1>4, <1>6 DEF Phase
<1>8. TypeInv'
  <2>1. pc' \in [Call -> Ended \cup Op \cup {"reload", "createBySoftlayer"}]
    BY <1>1 DEF VpsInv, TypeInv, Request, Op, Answer, Given, server, identity,
      Ended
  <2>2. phase' \in [Request -> {"unsent", "open", "ok", "notFound", "failed"}]
    BY <1>1 DEF VpsInv, TypeInv, Request, Op, Answer, Given, server, identity,
      Phase
  <2>3. conn' \in [Call -> Replies \cup {None}]
    BY <1>1, ReplyIsSome DEF VpsInv, TypeInv, Request, Op, Answer, Given,
      server, identity
  <2>4. users' \in [Guest -> SUBSET (Call \cup {First})]
    BY <1>1 DEF VpsInv, TypeInv, Request, Op, Answer, Given, server, identity
  <2> QED BY <1>2, <2>1, <2>2, <2>3, <2>4 DEF VpsInv, TypeInv
<1>9. \A x \in Call \ {c} : Same(x)
  <2> SUFFICES ASSUME NEW x \in Call, x # c PROVE Same(x)
    OBVIOUS
  <2>1. UNCHANGED <<kind[x], want[x], vm[x], maker[x], pc[x], conn[x]>>
    BY <1>1, <1>2, <1>3, <1>4, <1>5, <1>6, <1>7
  <2>2. \A o \in Op : /\ UNCHANGED <<phase[<<x, o>>], body[<<x, o>>], took[<<x, o>>],
                                     missed[<<x, o>>], got[<<x, o>>]>>
                      /\ <<x, o>> \in late' => <<x, o>> \in late
    BY <1>1, <1>2, <1>3, <1>4, <1>5, <1>6, <1>7, ZenonT(60)
  <2> QED BY <2>1, <2>2 DEF Same
<1>10. Course(c) /\ Connection(c) /\ \A o \in Op : Effect(c, o)
  BY DEF VpsInv, CallInv
<1>11. Course(c)'
  <2>1. \A o \in Op : phase'[<<c, o>>] = "unsent" <=> phase[<<c, o>>] = "unsent"
    BY <1>1, <1>4, <1>7
  <2>2. pc'[c] = "ok" /\ kind[c] # None
    BY <1>1, <1>3, <1>10, OpsAre DEF Course
  <2> QED BY <1>2, <2>1, <2>2, <1>10, OpsAre DEF Course
<1>12. Connection(c)'
  <2>1. \A o \in Op : phase[<<c, o>>] # "failed" /\ (o # op => phase[<<c, o>>] # "open")
    BY <1>1, OpsAre, <1>10 DEF Connection
  <2> QED BY <1>4, <1>5, <1>7, <2>1 DEF Connection
<1>13. ASSUME NEW o \in Op PROVE Effect(c, o)'
  <2>1. phase'[<<c, o>>] = "unsent" <=> phase[<<c, o>>] = "unsent"
    BY <1>1, <1>4, <1>7
  <2>2. <<c, o>> \in late => phase'[<<c, o>>] \in {"open", "failed"}
    BY <1>4, <1>7, <1>10 DEF Effect
  <2> QED BY <1>2, <2>1, <2>2, <1>10 DEF Effect
<1>14. CallInv'
  BY <1>9, <1>11, <1>12, <1>13, OthersKept DEF VpsInv, CallInv
<1>15. UserInv' /\ DeleteInv' /\ SpecInv' /\ ClaimInv'
  <2>1. \A x \in Call : (Returned(x)' <=> Returned(x)) /\ \A g \in Guest : (Makes(x, g)' <=> Makes(x, g))
    BY <1>2 DEF Returned, Makes

  <2>10. /\ vm[c] \in Guest /\ kind[c] = "delete" /\ Returned(c)
         /\ Deletes(c, vm[c]) /\ \A g \in Guest : Deletes(c, g) => g = vm[c]
         /\ \A g \in Guest : c \notin users[g]
    <3>1. kind[c] = "delete" /\ kind[c] # "create" /\ Active(c)
      BY <1>1, Kinds DEF Active, Ended
    <3>2. vm[c] \in Guest
      BY <3>1, <1>10 DEF Course
    <3>3. \A g \in Guest : c \notin users[g]
      BY <3>1, VpsAssumption DEF VpsInv, UserInv
    <3> QED BY <1>6, <3>1, <3>2, <3>3 DEF Deletes, Returned
  <2>11. \A g \in Guest : users'[g] = IF g = vm[c] THEN users[g] \ {maker[c]} ELSE users[g]
    BY <2>10 DEF VpsInv, TypeInv, Given
  <2>12. \A g \in Guest : ~Deletes(c, g)'
    BY <1>3 DEF Deletes, Active, Ended
  <2>13. \A x \in Call, g \in Guest : x # c =>
            (Deletes(x, g)' <=> Deletes(x, g)) /\ maker'[x] = maker[x]
    BY <1>9 DEF Same, Deletes, Active
  <2>2. UserInv'
    <3> SUFFICES ASSUME NEW g \in Guest, NEW x \in users'[g] \ {First}
                 PROVE  pc'[x] = "ok" /\ kind'[x] = "create" /\ Makes(x, g)'
      BY DEF UserInv
    <3>1. x \in users[g] /\ x \in Call /\ x # c
      <4>1. x \in users[g]
        BY <2>11
      <4>2. users[g] \subseteq Call \cup {First}
        BY DEF VpsInv, TypeInv
      <4> QED BY <2>10, <4>1, <4>2
    <3>2. pc[x] = "ok" /\ kind[x] = "create" /\ Makes(x, g)
      BY <3>1 DEF VpsInv, UserInv
    <3> QED BY <2>1, <3>1, <3>2, <1>9 DEF Same
  <2>4. DeleteInv'
    <3>1. ASSUME NEW g \in Guest, NEW x \in Call, Deletes(x, g)' PROVE maker'[x] \in users'[g]
      <4>1. x # c /\ Deletes(x, g) /\ maker'[x] = maker[x]
        BY <2>12, <2>13, <3>1
      <4>2. g # vm[c] /\ maker[x] \in users[g]
        BY <2>10, <4>1 DEF VpsInv, DeleteInv
      <4> QED BY <2>11, <4>1, <4>2
    <3>2. ASSUME NEW g \in Guest, NEW d \in Call, NEW e \in Call, Deletes(d, g)', Deletes(e, g)'
          PROVE  d = e
      <4>1. Deletes(d, g) /\ Deletes(e, g)
        BY <2>12, <2>13, <3>2
      <4> QED BY <4>1 DEF VpsInv, DeleteInv
    <3> QED BY <3>1, <3>2 DEF DeleteInv
  <2>5. \A g \in Guest, x \in Call \cup {First} : Claims(x, g)' => Claims(x, g)
    <3> SUFFICES ASSUME NEW g \in Guest, NEW x \in Call \cup {First}, Claims(x, g)'
                 PROVE  Claims(x, g)
      OBVIOUS
    <3>1. x \in users[g] \/ (x \in Call /\ Makes(x, g) /\ pc[x] # "ok")
      BY <1>1, <2>1, <2>11, <1>9 DEF Claims, Same
    <3>2. ASSUME NEW d \in Call, Deletes(d, g), Returned(d) PROVE maker[d] # x
      <4>1. CASE d # c
        BY <2>1, <2>13, <3>2, <4>1 DEF Claims
      <4>2. CASE d = c
        <5>1. g = vm[c] /\ maker[c] \in users[g]
          BY <2>10, <3>2, <4>2 DEF VpsInv, DeleteInv
        <5>2. maker[c] \notin users'[g]
          BY <2>11, <5>1
        <5>3. maker[c] \in Call => pc'[maker[c]] = "ok"
          <6>1. maker[c] \in Call => maker[c] # First /\ maker[c] # c
            BY <2>10, <5>1, VpsAssumption
          <6>2. maker[c] \in Call => pc[maker[c]] = "ok"
            BY <5>1, <6>1 DEF VpsInv, UserInv
          <6> QED BY <6>1, <6>2, <1>9 DEF Same
        <5> QED BY <4>2, <5>2, <5>3 DEF Claims
      <4> QED BY <4>1, <4>2
    <3> QED BY <3>1, <3>2 DEF Claims
  <2>6. ClaimInv'
    <3> SUFFICES ASSUME NEW g \in Guest, g \notin Doubtful' PROVE Claimed(g)'
      BY DEF ClaimInv
    <3>1. g \notin Doubtful
      <4>1. \A d \in Call : Doubts(d, g) => Doubts(d, g)'
        BY <1>9, <1>1, OpsAre DEF Doubts, Same
      <4> QED BY <4>1, DoubtfulIs
    <3>2. Claimed(g)
      BY <3>1 DEF VpsInv, ClaimInv
    <3> QED BY <1>2, <2>5, <3>2 DEF Claimed
  <2>7. SpecInv'
    BY <1>2 DEF VpsInv, SpecInv

  <2> QED BY <2>2, <2>4, <2>6, <2>7
<1> QED BY <1>8, <1>14, <1>15 DEF VpsInv

-----------------------------------------------------------------------------
(* What the server does.                                                   *)

\* The request of r has had its effect, the first time.
Took(r) == took' = [took EXCEPT ![r] = TRUE] /\ UNCHANGED missed

\* What carrying a request out comes to: an order takes a free guest of the
\* size that was asked for, the others write the entry of their guest.
LEMMA CarryIs ==
  ASSUME VpsInv, NEW c \in Call, NEW op \in Op, NEW reply, Carry(<<c, op>>, reply),
         phase[<<c, op>>] # "unsent", ~took[<<c, op>>]
  PROVE  \/ /\ op = "order" /\ Took(<<c, op>>)
            /\ \E g \in Guest :
                  /\ reply = Reply(200, g) /\ got' = [got EXCEPT ![<<c, op>>] = g]
                  /\ pool[g] # NoEntry /\ pool[g].state = "free" /\ SizeOf[g] = want[c]
                  /\ pool' = [pool EXCEPT ![g] = [state |-> "provisioning", spec |-> SizeOf[g]]]
         \/ /\ op \in {"update", "add", "free"} /\ Took(<<c, op>>) /\ UNCHANGED got
            /\ reply = Reply(200, None)
            /\ pool' = [pool EXCEPT ![vm[c]] = [state |-> IF op = "update" THEN "using" ELSE "free",
                                                spec |-> SizeOf[vm[c]]]]
         \/ op = "get" /\ Took(<<c, op>>) /\ UNCHANGED <<pool, got>> /\ reply = Reply(200, None)
         \/ /\ op # "add" /\ UNCHANGED <<pool, took, got>> /\ reply = Reply(404, None)
            /\ missed' = [missed EXCEPT ![<<c, op>>] = TRUE]
<1>1. Effect(c, op) /\ <<c, op>> \in Request /\ DOMAIN got = Request
  BY DEF VpsInv, CallInv, TypeInv, Request
<1>2. /\ body[<<c, op>>].op = op
      /\ op = "order" => body[<<c, op>>].state = "free" /\ body[<<c, op>>].spec = want[c]
      /\ op # "order" => body[<<c, op>>].guest = vm[c] /\ vm[c] \in Guest
      /\ op = "update" => body[<<c, op>>].state = "using"
      /\ op \in {"add", "free"} => body[<<c, op>>].state = "free"
      /\ op \in {"add", "update"} => body[<<c, op>>].spec = SizeOf[vm[c]]
      /\ got[<<c, op>>] = None
  BY <1>1 DEF Effect
<1>3. \A g \in Guest : pool[g] # NoEntry =>
         /\ pool[g] \in [state : States, spec : Size]
         /\ pool[g].spec = SizeOf[g]
  BY DEF VpsInv, TypeInv, SpecInv
<1>4. \A g \in Guest : \A s : pool[g] # NoEntry =>
         [pool EXCEPT ![g].state = s] = [pool EXCEPT ![g] = [state |-> s, spec |-> SizeOf[g]]]
  <2> SUFFICES ASSUME NEW g \in Guest, NEW s, pool[g] # NoEntry
               PROVE  [pool[g] EXCEPT !.state = s] = [state |-> s, spec |-> SizeOf[g]]
    OBVIOUS
  <2> QED BY <1>3
<1>5. [got EXCEPT ![<<c, op>>] = None] = got
  BY <1>1, <1>2 DEF VpsInv, TypeInv
<1>6. CASE op = "order"
  <2>1. \/ \E g \in Guest : /\ Offered(g, body[<<c, op>>]) /\ reply = Reply(200, g)
                            /\ pool' = [pool EXCEPT ![g].state = "provisioning"]
                            /\ got' = [got EXCEPT ![<<c, op>>] = g] /\ Took(<<c, op>>)
        \/ UNCHANGED <<pool, took, got>> /\ reply = Reply(404, None)
           /\ missed' = [missed EXCEPT ![<<c, op>>] = TRUE]
    BY <1>2, <1>6 DEF Carry, Took
  <2>2. \A g \in Guest : Offered(g, body[<<c, op>>]) =>
           pool[g] # NoEntry /\ pool[g].state = "free" /\ SizeOf[g] = want[c]
    BY <1>2, <1>3, <1>6, VpsAssumption DEF Offered
  <2> QED BY <1>4, <1>6, <2>1, <2>2, ZenonT(60)
<1>7. CASE op \in {"add", "update"}
  <2>1. \/ /\ pool' = [pool EXCEPT ![vm[c]] = [state |-> body[<<c, op>>].state,
                                               spec |-> body[<<c, op>>].spec]]
           /\ got' = [got EXCEPT ![<<c, op>>] = None] /\ Took(<<c, op>>) /\ reply = Reply(200, None)
        \/ op # "add" /\ UNCHANGED <<pool, took, got>> /\ reply = Reply(404, None)
           /\ missed' = [missed EXCEPT ![<<c, op>>] = TRUE]
    BY <1>2, <1>7 DEF Carry, Took
  <2> QED BY <1>2, <1>5, <1>7, <2>1
<1>8. CASE op = "free"
  <2>1. \/ /\ pool' = [pool EXCEPT ![vm[c]].state = "free"] /\ pool[vm[c]] # NoEntry
           /\ got' = [got EXCEPT ![<<c, op>>] = None] /\ Took(<<c, op>>) /\ reply = Reply(200, None)
        \/ UNCHANGED <<pool, took, got>> /\ reply = Reply(404, None)
           /\ missed' = [missed EXCEPT ![<<c, op>>] = TRUE]
    BY <1>2, <1>8 DEF Carry, Took
  <2> QED BY <1>2, <1>4, <1>5, <1>8, <2>1, ZenonT(60)
<1>9. CASE op = "get"
  <2>1. \/ /\ UNCHANGED pool /\ Took(<<c, op>>) /\ reply = Reply(200, None)
           /\ got' = [got EXCEPT ![<<c, op>>] = None]
        \/ UNCHANGED <<pool, took, got>> /\ reply = Reply(404, None)
           /\ missed' = [missed EXCEPT ![<<c, op>>] = TRUE]
    BY <1>2, <1>9 DEF Carry, Took
  <2> QED BY <1>5, <1>9, <2>1
<1> QED BY <1>6, <1>7, <1>8, <1>9, OpsAre

\* What the answer tells of it.
LEMMA CarryTells ==
  ASSUME VpsInv, NEW c \in Call, NEW op \in Op, NEW reply, Carry(<<c, op>>, reply),
         phase[<<c, op>>] # "unsent", ~took[<<c, op>>]
  PROVE  /\ reply.code = 200 => took' = [took EXCEPT ![<<c, op>>] = TRUE]
         /\ reply.code = 200 /\ op = "order" => got' = [got EXCEPT ![<<c, op>>] = reply.vm]
         /\ reply.code = 404 => took' = took /\ missed' = [missed EXCEPT ![<<c, op>>] = TRUE]
<1>1. /\ Reply(404, None).code = 404 /\ Reply(200, None).code = 200
      /\ \A h \in Guest : Reply(200, h).code = 200 /\ Reply(200, h).vm = h
  BY ReplyIsSome
<1>2. \/ /\ op = "order" /\ Took(<<c, op>>)
         /\ \E g \in Guest :
               /\ reply = Reply(200, g) /\ got' = [got EXCEPT ![<<c, op>>] = g]
               /\ pool[g] # NoEntry /\ pool[g].state = "free" /\ SizeOf[g] = want[c]
               /\ pool' = [pool EXCEPT ![g] = [state |-> "provisioning", spec |-> SizeOf[g]]]
      \/ /\ op \in {"update", "add", "free"} /\ Took(<<c, op>>) /\ UNCHANGED got
         /\ reply = Reply(200, None)
         /\ pool' = [pool EXCEPT ![vm[c]] = [state |-> IF op = "update" THEN "using" ELSE "free",
                                             spec |-> SizeOf[vm[c]]]]
      \/ op = "get" /\ Took(<<c, op>>) /\ UNCHANGED <<pool, got>> /\ reply = Reply(200, None)
      \/ /\ op # "add" /\ UNCHANGED <<pool, took, got>> /\ reply = Reply(404, None)
         /\ missed' = [missed EXCEPT ![<<c, op>>] = TRUE]
  BY CarryIs
<1>3. CASE /\ Took(<<c, op>>)
           /\ \E g \in Guest : reply = Reply(200, g) /\ got' = [got EXCEPT ![<<c, op>>] = g]
  <2>1. PICK g \in Guest : reply = Reply(200, g) /\ got' = [got EXCEPT ![<<c, op>>] = g]
    BY <1>3
  <2>2. reply.code = 200 /\ reply.vm = g
    BY <1>1, <2>1
  <2>3. took' = [took EXCEPT ![<<c, op>>] = TRUE]
    BY <1>3 DEF Took
  <2>4. got' = [got EXCEPT ![<<c, op>>] = reply.vm]
    BY <2>1, <2>2
  <2> QED BY <2>2, <2>3, <2>4
<1>4. CASE op # "order" /\ Took(<<c, op>>) /\ reply = Reply(200, None)
  BY <1>1, <1>4 DEF Took
<1>5. CASE /\ UNCHANGED took /\ reply = Reply(404, None)
           /\ missed' = [missed EXCEPT ![<<c, op>>] = TRUE]
  BY <1>1, <1>5
<1> QED BY <1>2, <1>3, <1>4, <1>5

\* What it leaves alone.
LEMMA CarryLeaves ==
  ASSUME VpsInv, NEW c \in Call, NEW op \in Op, NEW reply, Carry(<<c, op>>, reply),
         phase[<<c, op>>] # "unsent", ~took[<<c, op>>],
         NEW x \in Call, NEW o \in Op, x # c \/ o # op
  PROVE  /\ took'[<<x, o>>] = took[<<x, o>>]
         /\ missed'[<<x, o>>] = missed[<<x, o>>]
         /\ got'[<<x, o>>] = got[<<x, o>>]
<1>1. took' = took \/ took' = [took EXCEPT ![<<c, op>>] = TRUE]
  BY CarryIs DEF Took
<1>2. missed' = missed \/ missed' = [missed EXCEPT ![<<c, op>>] = TRUE]
  BY CarryIs DEF Took
<1>3. got' = got \/ \E h \in Guest : got' = [got EXCEPT ![<<c, op>>] = h]
  BY CarryIs
<1>4. DOMAIN took = Request /\ DOMAIN missed = Request /\ DOMAIN got = Request
  BY DEF VpsInv, TypeInv
<1>5. <<x, o>> \in Request /\ <<x, o>> # <<c, op>>
  BY DEF Request
<1> QED BY <1>1, <1>2, <1>3, <1>4, <1>5

\* What carrying a request out does to the claims: an order claims a guest
\* that nobody claimed, and the pool has a guest back only when the one claim
\* to it ends, or when its delete_vm has failed.
LEMMA CarryKeepsClaims ==
  ASSUME VpsInv, NEW c \in Call, NEW op \in Op, NEW reply, Carry(<<c, op>>, reply),
         UNCHANGED <<identity, vm, pc, phase, users>>,
         phase[<<c, op>>] \in {"open", "failed"}, ~took[<<c, op>>]
  PROVE  UserInv' /\ DeleteInv' /\ SpecInv' /\ ClaimInv'
<1>1. /\ Course(c) /\ Connection(c) /\ Effect(c, op)
      /\ UNCHANGED <<kind, want, maker>> /\ <<c, op>> \in Request
      /\ took \in [Request -> BOOLEAN] /\ pool \in [Guest -> [state : States, spec : Size] \cup {NoEntry}]
      /\ DOMAIN got = Request
  BY DEF VpsInv, CallInv, TypeInv, identity, Request
<1>2. op # "order" => vm[c] \in Guest
  BY <1>1 DEF Effect
<1>3. op = "order" => pc[c] \in {"order", "failed"}
  BY <1>1 DEF Connection
<1>4. \A x \in Call, o \in Op : /\ took[<<x, o>>] => took'[<<x, o>>]
                                /\ x # c \/ o # op => took'[<<x, o>>] = took[<<x, o>>]
  <2>1. took' = took \/ took' = [took EXCEPT ![<<c, op>>] = TRUE]
    BY CarryIs DEF Took
  <2> QED BY <1>1, <2>1 DEF Request
<1>5. \A x \in Call, o \in Op : x # c \/ op # "order" \/ o # op => got'[<<x, o>>] = got[<<x, o>>]
  <2>1. got' = got \/ (op = "order" /\ \E g \in Guest : got' = [got EXCEPT ![<<c, op>>] = g])
    BY CarryIs
  <2> QED BY <1>1, <2>1 DEF Request
<1>6. /\ \A x \in Call, g \in Guest : Makes(x, g) => Makes(x, g)'
      /\ \A x \in Call, g \in Guest : x # c \/ op # "order" => (Makes(x, g)' <=> Makes(x, g))
  BY <1>4, <1>5, OpsAre DEF Makes
<1>7. /\ \A x \in Call : Returned(x) => Returned(x)'
      /\ \A x \in Call, g \in Guest : Deletes(x, g)' <=> Deletes(x, g)
      /\ \A g \in Guest : g \in Doubtful' <=> g \in Doubtful
  <2>1. \A x \in Call, g \in Guest : Doubts(x, g)' <=> Doubts(x, g)
    BY <1>1 DEF Doubts
  <2> QED BY <1>1, <1>4, <2>1, OpsAre, DoubtfulIs DEF Returned, Deletes, Active
<1>8. UserInv'
  <2>1. \A g \in Guest : users[g] \ {First} \subseteq Call
    BY DEF VpsInv, TypeInv
  <2> QED BY <1>1, <1>6, <2>1 DEF VpsInv, UserInv
<1>9. DeleteInv'
  BY <1>1, <1>7 DEF VpsInv, DeleteInv
<1>10. SpecInv'
  <2>1. \/ UNCHANGED pool
        \/ \E g \in Guest : \E s : pool' = [pool EXCEPT ![g] = [state |-> s, spec |-> SizeOf[g]]]
    BY <1>2, CarryIs, ZenonT(60)
  <2> QED BY <1>1, <2>1 DEF VpsInv, SpecInv
<1>11. \A g \in Guest, x \in Call \cup {First} :
          Claims(x, g)' => Claims(x, g) \/ (x = c /\ op = "order" /\ Makes(c, g)' /\ ~Makes(c, g))
  <2> SUFFICES ASSUME NEW g \in Guest, NEW x \in Call \cup {First}, Claims(x, g)',
                      ~(x = c /\ op = "order" /\ Makes(c, g)' /\ ~Makes(c, g))
               PROVE  Claims(x, g)
    OBVIOUS
  <2>1. x \in users[g] \/ (x \in Call /\ Makes(x, g) /\ pc[x] # "ok")
    BY <1>6 DEF Claims
  <2>2. \A d \in Call : Deletes(d, g) /\ Returned(d) => maker[d] # x
    BY <1>1, <1>7 DEF Claims
  <2> QED BY <2>1, <2>2 DEF Claims
<1>12. CASE UNCHANGED pool /\ op # "order"
  <2> SUFFICES ASSUME NEW g \in Guest, g \notin Doubtful' PROVE Claimed(g)'
    BY <1>8, <1>9, <1>10 DEF ClaimInv
  <2>1. Claimed(g)
    BY <1>7 DEF VpsInv, ClaimInv
  <2> QED BY <1>11, <1>12, <2>1 DEF Claimed
<1>13. CASE op = "order"
  <2> SUFFICES ASSUME NEW g \in Guest, g \notin Doubtful' PROVE Claimed(g)'
    BY <1>8, <1>9, <1>10 DEF ClaimInv
  <2>1. Claimed(g) /\ ~Makes(c, g)
    BY <1>7, <1>13 DEF VpsInv, ClaimInv, Makes
  <2>2. CASE UNCHANGED <<pool, took, got>>
    <3>1. ~Makes(c, g)'
      BY <2>1, <2>2 DEF Makes
    <3> QED BY <1>11, <2>1, <2>2, <3>1 DEF Claimed
  <2>3. CASE \E h \in Guest :
                /\ pool[h] # NoEntry /\ pool[h].state = "free" /\ got' = [got EXCEPT ![<<c, op>>] = h]
                /\ pool' = [pool EXCEPT ![h] = [state |-> "provisioning", spec |-> SizeOf[h]]]
    <3>1. PICK h \in Guest :
                /\ pool[h] # NoEntry /\ pool[h].state = "free" /\ got' = [got EXCEPT ![<<c, op>>] = h]
                /\ pool' = [pool EXCEPT ![h] = [state |-> "provisioning", spec |-> SizeOf[h]]]
      BY <2>3
    <3>2. Makes(c, g)' => g = h
      BY <1>1, <1>13, <3>1 DEF Makes
    <3>3. CASE g = h
      <4>1. \A x \in Call \cup {First} : ~Claims(x, g)
        BY <2>1, <3>1, <3>3 DEF Claimed
      <4>2. pool'[g].state = "provisioning"
        BY <1>1, <3>1, <3>3
      <4> QED BY <1>11, <4>1, <4>2 DEF Claimed
    <3>4. CASE g # h
      <4>1. pool'[g] = pool[g] /\ ~Makes(c, g)'
        BY <1>1, <3>1, <3>2, <3>4
      <4> QED BY <1>11, <2>1, <4>1 DEF Claimed
    <3> QED BY <3>3, <3>4
  <2> QED BY <1>13, <2>2, <2>3, CarryIs, ZenonT(60)
<1>14. CASE /\ op \in {"update", "add", "free"} /\ Took(<<c, op>>)
            /\ pool' = [pool EXCEPT ![vm[c]] = [state |-> IF op = "update" THEN "using" ELSE "free",
                                                spec |-> SizeOf[vm[c]]]]
  <2> SUFFICES ASSUME NEW g \in Guest, g \notin Doubtful' PROVE Claimed(g)'
    BY <1>8, <1>9, <1>10 DEF ClaimInv
  <2>1. Claimed(g) /\ g \notin Doubtful
    BY <1>7 DEF VpsInv, ClaimInv
  <2>2. \A x \in Call \cup {First} : Claims(x, g)' => Claims(x, g)
    BY <1>11, <1>14
  <2>3. CASE g # vm[c]
    <3>1. pool'[g] = pool[g]
      BY <1>1, <1>14, <2>3
    <3> QED BY <2>1, <2>2, <3>1 DEF Claimed
  <2>4. CASE g = vm[c] /\ op = "update"
    <3>1. pool'[g].state = "using"
      BY <1>1, <1>14, <2>4
    <3> QED BY <2>1, <2>2, <3>1 DEF Claimed
  <2>5. CASE g = vm[c] /\ op \in {"add", "free"}
    <3>1. kind[c] = "delete"
      BY <1>1, <2>5, OpsAre DEF Course
    <3>2. phase[<<c, op>>] = "failed" => Doubts(c, g)
      BY <1>1, <2>5, <3>1 DEF Connection, Doubts
    <3>3. phase[<<c, op>>] = "open" /\ pc[c] = op
      BY <1>1, <2>1, <3>2, DoubtfulIs DEF Connection
    <3>4. Deletes(c, g) /\ ~Returned(c)
      <4>1. Deletes(c, g)
        BY <2>5, <3>1, <3>3 DEF Deletes, Active, Ended
      <4>2. \A o \in {"add", "free"} : o # op => phase[<<c, o>>] = "unsent"
        BY <1>1, <2>5, <3>3 DEF Course
      <4>3. \A o \in Op : phase[<<c, o>>] = "unsent" => ~took[<<c, o>>]
        BY DEF VpsInv, CallInv, Effect
      <4>4. \A o \in {"add", "free"} : ~took[<<c, o>>]
        BY <2>5, <4>2, <4>3, OpsAre
      <4> QED BY <4>1, <4>4 DEF Returned
    <3>5. Claims(maker[c], g)
      <4>1. maker[c] \in users[g]
        BY <3>4 DEF VpsInv, DeleteInv
      <4>2. \A d \in Call : Deletes(d, g) => d = c
        BY <3>4 DEF VpsInv, DeleteInv
      <4> QED BY <3>4, <4>1, <4>2 DEF Claims
    <3>6. \A x \in Call \cup {First} : Claims(x, g) => x = maker[c]
      <4>1. maker[c] \in Call \cup {First}
        BY <3>4 DEF VpsInv, DeleteInv, TypeInv
      <4> QED BY <2>1, <3>5, <4>1 DEF Claimed
    <3>7. Returned(c)' /\ Deletes(c, g)' /\ maker'[c] = maker[c]
      BY <1>1, <1>7, <1>14, <2>5, <3>4 DEF Returned, Took
    <3>8. \A x \in Call \cup {First} : ~Claims(x, g)'
      BY <2>2, <3>6, <3>7 DEF Claims
    <3> QED BY <3>8 DEF Claimed
  <2> QED BY <1>14, <2>3, <2>4, <2>5
<1> QED BY <1>12, <1>13, <1>14, CarryIs

\* What carrying a request out does to the calls, apart from the connection
\* its answer comes over.
LEMMA CarryKeepsCalls ==
  ASSUME VpsInv, NEW c \in Call, NEW op \in Op, NEW reply, Carry(<<c, op>>, reply),
         UNCHANGED <<identity, vm, pc, phase, body, users, faults>>,
         phase[<<c, op>>] \in {"open", "failed"}, ~took[<<c, op>>],
         \A x \in Call : x # c => conn'[x] = conn[x],
         conn' \in [Call -> Replies \cup {None}],
         late' \subseteq late, <<c, op>> \notin late'
  PROVE  /\ TypeInv' /\ Course(c)' /\ \A o \in Op : Effect(c, o)'
         /\ \A x \in Call \ {c} : Same(x)
<1>1. /\ Course(c) /\ Connection(c) /\ \A o \in Op : Effect(c, o)
      /\ UNCHANGED <<kind, want, maker, vm, pc, phase, body, users, faults>>
      /\ <<c, op>> \in Request
  BY DEF VpsInv, CallInv, identity, Request
<1>2. op # "order" => vm[c] \in Guest
  BY <1>1 DEF Effect
<1>3. TypeInv'
  <2>1. took' \in [Request -> BOOLEAN] /\ missed' \in [Request -> BOOLEAN]
    <3>1. took' = took \/ took' = [took EXCEPT ![<<c, op>>] = TRUE]
      BY CarryIs DEF Took
    <3>2. missed' = missed \/ missed' = [missed EXCEPT ![<<c, op>>] = TRUE]
      BY CarryIs, ZenonT(60) DEF Took
    <3> QED BY <3>1, <3>2 DEF VpsInv, TypeInv
  <2>2. got' \in [Request -> Guest \cup {None}]
    <3>1. got' = got \/ \E g \in Guest : got' = [got EXCEPT ![<<c, op>>] = g]
      BY CarryIs, ZenonT(60)
    <3> QED BY <3>1 DEF VpsInv, TypeInv
  <2>3. pool' \in [Guest -> [state : States, spec : Size] \cup {NoEntry}]
    <3>1. \/ UNCHANGED pool
          \/ \E g \in Guest, s \in States : pool' = [pool EXCEPT ![g] = [state |-> s, spec |-> SizeOf[g]]]
      BY <1>2, CarryIs, ZenonT(60) DEF States
    <3>2. \A g \in Guest, s \in States : [state |-> s, spec |-> SizeOf[g]] \in [state : States, spec : Size]
      BY VpsAssumption
    <3> QED BY <3>1, <3>2 DEF VpsInv, TypeInv
  <2> QED BY <1>1, <2>1, <2>2, <2>3 DEF VpsInv, TypeInv
<1>4. \A x \in Call, o \in Op : /\ took[<<x, o>>] => took'[<<x, o>>]
                                /\ x # c \/ o # op => UNCHANGED <<took[<<x, o>>], missed[<<x, o>>]>>
  <2>1. took' = took \/ took' = [took EXCEPT ![<<c, op>>] = TRUE]
    BY CarryIs DEF Took
  <2>2. missed' = missed \/ missed' = [missed EXCEPT ![<<c, op>>] = TRUE]
    BY CarryIs DEF Took
  <2>3. took \in [Request -> BOOLEAN] /\ missed \in [Request -> BOOLEAN]
    BY DEF VpsInv, TypeInv
  <2>4. ASSUME NEW x \in Call, NEW o \in Op
        PROVE  /\ took[<<x, o>>] => took'[<<x, o>>]
               /\ x # c \/ o # op => UNCHANGED took[<<x, o>>]
    BY <1>1, <2>1, <2>3 DEF Request
  <2>5. ASSUME NEW x \in Call, NEW o \in Op, x # c \/ o # op
        PROVE  UNCHANGED missed[<<x, o>>]
    BY <1>1, <2>2, <2>3, <2>5 DEF Request
  <2> QED BY <2>4, <2>5
<1>5. \A x \in Call, o \in Op : x # c \/ op # "order" \/ o # op => got'[<<x, o>>] = got[<<x, o>>]
  <2>1. got' = got \/ (op = "order" /\ \E g \in Guest : got' = [got EXCEPT ![<<c, op>>] = g])
    BY CarryIs
  <2> QED BY <1>1, <2>1 DEF VpsInv, TypeInv, Request
<1>6. ASSUME NEW x \in Call, x # c PROVE Same(x)
  <2>1. UNCHANGED <<kind[x], want[x], vm[x], maker[x], pc[x], conn[x]>>
    BY <1>1, <1>6
  <2>2. \A o \in Op : UNCHANGED <<phase[<<x, o>>], body[<<x, o>>], took[<<x, o>>],
                                  missed[<<x, o>>], got[<<x, o>>]>>
    BY <1>1, <1>4, <1>5, <1>6
  <2> QED BY <2>1, <2>2 DEF Same
<1>7. Course(c)'
  <2>1. took[<<c, "order">>] => op # "order"
    OBVIOUS
  <2> QED BY <1>1, <1>4, <1>5, <2>1, OpsAre DEF Course
<1>8. ASSUME NEW o \in Op PROVE Effect(c, o)'
  <2>1. CASE o # op
    <3>1. took'[<<c, o>>] = took[<<c, o>>] /\ got'[<<c, o>>] = got[<<c, o>>]
      BY <1>4, <1>5, <2>1
    <3> QED BY <1>1, <3>1 DEF Effect
  <2>2. CASE o = op
    <3>1. phase[<<c, o>>] # "unsent" /\ <<c, o>> \notin late'
      BY <2>2
    <3>2. op # "order" => got'[<<c, o>>] = None
      BY <1>1, <1>5, <2>2 DEF Effect
    <3>3. op = "order" => \/ /\ took'[<<c, o>>]
                             /\ got'[<<c, o>>] \in Guest /\ SizeOf[got'[<<c, o>>]] = want[c]
                          \/ ~took'[<<c, o>>] /\ got'[<<c, o>>] = got[<<c, o>>]
      <4>1. ASSUME op = "order"
            PROVE  \/ /\ took' = [took EXCEPT ![<<c, op>>] = TRUE]
                      /\ \E g \in Guest : SizeOf[g] = want[c] /\ got' = [got EXCEPT ![<<c, op>>] = g]
                   \/ UNCHANGED <<took, got>>
        BY <4>1, CarryIs DEF Took
      <4>2. took \in [Request -> BOOLEAN] /\ DOMAIN got = Request
        BY DEF VpsInv, TypeInv
      <4> QED BY <1>1, <2>2, <4>1, <4>2
    <3>4. ~took[<<c, o>>] => got[<<c, o>>] = None
      BY <1>1 DEF Effect
    <3> QED BY <1>1, <2>2, <3>1, <3>2, <3>3, <3>4 DEF Effect
  <2> QED BY <2>1, <2>2
<1> QED BY <1>3, <1>6, <1>7, <1>8

\* The server answers the request of an open connection.
LEMMA ServeKeeps ==
  ASSUME VpsInv, NEW c \in Call, Serve(c)
  PROVE  VpsInv'
<1>1. /\ pc[c] \in Op /\ conn[c] = Sent /\ conn[c] # None /\ phase[<<c, pc[c]>>] = "open"
      /\ ~took[<<c, pc[c]>>] /\ <<c, pc[c]>> \notin late
      /\ Course(c) /\ Connection(c)
  BY ReplyIsSome DEF Serve, VpsInv, CallInv, Connection
<1>2. PICK code \in {200, 404}, g \in Guest \cup {None} :
         /\ Carry(<<c, pc[c]>>, Reply(code, g))
         /\ conn' = [conn EXCEPT ![c] = Reply(code, g)]
  BY DEF Serve
<1>3. UNCHANGED <<identity, vm, pc, phase, body, late, users, faults>>
  BY DEF Serve
<1>4. /\ conn' \in [Call -> Replies \cup {None}] /\ conn'[c] = Reply(code, g)
      /\ \A x \in Call : x # c => conn'[x] = conn[x]
  BY <1>2, ReplyIsSome DEF VpsInv, TypeInv
<1>5. phase[<<c, pc[c]>>] \in {"open", "failed"} /\ phase[<<c, pc[c]>>] # "unsent"
      /\ late' \subseteq late /\ <<c, pc[c]>> \notin late'
  BY <1>1, <1>3
<1>6. /\ TypeInv' /\ Course(c)' /\ \A o \in Op : Effect(c, o)'
      /\ \A x \in Call \ {c} : Same(x)
  BY <1>1, <1>2, <1>3, <1>4, <1>5, CarryKeepsCalls
<1>7. UserInv' /\ DeleteInv' /\ SpecInv' /\ ClaimInv'
  BY <1>1, <1>2, <1>3, <1>5, CarryKeepsClaims
<1>8. Reply(code, g).code = code /\ Reply(code, g).vm = g
  BY ReplyIsSome
<1>9. /\ Reply(code, g).code = 200 => took' = [took EXCEPT ![<<c, pc[c]>>] = TRUE]
      /\ Reply(code, g).code = 200 /\ pc[c] = "order" =>
            got' = [got EXCEPT ![<<c, pc[c]>>] = Reply(code, g).vm]
      /\ Reply(code, g).code = 404 =>
            took' = took /\ missed' = [missed EXCEPT ![<<c, pc[c]>>] = TRUE]
  BY <1>1, <1>2, <1>5, CarryTells
<1>10. /\ DOMAIN took = Request /\ DOMAIN missed = Request /\ DOMAIN got = Request
       /\ <<c, pc[c]>> \in Request
  BY <1>1 DEF VpsInv, TypeInv, Request
<1>11. code = 200 => took'[<<c, pc[c]>>]
  BY <1>8, <1>9, <1>10
<1>12. code = 200 /\ pc[c] = "order" => got'[<<c, pc[c]>>] = g
  BY <1>8, <1>9, <1>10
<1>13. code = 404 => missed'[<<c, pc[c]>>] /\ ~took'[<<c, pc[c]>>]
  BY <1>1, <1>8, <1>9, <1>10
<1>14. Connection(c)'
  <2>1. /\ conn'[c].code = code /\ conn'[c].vm = g /\ conn'[c] # None /\ code # 0
        /\ conn'[c] # Sent
    BY <1>4, ReplyIsSome
  <2>2. /\ pc'[c] = pc[c] /\ <<c, pc[c]>> \notin late'
        /\ \A o \in Op : phase'[<<c, o>>] = phase[<<c, o>>]
    BY <1>3, <1>5
  <2>3. \A o \in Op : /\ phase[<<c, o>>] = "open" => o = pc[c]
                      /\ phase[<<c, o>>] # "failed"
    BY <1>1, OpsAre DEF Connection
  <2> QED BY <1>1, <1>11, <1>12, <1>13, <2>1, <2>2, <2>3 DEF Connection
<1> QED BY <1>6, <1>7, <1>14, OthersKept DEF VpsInv, CallInv

\* A request that was given up arrives at the server.
LEMMA ServeLateKeeps ==
  ASSUME VpsInv, NEW c \in Call, NEW op \in Op, <<c, op>> \in late, ServeLate(<<c, op>>)
  PROVE  VpsInv'
<1>1. /\ ~took[<<c, op>>] /\ phase[<<c, op>>] \in {"open", "failed"} /\ phase[<<c, op>>] # "unsent"
      /\ Course(c) /\ Connection(c) /\ Effect(c, op)
  BY DEF VpsInv, CallInv, Effect
<1>2. PICK code \in {200, 404}, g \in Guest \cup {None} : Carry(<<c, op>>, Reply(code, g))
  BY DEF ServeLate
<1>3. UNCHANGED <<identity, vm, pc, phase, body, conn, users, faults>> /\ late' = late \ {<<c, op>>}
  BY DEF ServeLate
<1>4. /\ TypeInv' /\ Course(c)' /\ \A o \in Op : Effect(c, o)'
      /\ \A x \in Call \ {c} : Same(x)
  <2>1. conn' \in [Call -> Replies \cup {None}] /\ (\A x \in Call : x # c => conn'[x] = conn[x])
        /\ late' \subseteq late /\ <<c, op>> \notin late'
    BY <1>3 DEF VpsInv, TypeInv
  <2> QED BY <1>1, <1>2, <1>3, <2>1, CarryKeepsCalls
<1>5. UserInv' /\ DeleteInv' /\ SpecInv' /\ ClaimInv'
  BY <1>1, <1>2, <1>3, CarryKeepsClaims
<1>6. Connection(c)'
  <2>2. ASSUME NEW o \in Op, o # op
        PROVE  UNCHANGED <<took[<<c, o>>], missed[<<c, o>>], got[<<c, o>>]>>
    BY <1>1, <1>2, <2>2, CarryLeaves
  <2>3. conn[c] # None /\ pc[c] = op => conn[c] # Sent /\ conn[c].code \notin {200, 404}
    BY <1>1 DEF Connection
  <2>4. conn[c] # None => pc[c] \in Op
    BY <1>1 DEF Connection
  <2>5. CASE conn[c] = None
    BY <1>1, <1>3, <2>5 DEF Connection
  <2>6. CASE conn[c] # None /\ pc[c] = op
    BY <1>1, <1>3, <2>3, <2>6 DEF Connection
  <2>7. CASE conn[c] # None /\ pc[c] # op
    <3>1. UNCHANGED <<took[<<c, pc[c]>>], missed[<<c, pc[c]>>], got[<<c, pc[c]>>]>>
      BY <1>3, <2>2, <2>4, <2>7
    <3> QED BY <1>1, <1>3, <3>1, <2>7 DEF Connection
  <2> QED BY <2>5, <2>6, <2>7
<1> QED BY <1>4, <1>5, <1>6, OthersKept DEF VpsInv, CallInv

-----------------------------------------------------------------------------
(* The invariant.                                                          *)

\* It holds at the start.
LEMMA VpsStarts == ASSUME Init PROVE VpsInv
<1> USE DEF Init
<1>1. \A g \in Guest : /\ users[g] \subseteq {First}
                       /\ pool[g] # NoEntry => pool[g] = [state |-> pool[g].state, spec |-> SizeOf[g]]
                                               /\ pool[g].state \in {"free", "using"}
                       /\ users[g] # {} /\ pool[g] # NoEntry => pool[g].state = "using"
  OBVIOUS
<1>2. TypeInv
  <2>1. \A g \in Guest : pool[g] \in [state : States, spec : Size] \cup {NoEntry}
    BY <1>1, VpsAssumption DEF States
  <2>2. pool \in [Guest -> [state : States, spec : Size] \cup {NoEntry}]
    BY <2>1
  <2>3. users \in [Guest -> SUBSET (Call \cup {First})]
    OBVIOUS
  <2>4. faults \in 0..MaxFaults
    BY VpsAssumption
  <2>5. pc \in [Call -> Ended \cup Op \cup {"reload", "createBySoftlayer"}]
    BY DEF Ended
  <2> QED BY <2>2, <2>3, <2>4, <2>5 DEF TypeInv
<1>3. CallInv
  <2> SUFFICES ASSUME NEW c \in Call
               PROVE  Course(c) /\ Connection(c) /\ \A op \in Op : Effect(c, op)
    BY DEF CallInv
  <2>1. \A op \in Op : <<c, op>> \in Request
    BY DEF Request
  <2>2. \A op \in Op : phase[<<c, op>>] = "unsent" /\ ~took[<<c, op>>] /\ got[<<c, op>>] = None
    BY <2>1
  <2>3. Course(c)
    BY <2>2, OpsAre, VpsAssumption DEF Course
  <2>4. Connection(c)
    BY <2>2 DEF Connection
  <2>5. \A op \in Op : Effect(c, op)
    BY <2>2 DEF Effect
  <2> QED BY <2>3, <2>4, <2>5
<1>4. SpecInv
  BY <1>1 DEF SpecInv
<1>5. UserInv
  BY <1>1 DEF UserInv
<1>6. \A c \in Call, g \in Guest : ~Deletes(c, g) /\ ~Makes(c, g)
  <2>1. \A c \in Call : <<c, "order">> \in Request
    BY OpsAre DEF Request
  <2> QED BY <2>1, VpsAssumption DEF Deletes, Makes
<1>7. DeleteInv
  BY <1>6 DEF DeleteInv
<1>8. ClaimInv
  <2> SUFFICES ASSUME NEW g \in Guest PROVE Claimed(g)
    BY DEF ClaimInv
  <2>1. \A c \in Call \cup {First} : Claims(c, g) => c \in users[g]
    BY <1>6 DEF Claims
  <2> QED BY <1>1, <2>1 DEF Claimed
<1> QED BY <1>2, <1>3, <1>4, <1>5, <1>7, <1>8 DEF VpsInv

\* A step that changes nothing keeps it.
LEMMA StutterKeeps == ASSUME VpsInv, UNCHANGED vars PROVE VpsInv'
<1> USE DEF vars
<1>1. TypeInv' /\ SpecInv' /\ UserInv'
  BY DEF VpsInv, TypeInv, SpecInv, UserInv, Makes
<1>2. CallInv'
  <2> SUFFICES ASSUME NEW c \in Call
               PROVE  Course(c)' /\ Connection(c)' /\ \A op \in Op : Effect(c, op)'
    BY DEF CallInv
  <2>1. Same(c)
    BY DEF Same
  <2> QED BY <2>1, OthersKept DEF VpsInv
<1>3. DeleteInv'
  BY DEF VpsInv, DeleteInv, Deletes, Active
<1>4. ClaimInv'
  <2> SUFFICES ASSUME NEW g \in Guest, g \notin Doubtful' PROVE Claimed(g)'
    BY DEF ClaimInv
  <2>1. g \notin Doubtful
    BY DoubtfulIs DEF Doubts
  <2>2. \A c \in Call \cup {First} : Claims(c, g)' <=> Claims(c, g)
    BY DEF Claims, Makes, Deletes, Returned, Active
  <2> QED BY <2>1, <2>2 DEF VpsInv, ClaimInv, Claimed
<1> QED BY <1>1, <1>2, <1>3, <1>4 DEF VpsInv

\* A gateway or a cut body changes the answer a call will read.
LEMMA SpoilKeeps ==
  ASSUME VpsInv, NEW c \in Call, Spoil(c)
  PROVE  VpsInv'
<1>1. \A code \in {202, 502} : /\ Reply(code, None) \in Replies
                               /\ Reply(code, None).code = code
  BY ReplyIsSome
<1>2. ASSUME conn[c] # None, NEW code \in {202, 502}, conn' = [conn EXCEPT ![c] = Reply(code, None)],
             late' = IF conn[c] = Sent THEN late \cup {<<c, pc[c]>>} ELSE late
      PROVE  VpsInv'
  <2>1. PICK a : a = Reply(code, None)
    OBVIOUS
  <2>2. a \in Replies /\ a.code \in {202, 502} /\ a.code # 0
    BY <1>1, <2>1
  <2>3. conn' = [conn EXCEPT ![c] = a]
    BY <1>2, <2>1
  <2>4. /\ late' \subseteq late \cup {<<c, pc[c]>>}
        /\ ~(conn[c] = Sent /\ a.code \in {202, 502}) => UNCHANGED late
    BY <1>2, <2>2
  <2>5. Spoils(c, a)
    BY <1>2, <2>2, <2>3, <2>4 DEF Spoils
  <2> QED BY <2>2, <2>5, SpoilAnswerKeeps
<1>3. ASSUME UNCHANGED late, Answered(c), conn[c].code = 200, NEW text \in {"none", "cut"},
             conn' = [conn EXCEPT ![c].text = text]
      PROVE  VpsInv'
  <2>1. conn[c] \in Replies /\ conn[c] # None
    BY <1>3 DEF Answered, VpsInv, TypeInv
  <2>2. PICK a : a = [conn[c] EXCEPT !.text = text]
    OBVIOUS
  <2>3. a \in Replies /\ a.text = text /\ a.code = 200
    BY <1>3, <2>1, <2>2 DEF Replies
  <2>4. conn' = [conn EXCEPT ![c] = a]
    BY <1>3, <2>2 DEF VpsInv, TypeInv
  <2>5. a.code = conn[c].code /\ a.vm = conn[c].vm /\ a.code # 0
    BY <1>3, <2>1, <2>2, <2>3 DEF Replies
  <2>6. Spoils(c, a)
    BY <1>3, <2>1, <2>4, <2>5 DEF Spoils
  <2> QED BY <2>3, <2>6, SpoilAnswerKeeps
<1> QED BY <1>2, <1>3 DEF Spoil

\* The answer to the order is read.
LEMMA OrderedKeeps ==
  ASSUME VpsInv, NEW c \in Call, Ordered(c)
  PROVE  VpsInv'
<1>1. PICK y : y = IF pc'[c] = "reload" THEN conn[c].vm ELSE None
  OBVIOUS
<1>2. vm' = [vm EXCEPT ![c] = y] /\ UNCHANGED users /\ "order" \in Op
  BY <1>1, OpsAre DEF Ordered
<1>3. PICK result, next :
         /\ Answer(c, "order", result, next)
         /\ \/ result = "ok" /\ next \in {"crashed", "reload"}
            \/ result = "notFound" /\ next = "createBySoftlayer"
            \/ result = "error" /\ next = "failed"
  BY DEF Ordered
<1>4. pc'[c] = next
  BY <1>3 DEF Answer, VpsInv, TypeInv
<1>5. y \in Guest \cup {None}
  <2>1. conn[c] \in Replies
    BY <1>3 DEF Answer, Answered, VpsInv, TypeInv
  <2> QED BY <1>1, <2>1 DEF Replies
<1>6. next = "reload" => y = conn[c].vm
  BY <1>1, <1>4
<1>7. GoesOn(c, "order", result, next, y)
  BY <1>2, <1>3, <1>6 DEF GoesOn
<1> QED BY <1>2, <1>3, <1>5, <1>7, AnswerKeeps

\* So are the answers to the other requests.
LEMMA OtherAnswerKeeps ==
  ASSUME VpsInv, NEW c \in Call, Updated(c) \/ Looked(c) \/ Added(c) \/ Freed(c)
  PROVE  VpsInv'
<1>1. vm[c] \in Guest \cup {None} /\ [vm EXCEPT ![c] = vm[c]] = vm
  BY DEF VpsInv, TypeInv
<1>2. ASSUME NEW op \in Op \ {"order"}, NEW result, NEW next, Answer(c, op, result, next),
             UNCHANGED <<vm, users>>,
             \/ result = "error" /\ next = "failed"
             \/ result = "notFound" /\ next = "failed" /\ op \in {"update", "free"}
             \/ result = "notFound" /\ next = "add" /\ op = "get"
             \/ result = "ok" /\ next = "free" /\ op = "get"
      PROVE  VpsInv'
  <2>1. PICK y : y = vm[c]
    OBVIOUS
  <2>2. vm' = [vm EXCEPT ![c] = y] /\ y \in Guest \cup {None} /\ UNCHANGED users
    BY <1>1, <1>2, <2>1
  <2>3. GoesOn(c, op, result, next, y)
    BY <1>2, <2>1, <2>2 DEF GoesOn
  <2> QED BY <1>2, <2>2, <2>3, AnswerKeeps
<1>3. CASE Updated(c)
  <2>1. CASE /\ Answer(c, "update", "ok", "ok") /\ UNCHANGED vm
             /\ users' = [users EXCEPT ![vm[c]] = @ \cup {c}]
    BY <2>1, UpdatedKeeps
  <2>2. CASE /\ \E result \in {"notFound", "error"} : Answer(c, "update", result, "failed")
             /\ UNCHANGED <<vm, users>>
    BY <1>2, <2>2, OpsAre
  <2> QED BY <1>3, <2>1, <2>2 DEF Updated
<1>4. CASE Looked(c)
  BY <1>2, <1>4, OpsAre DEF Looked
<1>5. CASE Added(c)
  <2>1. CASE Answer(c, "add", "ok", "ok") /\ Given(c)
    BY <2>1, GivenKeeps
  <2>2. CASE Answer(c, "add", "error", "failed") /\ UNCHANGED <<vm, users>>
    BY <1>2, <2>2, OpsAre
  <2> QED BY <1>5, <2>1, <2>2 DEF Added
<1>6. CASE Freed(c)
  <2>1. CASE Answer(c, "free", "ok", "ok") /\ Given(c)
    BY <2>1, GivenKeeps
  <2>2. CASE /\ \E result \in {"notFound", "error"} : Answer(c, "free", result, "failed")
             /\ UNCHANGED <<vm, users>>
    BY <1>2, <2>2, OpsAre
  <2> QED BY <1>6, <2>1, <2>2 DEF Freed
<1> QED BY <1>3, <1>4, <1>5, <1>6

\* Every step keeps it.
LEMMA VpsKeeps == ASSUME VpsInv, [Next]_vars PROVE VpsInv'
<1>1. CASE UNCHANGED vars
  BY <1>1, StutterKeeps
<1>2. ASSUME NEW c \in Call, NEW s \in Size, Create(c, s) PROVE VpsInv'
  BY <1>2, CreateKeeps
<1>3. ASSUME NEW c \in Call, NEW g \in Guest, NEW u \in users[g], Delete(c, g, u) PROVE VpsInv'
  BY <1>3, DeleteKeeps
<1>4. ASSUME NEW c \in Call, Submit(c) PROVE VpsInv'
  BY <1>4, SubmitKeeps
<1>5. ASSUME NEW c \in Call, Serve(c) PROVE VpsInv'
  BY <1>5, ServeKeeps
<1>6. ASSUME NEW c \in Call, Spoil(c) PROVE VpsInv'
  BY <1>6, SpoilKeeps
<1>7. ASSUME NEW c \in Call, GiveUp(c) PROVE VpsInv'
  BY <1>7, GiveUpKeeps
<1>8. ASSUME NEW c \in Call, Ordered(c) PROVE VpsInv'
  BY <1>8, OrderedKeeps
<1>9. ASSUME NEW c \in Call, CreateBySoftlayer(c) \/ Reload(c) PROVE VpsInv'
  <2>1. PICK next : pc' = [pc EXCEPT ![c] = next]
    BY <1>9 DEF CreateBySoftlayer, Reload
  <2> QED BY <1>9, <2>1, MoveKeeps
<1>10. ASSUME NEW c \in Call, Updated(c) \/ Looked(c) \/ Added(c) \/ Freed(c) PROVE VpsInv'
  BY <1>10, OtherAnswerKeeps
<1>11. ASSUME NEW r \in late, ServeLate(r) PROVE VpsInv'
  <2>1. PICK c \in Call, op \in Op : r = <<c, op>>
    BY DEF VpsInv, TypeInv, Request
  <2>2. <<c, op>> \in late /\ ServeLate(<<c, op>>)
    BY <1>11, <2>1
  <2> QED BY <2>2, ServeLateKeeps
<1> QED BY <1>1, <1>2, <1>3, <1>4, <1>5, <1>6, <1>7, <1>8, <1>9, <1>10, <1>11 DEF Next, AllDone

-----------------------------------------------------------------------------
(* The theorems.                                                           *)

\* The invariant holds always.
THEOREM VpsInductive == Spec => []VpsInv
<1>1. Init => VpsInv
  BY VpsStarts
<1>2. VpsInv /\ [Next]_vars => VpsInv'
  BY VpsKeeps
<1> QED BY <1>1, <1>2, PTL DEF Spec

\* The variables always have the types the code gives them: the entries of
\* the pool above all, which the server takes over from the requests.
THEOREM VpsTypeCorrect == Spec => []TypeOK
<1>1. VpsInv => TypeOK
  <2> SUFFICES ASSUME VpsInv PROVE TypeOK
    OBVIOUS
  <2>1. \A g \in Guest : pool[g] # NoEntry =>
           pool[g].state \in {"free", "provisioning", "using"} /\ pool[g].spec \in Size
    BY DEF VpsInv, TypeInv, States
  <2>2. ASSUME NEW c \in Call, Answered(c) PROVE conn[c].code \in {200, 202, 404, 502}
    <3>1. conn[c] \in Replies /\ conn[c] # None /\ conn[c] # Sent
      BY <2>2 DEF Answered, VpsInv, TypeInv
    <3>2. conn[c].code \in {0, 200, 202, 404, 502}
      BY <3>1 DEF Replies
    <3>3. conn[c].code # 0
      BY <3>1 DEF VpsInv, CallInv, Connection
    <3> QED BY <3>2, <3>3
  <2> QED BY <2>1, <2>2 DEF VpsInv, TypeInv, TypeOK
<1> QED BY <1>1, VpsInductive, PTL

\* A VM made of a guest of the pool has the size that was asked for: the
\* filter of the order is kept by the server and nothing mixes two orders up.
THEOREM SizeAsked == Spec => []SizeIsAsked
<1>1. VpsInv => SizeIsAsked
  <2> SUFFICES ASSUME VpsInv, NEW g \in Guest, NEW c \in users[g] \ {First}
               PROVE  SizeOf[g] = want[c]
    BY DEF SizeIsAsked
  <2>1. c \in Call /\ Makes(c, g)
    BY DEF VpsInv, TypeInv, UserInv
  <2>2. Effect(c, "order")
    BY <2>1, OpsAre DEF VpsInv, CallInv
  <2> QED BY <2>1, <2>2 DEF Makes, Effect
<1> QED BY <1>1, VpsInductive, PTL

\* The VMs that no delete_vm gives back have the claim to their guest.
LEMMA KeptClaims ==
  ASSUME VpsInv, NEW g \in Guest, NEW x \in Kept(g)
  PROVE  x \in Call \cup {First} /\ Claims(x, g)
<1>1. x \in users[g] /\ x \in Call \cup {First}
  BY DEF Kept, VpsInv, TypeInv
<1>2. ASSUME NEW d \in Call, Deletes(d, g), maker[d] = x PROVE FALSE
  BY <1>2 DEF Deletes, Kept
<1> QED BY <1>1, <1>2 DEF Claims

\* A guest is one VM of the director: two create_vm never get the same
\* guest, however their orders, their answers and the deletes overlap.
THEOREM GuestNotShared == Spec => []NoGuestIsShared
<1>1. VpsInv => NoGuestIsShared
  <2> SUFFICES ASSUME VpsInv, NEW g \in Guest \ Doubtful PROVE Cardinality(Kept(g)) <= 1
    BY DEF NoGuestIsShared
  <2>1. \A x, y \in Kept(g) : x = y
    <3>1. Claimed(g)
      BY DEF VpsInv, ClaimInv
    <3> QED BY <3>1, KeptClaims DEF Claimed
  <2>2. CASE Kept(g) = {}
    BY <2>2, FS_EmptySet
  <2>3. CASE Kept(g) # {}
    <3>1. PICK x : Kept(g) = {x}
      BY <2>1, <2>3
    <3> QED BY <3>1, FS_Singleton
  <2> QED BY <2>2, <2>3
<1> QED BY <1>1, VpsInductive, PTL

\* The pool offers no guest that is a VM of the director, even while late
\* requests of failed calls arrive.
THEOREM HeldNotOffered == Spec => []HeldIsNotOffered
<1>1. VpsInv => HeldIsNotOffered
  <2> SUFFICES ASSUME VpsInv, NEW g \in Guest \ Doubtful, NEW x \in Kept(g), pool[g] # NoEntry
               PROVE  pool[g].state # "free"
    BY DEF HeldIsNotOffered
  <2>1. Claimed(g)
    BY DEF VpsInv, ClaimInv
  <2> QED BY <2>1, KeptClaims DEF Claimed
<1> QED BY <1>1, VpsInductive, PTL

-----------------------------------------------------------------------------
(* The client implements PoolContract, whose variables are its own.        *)

\* What the answer says that a request was is what became of it.
LEMMA AnswerTells ==
  ASSUME VpsInv, NEW c \in Call, NEW op \in Op, NEW result, NEW next,
         Answer(c, op, result, next)
  PROVE  /\ result \in {"ok", "notFound", "error"} /\ phase[<<c, op>>] = "open"
         /\ result = "ok" => took[<<c, op>>]
         /\ result = "notFound" => missed[<<c, op>>] /\ ~took[<<c, op>>]
<1>1. pc[c] = op /\ conn[c] \in Replies /\ conn[c] # None
  BY DEF Answer, Answered, VpsInv, TypeInv
<1>2. /\ phase[<<c, op>>] = "open"
      /\ conn[c].code = 200 => took[<<c, op>>]
      /\ conn[c].code = 404 => missed[<<c, op>>] /\ ~took[<<c, op>>]
  BY <1>1 DEF VpsInv, CallInv, Connection
<1>3. Reader(op, conn[c]) = result
  BY DEF Answer
<1> QED BY <1>1, <1>2, <1>3, Reads

\* An answer ends its request as the contract allows.
LEMMA AnswerIsPromised ==
  ASSUME VpsInv, NEW c \in Call, NEW op \in Op, NEW result, NEW next,
         Answer(c, op, result, next)
  PROVE  Contract!Next
<1>1. <<c, op>> \in Request /\ phase[<<c, op>>] = "open"
  BY AnswerTells DEF Request
<1>2. /\ phase' = [phase EXCEPT ![<<c, op>>] = Phase(result)]
      /\ UNCHANGED <<pool, body, took, got, missed>>
  BY DEF Answer, server
<1>3. Contract!Conclude(<<c, op>>, Phase(result))
  BY <1>1, <1>2 DEF Contract!Conclude
<1>4. CASE result = "ok"
  <2>1. Contract!Succeed(<<c, op>>)
    BY <1>3, <1>4, AnswerTells DEF Contract!Succeed, Phase
  <2> QED BY <1>1, <2>1 DEF Contract!Next
<1>5. CASE result = "notFound"
  <2>1. Contract!NotFound(<<c, op>>)
    BY <1>3, <1>5, AnswerTells DEF Contract!NotFound, Phase
  <2> QED BY <1>1, <2>1 DEF Contract!Next
<1>6. CASE result = "error"
  <2>1. Contract!Fail(<<c, op>>)
    BY <1>3, <1>6 DEF Contract!Fail, Phase
  <2> QED BY <1>1, <2>1 DEF Contract!Next
<1> QED BY <1>4, <1>5, <1>6, AnswerTells

\* What the server carries out is what the contract lets it carry out, once.
LEMMA CarryIsPromised ==
  ASSUME VpsInv, NEW c \in Call, NEW op \in Op, NEW reply, Carry(<<c, op>>, reply),
         UNCHANGED <<phase, body>>,
         phase[<<c, op>>] \in {"open", "failed"}, ~took[<<c, op>>]
  PROVE  Contract!Next
<1>1. /\ <<c, op>> \in Request /\ phase[<<c, op>>] # "unsent"
      /\ body[<<c, op>>].op = op
      /\ op = "order" => body[<<c, op>>].state = "free"
      /\ got[<<c, op>>] = None /\ DOMAIN got = Request
  BY DEF Request, VpsInv, TypeInv, CallInv, Effect
<1>2. [got EXCEPT ![<<c, op>>] = None] = got
  BY <1>1 DEF VpsInv, TypeInv
<1>3. \A ops : op \in ops => Contract!Asked(<<c, op>>, ops)
  BY <1>1 DEF Contract!Asked
<1>4. ASSUME took' = [took EXCEPT ![<<c, op>>] = TRUE], UNCHANGED missed
      PROVE  \A ops : op \in ops => Contract!Pending(<<c, op>>, ops)
  BY <1>3, <1>4 DEF Contract!Pending
<1>5. ASSUME op # "add", UNCHANGED <<pool, took, got>>,
             missed' = [missed EXCEPT ![<<c, op>>] = TRUE],
             IF op = "order" THEN \A g \in Guest : ~Contract!Fits(g, body[<<c, op>>])
             ELSE pool[body[<<c, op>>].guest] = NoEntry
      PROVE  Contract!Next
  <2>1. Contract!Asked(<<c, op>>, {"order", "get", "update", "free"})
    BY <1>3, <1>5, OpsAre
  <2>2. Contract!Miss(<<c, op>>)
    BY <1>1, <1>5, <2>1 DEF Contract!Miss
  <2> QED BY <1>1, <2>2 DEF Contract!Next
<1>6. CASE op = "order"
  <2>1. \A g \in Guest : Contract!Fits(g, body[<<c, op>>]) <=> Offered(g, body[<<c, op>>])
    <3>1. None # "free"
      BY VpsAssumption
    <3> QED BY <1>1, <1>6, <3>1 DEF Contract!Fits, Offered
  <2>2. CASE \E g \in Guest : /\ Offered(g, body[<<c, op>>]) /\ UNCHANGED missed
                              /\ pool' = [pool EXCEPT ![g].state = "provisioning"]
                              /\ got' = [got EXCEPT ![<<c, op>>] = g]
                              /\ took' = [took EXCEPT ![<<c, op>>] = TRUE]
    <3>1. Contract!Pending(<<c, op>>, {"order"})
      BY <1>4, <1>6, <2>2
    <3>2. Contract!Take(<<c, op>>)
      BY <2>1, <2>2, <3>1 DEF Contract!Take
    <3> QED BY <1>1, <3>2 DEF Contract!Next
  <2>3. CASE /\ \A g \in Guest : ~Offered(g, body[<<c, op>>])
             /\ UNCHANGED <<pool, took, got>> /\ missed' = [missed EXCEPT ![<<c, op>>] = TRUE]
    BY <1>5, <1>6, <2>1, <2>3
  <2> QED BY <1>1, <1>6, <2>2, <2>3 DEF Carry
<1>7. CASE op \in {"add", "update"}
  <2>1. CASE /\ op = "update" => pool[body[<<c, op>>].guest] # NoEntry
             /\ pool' = [pool EXCEPT ![body[<<c, op>>].guest] =
                            [state |-> body[<<c, op>>].state, spec |-> body[<<c, op>>].spec]]
             /\ got' = [got EXCEPT ![<<c, op>>] = None] /\ UNCHANGED missed
             /\ took' = [took EXCEPT ![<<c, op>>] = TRUE]
    <3>1. Contract!Pending(<<c, op>>, {"add", "update"})
      BY <1>4, <1>7, <2>1
    <3>2. Contract!Put(<<c, op>>)
      BY <1>1, <1>2, <2>1, <3>1 DEF Contract!Put
    <3> QED BY <1>1, <3>2 DEF Contract!Next
  <2>2. CASE /\ op # "add" /\ pool[body[<<c, op>>].guest] = NoEntry
             /\ UNCHANGED <<pool, took, got>> /\ missed' = [missed EXCEPT ![<<c, op>>] = TRUE]
    BY <1>5, <1>7, <2>2
  <2> QED BY <1>1, <1>7, <2>1, <2>2 DEF Carry
<1>8. CASE op = "free"
  <2>1. CASE /\ pool[body[<<c, op>>].guest] # NoEntry
             /\ pool' = [pool EXCEPT ![body[<<c, op>>].guest].state = body[<<c, op>>].state]
             /\ got' = [got EXCEPT ![<<c, op>>] = None] /\ UNCHANGED missed
             /\ took' = [took EXCEPT ![<<c, op>>] = TRUE]
    <3>1. Contract!Pending(<<c, op>>, {"free"})
      BY <1>4, <1>8, <2>1
    <3>2. Contract!SetState(<<c, op>>)
      BY <1>2, <2>1, <3>1 DEF Contract!SetState
    <3> QED BY <1>1, <3>2 DEF Contract!Next
  <2>2. CASE /\ pool[body[<<c, op>>].guest] = NoEntry
             /\ UNCHANGED <<pool, took, got>> /\ missed' = [missed EXCEPT ![<<c, op>>] = TRUE]
    BY <1>5, <1>8, <2>2
  <2> QED BY <1>1, <1>8, <2>1, <2>2 DEF Carry
<1>9. CASE op = "get"
  <2>1. CASE /\ pool[body[<<c, op>>].guest] # NoEntry /\ UNCHANGED <<pool, missed>>
             /\ got' = [got EXCEPT ![<<c, op>>] = None]
             /\ took' = [took EXCEPT ![<<c, op>>] = TRUE]
    <3>1. Contract!Pending(<<c, op>>, {"get"})
      BY <1>4, <1>9, <2>1
    <3>2. Contract!Get(<<c, op>>)
      BY <1>2, <2>1, <3>1 DEF Contract!Get
    <3> QED BY <1>1, <3>2 DEF Contract!Next
  <2>2. CASE /\ pool[body[<<c, op>>].guest] = NoEntry
             /\ UNCHANGED <<pool, took, got>> /\ missed' = [missed EXCEPT ![<<c, op>>] = TRUE]
    BY <1>5, <1>9, <2>2
  <2> QED BY <1>1, <1>9, <2>1, <2>2 DEF Carry
<1> QED BY <1>6, <1>7, <1>8, <1>9, OpsAre

\* Every step of a call, the network or the server is a step of the contract,
\* or changes nothing it speaks of.
LEMMA StepIsPromised ==
  ASSUME VpsInv, [Next]_vars
  PROVE  [Contract!Next]_(Contract!contract)
<1>1. ASSUME UNCHANGED <<server, phase, body>>
      PROVE  UNCHANGED Contract!contract
  BY <1>1 DEF server, Contract!contract
<1>2. ASSUME NEW c \in Call, Submit(c)
      PROVE  Contract!Next
  <2>1. <<c, pc[c]>> \in Request
    BY <1>2 DEF Submit, Request
  <2>2. Contract!Ask(<<c, pc[c]>>)
    <3>1. /\ phase[<<c, pc[c]>>] = "unsent" /\ phase' = [phase EXCEPT ![<<c, pc[c]>>] = "open"]
          /\ body' = [body EXCEPT ![<<c, pc[c]>>] = Params(c)] /\ UNCHANGED <<pool, took, got, missed>>
      BY <1>2 DEF Submit, server
    <3>2. body'[<<c, pc[c]>>] = Params(c)
      BY <2>1, <3>1 DEF VpsInv, TypeInv
    <3> QED BY <3>1, <3>2 DEF Contract!Ask
  <2> QED BY <2>1, <2>2 DEF Contract!Next
<1>3. ASSUME NEW c \in Call, Serve(c)
      PROVE  Contract!Next
  <2>1. /\ pc[c] \in Op /\ phase[<<c, pc[c]>>] = "open" /\ ~took[<<c, pc[c]>>]
    BY <1>3, ReplyIsSome DEF Serve, VpsInv, CallInv, Connection
  <2>2. UNCHANGED <<phase, body>>
    BY <1>3 DEF Serve
  <2>3. PICK reply : Carry(<<c, pc[c]>>, reply)
    BY <1>3 DEF Serve
  <2> QED BY <2>1, <2>2, <2>3, CarryIsPromised
<1>4. ASSUME NEW r \in late, ServeLate(r)
      PROVE  Contract!Next
  <2>1. PICK c \in Call, op \in Op : r = <<c, op>>
    BY DEF VpsInv, TypeInv, Request
  <2>2. phase[<<c, op>>] \in {"open", "failed"} /\ ~took[<<c, op>>]
    BY <2>1 DEF VpsInv, CallInv, Effect
  <2>3. PICK reply : Carry(r, reply)
    BY <1>4 DEF ServeLate
  <2>4. Carry(<<c, op>>, reply) /\ UNCHANGED <<phase, body>>
    BY <1>4, <2>1, <2>3 DEF ServeLate
  <2> QED BY <2>2, <2>4, CarryIsPromised
<1>5. ASSUME NEW c \in Call, GiveUp(c)
      PROVE  Contract!Next \/ UNCHANGED Contract!contract
  <2>1. UNCHANGED <<server, body>>
    BY <1>5 DEF GiveUp
  <2>2. CASE conn[c] = None
    BY <1>1, <1>5, <2>1, <2>2 DEF GiveUp
  <2>3. CASE conn[c] # None
    <3>1. <<c, pc[c]>> \in Request /\ phase[<<c, pc[c]>>] = "open"
      BY <2>3 DEF VpsInv, CallInv, Connection, Request
    <3>2. Contract!Fail(<<c, pc[c]>>)
      BY <1>5, <2>1, <2>3, <3>1 DEF GiveUp, server, Contract!Fail, Contract!Conclude
    <3> QED BY <3>1, <3>2 DEF Contract!Next
  <2> QED BY <2>2, <2>3
<1>6. ASSUME NEW c \in Call, Ordered(c) \/ Updated(c) \/ Looked(c) \/ Added(c) \/ Freed(c)
      PROVE  Contract!Next
  <2>1. PICK op \in Op : \E result, next : Answer(c, op, result, next)
    BY <1>6, OpsAre DEF Ordered, Updated, Looked, Added, Freed
  <2>2. PICK result, next : Answer(c, op, result, next)
    BY <2>1
  <2> QED BY <2>2, AnswerIsPromised
<1>7. ASSUME NEW c \in Call, Spoil(c) \/ CreateBySoftlayer(c) \/ Reload(c)
      PROVE  UNCHANGED Contract!contract
  BY <1>1, <1>7 DEF Spoil, CreateBySoftlayer, Reload
<1>8. ASSUME NEW c \in Call, NEW s \in Size, Create(c, s)
      PROVE  UNCHANGED Contract!contract
  BY <1>1, <1>8 DEF Create
<1>9. ASSUME NEW c \in Call, NEW g \in Guest, NEW u \in users[g], Delete(c, g, u)
      PROVE  UNCHANGED Contract!contract
  BY <1>1, <1>9 DEF Delete
<1>10. ASSUME UNCHANGED vars PROVE UNCHANGED Contract!contract
  BY <1>1, <1>10 DEF vars, server
<1> QED BY <1>2, <1>3, <1>4, <1>5, <1>6, <1>7, <1>8, <1>9, <1>10 DEF Next, AllDone

\* The client keeps the contract of the pool, for any number of calls, guests
\* and faults: a request is carried out once at most, also one that was given
\* up, a success is never made up, and an order takes a guest from all others.
THEOREM ClientKeepsPoolContract == Spec => KeepsPoolContract
<1>1. Init => Contract!Init
  <2> SUFFICES ASSUME Init PROVE Contract!Init
    OBVIOUS
  <2>1. pool \in [Guest -> {pool[g] : g \in Guest}]
    BY DEF Init
  <2> QED BY <2>1 DEF Init, Contract!Init
<1>2. VpsInv /\ [Next]_vars => [Contract!Next]_(Contract!contract)
  BY StepIsPromised
<1> QED BY <1>1, <1>2, VpsInductive, PTL DEF Spec, KeepsPoolContract, Contract!Spec

=============================================================================

------------------------ MODULE RegistryClientProofs ------------------------
(* Proofs about RegistryClient, for any number of edits, disks, attempts   *)
(* and faults: the client implements RegistryContract, and edits that do   *)
(* not overlap are kept.                                                   *)
EXTENDS RegistryClient, FiniteSetTheorems, TLAPS

-----------------------------------------------------------------------------
(* The inductive invariant.                                                *)

Writes == {"put", "delete"}

\* The requests of an edit are those of its program, in its order.
InOrder(e) ==
    /\ kind[e] # None /\ kind[e] \in {"attach", "detach"} => disk[e] \in Disk
    /\ \A op \in Op : phase[<<e, op>>] # "unsent" =>
          kind[e] # None /\ op \in ToSet(Program(kind[e]))
    /\ phase[<<e, "put">>] # "unsent" /\ kind[e] # "create" => phase[<<e, "get">>] = "ok"
    /\ phase[<<e, "get">>] # "unsent" /\ kind[e] # "attach" =>
          phase[<<e, "exists">>] = "ok" /\ seen[<<e, "exists">>] # NoDoc
OrderInv == \A e \in Edit : InOrder(e)

\* A connection belongs to the open request, a request whose body is unread
\* was never sent, and only writings stay on their way when it breaks.
Connected(e) ==
    /\ conn[e] # "none" => attempt[e] < MaxAttempts /\ \E op \in Op : Open(e, op)
    /\ \A op \in Op :
          /\ late[<<e, op>>] > 0 => op \in Writes /\ phase[<<e, op>>] # "unsent"
          /\ took[<<e, op>>] => phase[<<e, op>>] # "unsent"
          /\ Open(e, op) => late[<<e, op>>] <= attempt[e]
          /\ Open(e, op) /\ unread[e] =>
                conn[e] = "none" /\ late[<<e, op>>] = 0 /\ ~took[<<e, op>>]
ConnInv == \A e \in Edit : Connected(e)

\* The body of a put is read once, so one sending of it is on its way.
PutOnce(e) ==
    /\ late[<<e, "put">>] <= 1
    /\ late[<<e, "put">>] > 0 => ~took[<<e, "put">>]
    /\ phase[<<e, "put">>] = "ok" => took[<<e, "put">>]
    /\ Open(e, "put") /\ conn[e] # "none" => late[<<e, "put">>] = 0 /\ ~unread[e]
    /\ Open(e, "put") /\ conn[e] = "sent" => ~took[<<e, "put">>]
PutInv == \A e \in Edit : PutOnce(e)

\* An answer tells what the server did.
Told(e) == \A op \in Op : Answered(e, op) =>
    /\ status[e] \in {200, 201} => took[<<e, op>>]
    /\ status[e] = 200 /\ op = "get" => seen[<<e, op>>] # NoDoc
    /\ status[e] = 500 /\ op = "exists" /\ 500 \notin TroubleStatus => took[<<e, op>>]
StatusInv == \A e \in Edit : Told(e)

ClientInv == TypeOK /\ OrderInv /\ ConnInv /\ PutInv /\ StatusInv

-----------------------------------------------------------------------------
(* The strengthening for edits that neither overlap nor begin early.       *)

Live(e) == Active(e) \/ \E op \in Op : late[<<e, op>>] > 0

\* One edit at a time has requests on their way.
OneLive == \A e1, e2 \in Edit : Live(e1) /\ Live(e2) => e1 = e2

\* The document is one the director reckons with, until the server has
\* carried out a writing that is not answered yet: then it is one edited.
DocInv ==
    \/ doc \in expected
    \/ \E e \in Edit, op \in Writes : Open(e, op) /\ took[<<e, op>>]

WriteOf(e) == \A op \in Writes :
    /\ Open(e, op) /\ took[<<e, op>>] => doc \in Edits(e)
    /\ op = "put" /\ Open(e, op) => value[<<e, op>>] \in Edits(e)
    /\ late[<<e, op>>] > 0 /\ ~Open(e, op) =>
          (IF op = "put" THEN value[<<e, op>>] ELSE NoDoc) \in expected
WriteInv == \A e \in Edit : WriteOf(e)

\* What a detach_disk has fetched is still the document when it puts it.
FetchedOf(e) ==
    \/ phase[<<e, "get">>] = "ok" /\ phase[<<e, "put">>] = "unsent" /\ Active(e)
    \/ Answered(e, "get") /\ status[e] = 200
    => seen[<<e, "get">>] = doc
FetchedInv == \A e \in Edit : FetchedOf(e)

SettledInv ==
    /\ expected # {}
    /\ settled => OneLive /\ DocInv /\ WriteInv /\ FetchedInv
-----------------------------------------------------------------------------
(* Lemmas about the programs of the edits and the requests they make.      *)

\* The operations there are.
LEMMA OpsAre == {"get", "exists", "put", "delete"} \subseteq Op
BY DEF Op

\* The requests of each kind of edit.
LEMMA Programs ==
    /\ ToSet(Program("create")) = {"put"}
    /\ ToSet(Program("attach")) = {"get", "put"}
    /\ ToSet(Program("detach")) = {"exists", "get", "put"}
    /\ ToSet(Program("delete")) = {"delete"}
BY DEF Program, ToSet

\* An edited document is a document.
LEMMA EditedIsDoc ==
  ASSUME TypeOK, OrderInv, NEW e \in Edit, kind[e] # None,
         NEW x \in (SUBSET Disk) \cup {NoDoc}
  PROVE  Edited(kind[e], disk[e], x) \in (SUBSET Disk) \cup {NoDoc}
<1>1. kind[e] \in Kind
  BY DEF TypeOK
<1>2. kind[e] \in {"attach", "detach"} => disk[e] \in Disk
  BY DEF OrderInv, InOrder
<1>3. CASE kind[e] = "create" BY <1>3 DEF Edited
<1>4. CASE kind[e] = "delete"
  <2>1. Edited(kind[e], disk[e], x) = NoDoc
    BY <1>4 DEF Edited
  <2> QED BY <2>1
<1>5. CASE kind[e] = "attach" BY <1>2, <1>5 DEF Edited
<1>6. CASE kind[e] = "detach" BY <1>2, <1>6 DEF Edited
<1> QED BY <1>1, <1>3, <1>4, <1>5, <1>6 DEF Kind

\* Every request of an edit before the open one was answered with success:
\* one is open at a time, and the edit is neither failed nor done.
LEMMA OneOpen ==
  ASSUME TypeOK, OrderInv, NEW e \in Edit, NEW op \in Op, Open(e, op)
  PROVE  /\ \A o \in Op : Open(e, o) => o = op
         /\ Active(e)
<1>1. kind[e] \in Kind /\ kind[e] # None /\ op \in ToSet(Program(kind[e]))
  BY ZenonT(60) DEF OrderInv, InOrder, TypeOK, Open
<1>2. \A o \in Op : phase[<<e, o>>] # "unsent" => o \in ToSet(Program(kind[e]))
  BY DEF OrderInv, InOrder
<1>3. /\ phase[<<e, "put">>] # "unsent" /\ kind[e] # "create" => phase[<<e, "get">>] = "ok"
      /\ phase[<<e, "get">>] # "unsent" /\ kind[e] # "attach" =>
            phase[<<e, "exists">>] = "ok" /\ seen[<<e, "exists">>] # NoDoc
  BY DEF OrderInv, InOrder
<1> QED BY <1>1, <1>2, <1>3, Programs DEF Open, Op, Kind, Active, Failed, Succeeded, NotThere

\* The request an edit makes next is the first of its program it has not
\* made yet.
LEMMA NextRequest ==
  ASSUME TypeOK, OrderInv, NEW e \in Edit, NEW op \in Op, NewRequest(e, op)
  PROVE  /\ phase[<<e, op>>] = "unsent"
         /\ op \in ToSet(Program(kind[e]))
         /\ op = "put" /\ kind[e] # "create" => phase[<<e, "get">>] = "ok"
         /\ op = "get" /\ kind[e] # "attach" =>
               phase[<<e, "exists">>] = "ok" /\ seen[<<e, "exists">>] # NoDoc
<1>1. kind[e] \in Kind /\ kind[e] # None /\ ~Succeeded(e)
  BY DEF NewRequest, Active, TypeOK
<1>2. \A o \in Op : phase[<<e, o>>] \in {"unsent", "ok"}
  <2>1. \A o \in Op : phase[<<e, o>>] \in {"unsent", "open", "ok", "failed"}
    BY DEF TypeOK, Request
  <2> QED BY <2>1 DEF NewRequest, Active, Failed, Open
<1>3. \A o \in Op : phase[<<e, o>>] = "ok" => o \in ToSet(Program(kind[e]))
  BY DEF OrderInv, InOrder
<1>4. /\ phase[<<e, "put">>] # "unsent" /\ kind[e] # "create" => phase[<<e, "get">>] = "ok"
      /\ phase[<<e, "get">>] # "unsent" /\ kind[e] # "attach" =>
            phase[<<e, "exists">>] = "ok" /\ seen[<<e, "exists">>] # NoDoc
  BY DEF OrderInv, InOrder
<1>5. op = Program(kind[e])[Cardinality(Sent(e)) + 1]
  BY DEF NewRequest
<1>6. Sent(e) = {o \in Op : phase[<<e, o>>] = "ok"}
  BY <1>2 DEF Sent
<1>7. /\ Cardinality({}) = 0
      /\ \A x : Cardinality({x}) = 1
      /\ Cardinality({"exists", "get"}) = 2
  <2>1. Cardinality({"exists", "get"}) = 2
    <3>1. IsFiniteSet({"get"}) /\ Cardinality({"get"}) = 1
      BY FS_Singleton
    <3>2. Cardinality({"get"} \cup {"exists"}) = 2
      BY <3>1, FS_AddElement
    <3>3. {"exists", "get"} = {"get"} \cup {"exists"}
      OBVIOUS
    <3> QED BY <3>2, <3>3
  <2> QED BY <2>1, FS_EmptySet, FS_Singleton
<1>8. CASE kind[e] = "create"
  <2>1. Sent(e) = {} /\ phase[<<e, "put">>] = "unsent"
    BY <1>1, <1>2, <1>3, <1>6, <1>8, Programs DEF Succeeded, Op
  <2>2. op = "put"
    BY <1>5, <1>7, <1>8, <2>1 DEF Program
  <2> QED BY <1>8, <2>1, <2>2, Programs
<1>9. CASE kind[e] = "delete"
  <2>1. Sent(e) = {} /\ phase[<<e, "delete">>] = "unsent"
    BY <1>1, <1>2, <1>3, <1>6, <1>9, Programs DEF Succeeded, Op
  <2>2. op = "delete"
    BY <1>5, <1>7, <1>9, <2>1 DEF Program
  <2> QED BY <1>9, <2>1, <2>2, Programs
<1>10. CASE kind[e] = "attach"
  <2>1. phase[<<e, "put">>] = "unsent"
    BY <1>1, <1>2, <1>3, <1>4, <1>10, Programs DEF Succeeded, Op
  <2>2. CASE phase[<<e, "get">>] = "unsent"
    <3>1. Sent(e) = {}
      BY <1>3, <1>6, <1>10, <2>1, <2>2, Programs DEF Op
    <3>2. op = "get"
      BY <1>5, <1>7, <1>10, <3>1 DEF Program
    <3> QED BY <1>10, <2>2, <3>2, Programs
  <2>3. CASE phase[<<e, "get">>] = "ok"
    <3>1. Sent(e) = {"get"}
      BY <1>3, <1>6, <1>10, <2>1, <2>3, Programs DEF Op
    <3>2. op = "put"
      BY <1>5, <1>7, <1>10, <3>1 DEF Program
    <3> QED BY <1>10, <2>1, <2>3, <3>2, Programs
  <2> QED BY <1>2, <2>2, <2>3 DEF Op
<1>11. CASE kind[e] = "detach"
  <2>1. phase[<<e, "put">>] = "unsent"
    BY <1>1, <1>2, <1>3, <1>4, <1>11, Programs DEF Succeeded, Op
  <2>2. CASE phase[<<e, "exists">>] = "unsent"
    <3>1. Sent(e) = {}
      BY <1>2, <1>3, <1>4, <1>6, <1>11, <2>1, <2>2, Programs DEF Op
    <3>2. op = "exists"
      BY <1>5, <1>7, <1>11, <3>1 DEF Program
    <3> QED BY <1>11, <2>2, <3>2, Programs
  <2>3. CASE phase[<<e, "exists">>] = "ok" /\ phase[<<e, "get">>] = "unsent"
    <3>1. Sent(e) = {"exists"}
      BY <1>3, <1>6, <1>11, <2>1, <2>3, Programs DEF Op
    <3>2. op = "get"
      BY <1>5, <1>7, <1>11, <3>1 DEF Program
    <3>3. seen[<<e, "exists">>] # NoDoc
      BY <1>1, <2>3 DEF Succeeded, NotThere
    <3> QED BY <1>11, <2>3, <3>2, <3>3, Programs
  <2>4. CASE phase[<<e, "exists">>] = "ok" /\ phase[<<e, "get">>] = "ok"
    <3>1. Sent(e) = {"exists", "get"}
      BY <1>3, <1>6, <1>11, <2>1, <2>4, Programs DEF Op
    <3>2. op = "put"
      BY <1>5, <1>7, <1>11, <3>1 DEF Program
    <3> QED BY <1>11, <2>1, <2>4, <3>2, Programs
  <2> QED BY <1>2, <1>4, <2>2, <2>3, <2>4 DEF Op
<1> QED BY <1>1, <1>8, <1>9, <1>10, <1>11 DEF Kind

\* What an edit makes of the documents expected are documents.
LEMMA EditsAreDocs ==
  ASSUME ClientInv, NEW e \in Edit, NEW op \in Op, Open(e, op)
  PROVE  Edits(e) \subseteq (SUBSET Disk) \cup {NoDoc}
<1>1. kind[e] # None
  BY DEF ClientInv, OrderInv, InOrder, Open
<1>2. \A x \in expected : x \in (SUBSET Disk) \cup {NoDoc}
  BY DEF ClientInv, TypeOK
<1> QED BY <1>1, <1>2, EditedIsDoc DEF ClientInv, Edits

\* There is room to count a connection that breaks.
LEMMA LateFits ==
  ASSUME ClientInv, NEW e \in Edit, NEW op \in Op, Open(e, op), conn[e] # "none"
  PROVE  late[<<e, op>>] + 1 \in 0..MaxAttempts /\ attempt[e] + 1 \in 0..MaxAttempts
<1>1. late[<<e, op>>] \in Nat /\ attempt[e] \in Nat
  BY RegistryAssumption DEF ClientInv, TypeOK, Request
<1>2. late[<<e, op>>] <= attempt[e] /\ attempt[e] < MaxAttempts
  BY DEF ClientInv, ConnInv, Connected
<1> QED BY <1>1, <1>2, RegistryAssumption

\* The counters are numbers.
LEMMA Counters ==
  ASSUME ClientInv, NEW e \in Edit
  PROVE  attempt[e] \in Nat /\ \A op \in Op : late[<<e, op>>] \in Nat
BY RegistryAssumption DEF ClientInv, TypeOK, Request

\* A write that only another edit makes: of one edit, nothing changes.
Same(x) ==
    /\ UNCHANGED <<kind[x], disk[x], conn[x], status[x], attempt[x], unread[x]>>
    /\ \A o \in Op : UNCHANGED <<phase[<<x, o>>], late[<<x, o>>], took[<<x, o>>],
                                 seen[<<x, o>>]>>

\* An edit nothing of which changes stays as it has to be.
LEMMA OthersKept ==
  ASSUME ClientInv, NEW x \in Edit, Same(x)
  PROVE  InOrder(x)' /\ Connected(x)' /\ PutOnce(x)' /\ Told(x)'
<1> USE DEF Same
<1>1. InOrder(x)'
  BY OpsAre DEF ClientInv, OrderInv, InOrder
<1>2. Connected(x)'
  BY SMTT(30) DEF ClientInv, ConnInv, Connected, Open
<1>3. PutOnce(x)'
  BY OpsAre DEF ClientInv, PutInv, PutOnce, Open
<1>4. Told(x)'
  <2>1. \A o \in Op : Answered(x, o)' => Answered(x, o)
    BY DEF Answered, Open
  <2> QED BY <2>1 DEF ClientInv, StatusInv, Told
<1> QED BY <1>1, <1>2, <1>3, <1>4

\* An edit that has a request open is live.
LEMMA OpenIsLive ==
  ASSUME ClientInv, NEW e \in Edit, NEW op \in Op, Open(e, op)
  PROVE  Live(e)
BY OneOpen DEF ClientInv, Live

\* An edit makes one writing, and reads nothing after it.
LEMMA OneWrite ==
  ASSUME ClientInv, NEW e \in Edit, NEW op \in Writes, phase[<<e, op>>] # "unsent"
  PROVE  /\ \A o \in Writes : phase[<<e, o>>] # "unsent" => o = op
         /\ ~Open(e, "get")
         /\ op = "delete" => phase[<<e, "get">>] = "unsent"
<1>1. kind[e] \in Kind /\ op \in ToSet(Program(kind[e]))
  BY OpsAre, ZenonT(60) DEF ClientInv, OrderInv, InOrder, TypeOK, Writes
<1>2. \A o \in Op : phase[<<e, o>>] # "unsent" => o \in ToSet(Program(kind[e]))
  BY DEF ClientInv, OrderInv, InOrder
<1>3. phase[<<e, "put">>] # "unsent" /\ kind[e] # "create" => phase[<<e, "get">>] = "ok"
  BY DEF ClientInv, OrderInv, InOrder
<1> QED BY <1>1, <1>2, <1>3, Programs, OpsAre DEF Writes, Kind, Open

\* While edits do not overlap, a step of the one that is live leaves the
\* others with nothing on their way.
LEMMA OneActor ==
  ASSUME ClientInv, OneLive, NEW e \in Edit, Live(e), \A x \in Edit \ {e} : Same(x)
  PROVE  /\ \A x \in Edit, o \in Op : Open(x, o) => x = e
         /\ OneLive'
         /\ WriteOf(e)' => WriteInv'
         /\ FetchedOf(e)' => FetchedInv'
<1>1. \A x \in Edit \ {e} : ~Live(x)
  BY DEF OneLive
<1>2. \A x \in Edit, o \in Op : Open(x, o) => x = e
  BY <1>1, OpenIsLive
<1>3. ASSUME NEW x \in Edit, x # e
      PROVE  /\ \A o \in Op : ~Open(x, o)' /\ ~(late'[<<x, o>>] > 0)
             /\ ~Active(x)'
  <2>1. \A o \in Op : ~Open(x, o) /\ ~(late[<<x, o>>] > 0)
    BY <1>1, <1>2, <1>3 DEF Live
  <2>2. ~Active(x)
    BY <1>1, <1>3 DEF Live
  <2>3. Same(x)
    BY <1>3
  <2>4. Active(x)' => Active(x)
    <3>1. kind'[x] = kind[x] /\ \A o \in Op : phase'[<<x, o>>] = phase[<<x, o>>]
      BY <2>3 DEF Same
    <3>2. (NotThere(x) => NotThere(x)') /\ (Failed(x) => Failed(x)')
      BY <2>3, <3>1, OpsAre DEF Same, NotThere, Failed
    <3>3. kind[x] \in Kind \cup {None}
      BY DEF ClientInv, TypeOK
    <3>4. kind[x] \in Kind => ToSet(Program(kind[x])) \subseteq Op
      BY Programs, OpsAre DEF Kind
    <3>5. kind[x] # None /\ Succeeded(x) => Succeeded(x)'
      BY <3>1, <3>2, <3>3, <3>4 DEF Succeeded
    <3> QED BY <3>1, <3>2, <3>5 DEF Active
  <2> QED BY <2>1, <2>2, <2>3, <2>4 DEF Same, Open
<1>4. \A x \in Edit : Live(x)' => x = e
  BY <1>3 DEF Live
<1>5. OneLive'
  BY <1>4 DEF OneLive
<1>6. \A x \in Edit \ {e} : WriteOf(x)'
  BY <1>3, OpsAre DEF WriteOf, Writes
<1>7. \A x \in Edit \ {e} : FetchedOf(x)'
  BY <1>3, OpsAre DEF FetchedOf, Answered
<1> QED BY <1>2, <1>5, <1>6, <1>7 DEF WriteInv, FetchedInv

\* What a delete_vm makes of any document is none.
LEMMA DeleteEdits ==
  ASSUME ClientInv, expected # {}, NEW e \in Edit, phase[<<e, "delete">>] # "unsent"
  PROVE  NoDoc \in Edits(e) /\ \A y \in Edits(e) : y = NoDoc
<1>1. kind[e] \in Kind /\ "delete" \in ToSet(Program(kind[e]))
  BY OpsAre, ZenonT(60) DEF ClientInv, OrderInv, InOrder, TypeOK
<1>2. kind[e] = "delete"
  BY <1>1, Programs DEF Kind
<1>3. \A x \in expected : Edited(kind[e], disk[e], x) = NoDoc
  BY <1>2 DEF Edited
<1> QED BY <1>3 DEF Edits

\* create_vm and attach_disk put a document that does not depend on the one
\* before, detach_disk one that is made of it.
LEMMA PutEdits ==
  ASSUME ClientInv, expected # {}, NEW e \in Edit, kind[e] # None,
         "put" \in ToSet(Program(kind[e])), NEW x, kind[e] = "detach" => x \in expected
  PROVE  Edited(kind[e], disk[e], x) \in Edits(e)
<1>1. kind[e] \in {"create", "attach", "detach"}
  BY Programs DEF ClientInv, TypeOK, Kind
<1>2. CASE kind[e] = "detach"
  BY <1>2 DEF Edits
<1>3. CASE kind[e] # "detach"
  <2>1. PICK y \in expected : TRUE
    OBVIOUS
  <2>2. Edited(kind[e], disk[e], x) = Edited(kind[e], disk[e], y)
    BY <1>1, <1>3 DEF Edited
  <2> QED BY <2>1, <2>2 DEF Edits
<1> QED BY <1>2, <1>3

\* A call begins with nothing sent.
LEMMA StartKeeps ==
  ASSUME ClientInv, NEW e \in Edit, NEW k \in Kind, NEW d \in Disk \cup {None},
         Start(e, k, d), k \in {"attach", "detach"} => d \in Disk
  PROVE  ClientInv' /\ (SettledInv => SettledInv')
<1>1. kind[e] = None
  BY DEF Start
<1>2. UNCHANGED <<doc, phase, value, conn, status, attempt, unread, late, took, seen,
          faults, expected>>
  BY DEF Start, server, net, director
<1>3. \A x \in Edit : kind'[x] = IF x = e THEN k ELSE kind[x]
  BY DEF ClientInv, TypeOK, Request, Op, Start, server, net, director
<1>4. \A x \in Edit : disk'[x] = IF x = e THEN d ELSE disk[x]
  BY DEF ClientInv, TypeOK, Request, Op, Start, server, net, director
<1>5. TypeOK'
  <2>1. kind' \in [Edit -> Kind \cup {None}]
    BY <1>1 DEF ClientInv, TypeOK, Request, Op, Start, server, net, director
  <2>2. disk' \in [Edit -> Disk \cup {None}]
    BY <1>1 DEF ClientInv, TypeOK, Request, Op, Start, server, net, director
  <2>3. settled' \in BOOLEAN
    BY <1>1 DEF ClientInv, TypeOK, Request, Op, Start, server, net, director
  <2> QED BY <1>2, <2>1, <2>2, <2>3 DEF ClientInv, TypeOK
<1>6. \A x \in Edit \ {e} : Same(x)
  <2> SUFFICES ASSUME NEW x \in Edit, x # e PROVE Same(x)
    OBVIOUS
  <2>1. UNCHANGED <<kind[x], disk[x], conn[x], status[x], attempt[x], unread[x]>>
    BY <1>1, <1>2, <1>3, <1>4 DEF ClientInv, TypeOK
  <2>2. \A o \in Op : UNCHANGED <<phase[<<x, o>>], late[<<x, o>>], took[<<x, o>>],
                                     seen[<<x, o>>]>>
    BY <1>2
  <2> QED BY <2>1, <2>2 DEF Same
<1>7. \A x \in Edit \ {e} : InOrder(x)' /\ Connected(x)' /\ PutOnce(x)' /\ Told(x)'
  BY <1>6, OthersKept
<1>8. InOrder(e)'
  BY <1>1, <1>2, <1>3, <1>4, OpsAre DEF ClientInv, OrderInv, InOrder
<1>9. Connected(e)'
  BY <1>2, OpsAre DEF ClientInv, ConnInv, Connected, Open
<1>10. PutOnce(e)'
  BY <1>2, OpsAre DEF ClientInv, PutInv, PutOnce, ConnInv, Connected, Open
<1>11. Told(e)'
  BY <1>2, OpsAre DEF ClientInv, StatusInv, Told, Answered, Open
<1>12. ClientInv' BY <1>7, <1>5, <1>8, <1>9, <1>10, <1>11 DEF ClientInv,
  OrderInv, ConnInv, PutInv, StatusInv
<1>13. ASSUME SettledInv PROVE SettledInv'
  <2>1. expected' # {}
    BY <1>2, <1>13 DEF SettledInv
  <2>2. ASSUME settled' PROVE OneLive' /\ DocInv' /\ WriteInv' /\ FetchedInv'
    <3>1. settled /\ \A x \in Edit : ~Live(x)
      BY <2>2 DEF Start, OnItsWay, Live
    <3>2. \A x \in Edit, o \in Op : ~Open(x, o) /\ ~Open(x, o)' /\ ~(late'[<<x, o>>] > 0)
      BY <1>2, <3>1, OpenIsLive DEF Live, Open
    <3>3. ASSUME NEW x \in Edit, x # e PROVE ~Active(x)'
      <4>1. kind'[x] = kind[x]
        BY <1>3, <3>3
      <4>2. ~Active(x)
        BY <3>1 DEF Live
      <4> QED BY <1>2, <4>1, <4>2 DEF Active, Failed, Succeeded, NotThere
    <3>4. OneLive'
      BY <3>2, <3>3 DEF OneLive, Live
    <3>5. DocInv'
      BY <1>2, <3>1, <3>2, <1>13, OpsAre DEF DocInv, SettledInv, Writes
    <3>6. WriteInv'
      BY <3>2, OpsAre DEF WriteInv, WriteOf, Writes
    <3>7. phase'[<<e, "get">>] = "unsent"
      BY <1>1, <1>2, OpsAre DEF ClientInv, OrderInv, InOrder
    <3>8. FetchedInv'
      BY <3>2, <3>3, <3>7, OpsAre DEF FetchedInv, FetchedOf, Answered
    <3> QED BY <3>4, <3>5, <3>6, <3>8
  <2> QED BY <2>1, <2>2 DEF SettledInv
<1> QED BY <1>12, <1>13

\* A new request was never sent.
LEMMA NewRequestKeeps ==
  ASSUME ClientInv, NEW e \in Edit, NEW op \in Op, NewRequest(e, op)
  PROVE  ClientInv' /\ (SettledInv => SettledInv')
<1>1. conn[e] = "none" /\ \A o \in Op : ~Open(e, o)
  BY DEF NewRequest, ClientInv, ConnInv, Connected
<1>2. UNCHANGED <<doc, kind, disk, conn, status, late, took, seen, faults, expected,
          settled>>
  BY DEF NewRequest, server, net, director
<1>3. \A x \in Edit, o \in Op : phase'[<<x, o>>] =
      IF x = e /\ o = op THEN "open" ELSE phase[<<x, o>>]
  BY DEF ClientInv, TypeOK, Request, Op, NewRequest, server, net, director
<1>4. /\ \A x \in Edit \ {e} : unread'[x] = unread[x]
      /\ unread'[e]
  BY DEF ClientInv, TypeOK, Request, Op, NewRequest, server, net, director
<1>5. \A x \in Edit : attempt'[x] = IF x = e THEN 0 ELSE attempt[x]
  BY DEF ClientInv, TypeOK, Request, Op, NewRequest, server, net, director
<1>6. /\ phase[<<e, op>>] = "unsent"
      /\ op \in ToSet(Program(kind[e])) /\ kind[e] # None
      /\ op = "put" /\ kind[e] # "create" => phase[<<e, "get">>] = "ok"
      /\ op = "get" /\ kind[e] # "attach" =>
            phase[<<e, "exists">>] = "ok" /\ seen[<<e, "exists">>] # NoDoc
  BY NextRequest DEF ClientInv, NewRequest, Active
<1>7. /\ \A x \in Edit, o \in Op : x # e \/ o # op => value'[<<x, o>>] = value[<<x, o>>]
      /\ op = "put" => value'[<<e, op>>] = Edited(kind[e], disk[e], seen[<<e, "get">>])
  BY DEF ClientInv, TypeOK, Request, Op, NewRequest
<1>8. TypeOK'
  <2>1. phase' \in [Request -> {"unsent", "open", "ok", "failed"}]
    BY <1>1 DEF ClientInv, TypeOK, Request, Op, NewRequest, server, net,
      director
  <2>2. value' \in [Request -> (SUBSET Disk) \cup {NoDoc}]
    BY EditedIsDoc, OpsAre DEF ClientInv, TypeOK, Request, Op, NewRequest,
      server, net, director, Active
  <2>3. attempt' \in [Edit -> 0..MaxAttempts]
    BY <1>1, RegistryAssumption DEF ClientInv, TypeOK, Request, Op, NewRequest,
      server, net, director
  <2>4. unread' \in [Edit -> BOOLEAN]
    BY <1>1 DEF ClientInv, TypeOK, Request, Op, NewRequest, server, net,
      director
  <2> QED BY <1>2, <2>1, <2>2, <2>3, <2>4 DEF ClientInv, TypeOK
<1>9. \A x \in Edit \ {e} : Same(x)
  <2> SUFFICES ASSUME NEW x \in Edit, x # e PROVE Same(x)
    OBVIOUS
  <2>1. UNCHANGED <<kind[x], disk[x], conn[x], status[x], attempt[x], unread[x]>>
    BY <1>1, <1>2, <1>3, <1>4, <1>5, <1>6, <1>7 DEF ClientInv, TypeOK
  <2>2. \A o \in Op : UNCHANGED <<phase[<<x, o>>], late[<<x, o>>], took[<<x, o>>],
                                     seen[<<x, o>>]>>
    BY <1>1, <1>2, <1>3, <1>4, <1>5, <1>6, <1>7
  <2> QED BY <2>1, <2>2 DEF Same
<1>10. \A x \in Edit \ {e} : InOrder(x)' /\ Connected(x)' /\ PutOnce(x)' /\ Told(x)'
  BY <1>9, OthersKept
<1>11. InOrder(e)'
  BY <1>1, <1>2, <1>3, <1>4, <1>5, <1>6, <1>7, OpsAre DEF ClientInv, OrderInv,
    InOrder
<1>12. Connected(e)'
  BY <1>1, <1>2, <1>3, <1>4, <1>5, <1>6, <1>7, Counters, RegistryAssumption DEF
    ClientInv, ConnInv, Connected, Open
<1>13. PutOnce(e)'
  BY <1>1, <1>2, <1>3, <1>4, <1>5, <1>6, <1>7, OpsAre, Counters DEF ClientInv,
    PutInv, PutOnce, ConnInv, Connected, Open
<1>14. Told(e)'
  BY <1>1, <1>2, <1>3, <1>4, <1>5, <1>6, <1>7 DEF ClientInv, StatusInv, Told,
    Answered, Open
<1>15. ClientInv' BY <1>10, <1>8, <1>11, <1>12, <1>13, <1>14 DEF ClientInv,
  OrderInv, ConnInv, PutInv, StatusInv
<1>16. ASSUME SettledInv PROVE SettledInv'
  <2>1. expected' # {}
    BY <1>2, <1>16 DEF SettledInv
  <2>2. ASSUME settled' PROVE OneLive' /\ DocInv' /\ WriteInv' /\ FetchedInv'
    <3>1. settled /\ Active(e) /\ Live(e)
      BY <1>2, <2>2 DEF NewRequest, Live
    <3>2. OneLive /\ DocInv /\ WriteOf(e) /\ FetchedOf(e)
      BY <3>1, <1>16 DEF SettledInv, WriteInv, FetchedInv
    <3>3. \A x \in Edit, o \in Op : ~Open(x, o)
      BY <1>1, <3>1, <3>2, <1>9, OneActor
    <3>4. doc \in expected
      BY <3>2, <3>3, OpsAre DEF DocInv, Writes
    <3>5. op = "put" => value'[<<e, op>>] \in Edits(e)
      <4>1. op = "put" /\ kind[e] = "detach" => seen[<<e, "get">>] \in expected
        BY <1>6, <3>1, <3>2, <3>4 DEF FetchedOf
      <4> QED BY <1>6, <1>7, <2>1, <4>1, PutEdits, <1>16 DEF SettledInv
    <3>6. ~took'[<<e, op>>] /\ late'[<<e, op>>] = 0
      BY <1>2, <1>6, Counters DEF ClientInv, ConnInv, Connected
    <3>7. Edits(e)' = Edits(e)
      BY <1>2 DEF Edits
    <3>8. WriteOf(e)'
      <4>1. \A o \in Op : o # op => ~Open(e, o)'
        BY <1>3, <3>3 DEF Open
      <4> QED BY <1>2, <1>7, <3>2, <3>3, <3>5, <3>6, <3>7, <4>1, OpsAre DEF WriteOf, Writes
    <3>9. FetchedOf(e)'
      <4>1. ~Answered(e, "get")'
        BY <1>1, <1>2 DEF Answered
      <4>2. phase'[<<e, "get">>] = "ok" => phase[<<e, "get">>] = "ok"
        BY <1>3, OpsAre
      <4>3. phase'[<<e, "put">>] = "unsent" => phase[<<e, "put">>] = "unsent"
        BY <1>3, OpsAre
      <4> QED BY <1>2, <3>1, <3>2, <4>1, <4>2, <4>3 DEF FetchedOf
    <3> QED BY <1>2, <3>1, <3>2, <3>4, <3>8, <3>9, <1>9, OneActor DEF DocInv
  <2> QED BY <2>1, <2>2 DEF SettledInv
<1> QED BY <1>15, <1>16

\* An answer ends the request. It is a success when the server took it.
LEMMA AnswerKeeps ==
  ASSUME ClientInv, NEW e \in Edit, NEW op \in Op, NEW result \in {"ok",
         "failed"}, Answer(e, op, result), Open(e, op), result = "ok" /\ op #
         "exists" => took[<<e, op>>],
         result = "ok" /\ op = "get" =>
         Answered(e, op) /\ status[e] = 200
  PROVE  ClientInv' /\ (SettledInv => SettledInv')
<1>1. Open(e, op)
  BY DEF Answer, Conclude
<1>2. UNCHANGED <<doc, kind, disk, value, attempt, unread, late, took, seen, faults,
          settled>>
  BY DEF Answer, Conclude, server, net, director
<1>3. \A x \in Edit, o \in Op : phase'[<<x, o>>] =
      IF x = e /\ o = op THEN result ELSE phase[<<x, o>>]
  BY DEF ClientInv, TypeOK, Request, Op, Answer, Conclude, server, net,
    director
<1>4. \A x \in Edit : conn'[x] = IF x = e THEN "none" ELSE conn[x]
  BY DEF ClientInv, TypeOK, Request, Op, Answer, Conclude, server, net,
    director
<1>5. \A x \in Edit : status'[x] = IF x = e THEN 0 ELSE status[x]
  BY DEF ClientInv, TypeOK, Request, Op, Answer, Conclude, server, net,
    director
<1>6. \A o \in Op : Open(e, o) => o = op
  BY <1>1, OneOpen DEF ClientInv
<1>7. TypeOK'
  <2>1. phase' \in [Request -> {"unsent", "open", "ok", "failed"}]
    BY <1>1 DEF ClientInv, TypeOK, Request, Op, Answer, Conclude, server, net,
      director
  <2>2. conn' \in [Edit -> {"none", "sent", "answered"}]
    BY <1>1 DEF ClientInv, TypeOK, Request, Op, Answer, Conclude, server, net,
      director
  <2>3. status' \in [Edit -> {0, 200, 500} \cup TroubleStatus]
    BY <1>1 DEF ClientInv, TypeOK, Request, Op, Answer, Conclude, server, net,
      director
  <2>4. expected' \subseteq (SUBSET Disk) \cup {NoDoc}
    BY EditsAreDocs DEF ClientInv, TypeOK, Request, Op, Answer, Conclude,
      server, net, director
  <2> QED BY <1>2, <2>1, <2>2, <2>3, <2>4 DEF ClientInv, TypeOK
<1>8. \A x \in Edit \ {e} : Same(x)
  <2> SUFFICES ASSUME NEW x \in Edit, x # e PROVE Same(x)
    OBVIOUS
  <2>1. UNCHANGED <<kind[x], disk[x], conn[x], status[x], attempt[x], unread[x]>>
    BY <1>1, <1>2, <1>3, <1>4, <1>5, <1>6 DEF ClientInv, TypeOK
  <2>2. \A o \in Op : UNCHANGED <<phase[<<x, o>>], late[<<x, o>>], took[<<x, o>>],
                                     seen[<<x, o>>]>>
    BY <1>1, <1>2, <1>3, <1>4, <1>5, <1>6
  <2> QED BY <2>1, <2>2 DEF Same
<1>9. \A x \in Edit \ {e} : InOrder(x)' /\ Connected(x)' /\ PutOnce(x)' /\ Told(x)'
  BY <1>8, OthersKept
<1>10. InOrder(e)'
  <2>1. InOrder(e)
    BY DEF ClientInv, OrderInv
  <2>2. \A o \in Op : phase'[<<e, o>>] # "unsent" => phase[<<e, o>>] # "unsent"
    BY <1>1, <1>3 DEF Open
  <2>3. \A o \in Op : phase[<<e, o>>] = "ok" => phase'[<<e, o>>] = "ok"
    BY <1>1, <1>3 DEF Open
  <2> QED BY <1>2, <2>1, <2>2, <2>3, OpsAre DEF InOrder
<1>11. Connected(e)'
  BY <1>1, <1>2, <1>3, <1>4, <1>5, <1>6, Counters, RegistryAssumption DEF
    ClientInv, ConnInv, Connected, Open
<1>12. PutOnce(e)'
  BY <1>1, <1>2, <1>3, <1>4, <1>5, <1>6, OpsAre, Counters DEF ClientInv,
    PutInv, PutOnce, ConnInv, Connected, Open
<1>13. Told(e)'
  BY <1>1, <1>2, <1>3, <1>4, <1>5, <1>6 DEF ClientInv, StatusInv, Told,
    Answered, Open
<1>14. ClientInv' BY <1>9, <1>7, <1>10, <1>11, <1>12, <1>13 DEF ClientInv,
  OrderInv, ConnInv, PutInv, StatusInv
<1>15. ASSUME SettledInv PROVE SettledInv'
  <2>1. /\ Edits(e) # {}
        /\ op \notin Writes => expected' = expected
        /\ op \in Writes => Edits(e) \subseteq expected'
        /\ op \in Writes /\ result # "ok" => expected \subseteq expected'
    <3>1. Edits(e) # {}
      BY <1>15 DEF SettledInv, Edits
    <3>2. phase'[<<e, op>>] = result
      BY <1>3
    <3>3. expected' = CASE op \notin {"put", "delete"} -> expected
                        [] op \in {"put", "delete"} /\ phase'[<<e, op>>] = "ok" -> Edits(e)
                        [] OTHER -> expected \cup Edits(e)
      BY DEF Answer, Conclude
    <3>4. CASE op \notin Writes BY <3>1, <3>3, <3>4 DEF Writes
    <3>5. CASE op \in Writes /\ result = "ok" BY <3>1, <3>2, <3>3, <3>5 DEF Writes
    <3>6. CASE op \in Writes /\ result = "failed" BY <3>1, <3>2, <3>3, <3>6 DEF Writes
    <3> QED BY <3>4, <3>5, <3>6
  <2>2. expected' # {}
    BY <2>1, <1>15 DEF SettledInv
  <2>3. ASSUME settled' PROVE OneLive' /\ DocInv' /\ WriteInv' /\ FetchedInv'
    <3>1. /\ settled /\ Live(e) /\ OneLive /\ DocInv /\ WriteOf(e) /\ FetchedOf(e)
          /\ \A x \in Edit, o \in Op : Open(x, o) => x = e
      BY <1>1, <1>2, <1>15, <2>3, <1>8, OpenIsLive, OneActor, OpsAre
      DEF SettledInv, WriteInv, FetchedInv
    <3>2. \A x \in Edit, o \in Op : Open(x, o) => x = e /\ o = op
      BY <3>1, <1>6
    <3>3. \A o \in Op : ~Open(e, o)'
      BY <1>3, <1>6 DEF Open
    <3>7. op \in Writes => \A w \in Writes : phase[<<e, w>>] # "unsent" => w = op
      <4> SUFFICES ASSUME op \in Writes, NEW w \in Writes, phase[<<e, w>>] # "unsent"
                   PROVE  w = op
        OBVIOUS
      <4>1. phase[<<e, op>>] # "unsent"
        BY <1>1 DEF Open
      <4>2. ClientInv
        OBVIOUS
      <4> QED BY ONLY <4>1, <4>2, op \in Writes, e \in Edit, w \in Writes, phase[<<e, w>>] # "unsent", OneWrite
    <3>4. DocInv'
      <4>1. op \notin Writes => doc \in expected
        BY <3>1, <3>2, OpsAre DEF DocInv, Writes
      <4>2. op \in Writes /\ took[<<e, op>>] => doc \in Edits(e)
        BY <1>1, <3>1 DEF WriteOf
      <4>3. op \in Writes /\ ~took[<<e, op>>] => doc \in expected /\ result # "ok"
        BY <3>1, <3>2, OpsAre DEF DocInv, Writes
      <4> QED BY <1>2, <2>1, <4>1, <4>2, <4>3 DEF DocInv
    <3>5. WriteOf(e)'
      <4> SUFFICES ASSUME NEW o \in Writes, late'[<<e, o>>] > 0
                   PROVE  (IF o = "put" THEN value[<<e, o>>] ELSE NoDoc) \in expected'
        BY <1>2, <3>3, OpsAre DEF WriteOf, Writes
      <4>1. CASE o = op
        <5>1. o = "put" => value[<<e, o>>] \in Edits(e)
          BY <1>1, <3>1, <4>1 DEF WriteOf
        <5>2. o = "delete" => NoDoc \in Edits(e)
          BY <1>1, <4>1, DeleteEdits, <1>15 DEF SettledInv, Open
        <5> QED BY <2>1, <4>1, <5>1, <5>2 DEF Writes
      <4>2. CASE o # op
        <5>1. late[<<e, o>>] > 0 /\ phase[<<e, o>>] # "unsent" /\ ~Open(e, o)
          BY <1>2, <1>6, <4>2, OpsAre DEF ClientInv, ConnInv, Connected, Writes
        <5>2. (IF o = "put" THEN value[<<e, o>>] ELSE NoDoc) \in expected
          BY <3>1, <5>1 DEF WriteOf
        <5>3. op \notin Writes
          BY <3>7, <4>2, <5>1
        <5> QED BY <2>1, <5>2, <5>3
      <4> QED BY <4>1, <4>2
    <3>6. FetchedOf(e)'
      <4>1. ~Answered(e, "get")'
        BY <1>4 DEF Answered
      <4>2. phase'[<<e, "get">>] = "ok" => phase[<<e, "get">>] = "ok" \/ (op = "get" /\ result = "ok")
        BY <1>3, OpsAre
      <4>3. phase'[<<e, "put">>] = "unsent" => phase[<<e, "put">>] = "unsent"
        BY <1>1, <1>3, OpsAre DEF Open
      <4>4. Active(e)
        BY <1>1, OneOpen DEF ClientInv
      <4>5. op = "get" /\ result = "ok" => seen[<<e, "get">>] = doc
        BY <3>1 DEF FetchedOf
      <4> QED BY <1>2, <3>1, <4>1, <4>2, <4>3, <4>4, <4>5 DEF FetchedOf
    <3> QED BY <3>1, <3>4, <3>5, <3>6, <1>8, OneActor
  <2> QED BY <2>2, <2>3 DEF SettledInv
<1> QED BY <1>14, <1>15

\* Without an https client nothing is sent.
LEMMA HttpClientFailsKeeps ==
  ASSUME ClientInv, NEW e \in Edit, NEW op \in Op, HttpClientFails(e, op)
  PROVE  ClientInv' /\ (SettledInv => SettledInv')
<1>1. Open(e, op) /\ conn[e] = "none" /\ unread[e]
  BY DEF HttpClientFails, Faulty
<1>2. UNCHANGED <<doc, kind, disk, value, conn, status, attempt, unread, late, took,
          seen, expected, settled>>
  BY DEF HttpClientFails, Faulty, server, net, director
<1>3. \A x \in Edit, o \in Op : phase'[<<x, o>>] =
      IF x = e /\ o = op THEN "failed" ELSE phase[<<x, o>>]
  BY DEF ClientInv, TypeOK, Request, Op, HttpClientFails, Faulty, server, net,
    director
<1>4. \A o \in Op : Open(e, o) => o = op
  BY <1>1, OneOpen DEF ClientInv
<1>5. TypeOK'
  <2>1. phase' \in [Request -> {"unsent", "open", "ok", "failed"}]
    BY <1>1 DEF ClientInv, TypeOK, Request, Op, HttpClientFails, Faulty,
      server, net, director
  <2>2. faults' \in 0..MaxFaults
    BY <1>1, RegistryAssumption DEF ClientInv, TypeOK, Request, Op,
      HttpClientFails, Faulty, server, net, director
  <2> QED BY <1>2, <2>1, <2>2 DEF ClientInv, TypeOK
<1>6. \A x \in Edit \ {e} : Same(x)
  <2> SUFFICES ASSUME NEW x \in Edit, x # e PROVE Same(x)
    OBVIOUS
  <2>1. UNCHANGED <<kind[x], disk[x], conn[x], status[x], attempt[x], unread[x]>>
    BY <1>2 
  <2>2. \A o \in Op : UNCHANGED <<phase[<<x, o>>], late[<<x, o>>], took[<<x, o>>],
                                     seen[<<x, o>>]>>
    BY <1>1, <1>2, <1>3, <1>4
  <2> QED BY <2>1, <2>2 DEF Same
<1>7. \A x \in Edit \ {e} : InOrder(x)' /\ Connected(x)' /\ PutOnce(x)' /\ Told(x)'
  BY <1>6, OthersKept
<1>8. InOrder(e)'
  <2>1. InOrder(e)
    BY DEF ClientInv, OrderInv
  <2>2. \A o \in Op : phase'[<<e, o>>] # "unsent" => phase[<<e, o>>] # "unsent"
    BY <1>1, <1>3 DEF Open
  <2>3. \A o \in Op : phase[<<e, o>>] = "ok" => phase'[<<e, o>>] = "ok"
    BY <1>1, <1>3 DEF Open
  <2> QED BY <1>2, <2>1, <2>2, <2>3, OpsAre DEF InOrder
<1>9. Connected(e)'
  BY <1>1, <1>2, <1>3, <1>4, Counters, RegistryAssumption DEF ClientInv,
    ConnInv, Connected, Open
<1>10. PutOnce(e)'
  BY <1>1, <1>2, <1>3, <1>4, OpsAre, Counters DEF ClientInv, PutInv, PutOnce,
    ConnInv, Connected, Open
<1>11. Told(e)'
  BY <1>1, <1>2, <1>3, <1>4 DEF ClientInv, StatusInv, Told, Answered, Open
<1>12. ClientInv' BY <1>7, <1>5, <1>8, <1>9, <1>10, <1>11 DEF ClientInv,
  OrderInv, ConnInv, PutInv, StatusInv
<1>13. ASSUME SettledInv PROVE SettledInv'
  <2>1. expected' # {}
    BY <1>2, <1>13 DEF SettledInv
  <2>2. ASSUME settled' PROVE OneLive' /\ DocInv' /\ WriteInv' /\ FetchedInv'
    <3>1. /\ settled /\ Live(e) /\ OneLive /\ DocInv /\ WriteOf(e) /\ FetchedOf(e)
          /\ \A x \in Edit, o \in Op : Open(x, o) => x = e
      BY <1>1, <1>2, <1>13, <2>2, <1>6, OpenIsLive, OneActor, OpsAre
      DEF SettledInv, WriteInv, FetchedInv
    <3>2. Edits(e)' = Edits(e)
      BY <1>2 DEF Edits
    <3>3. WriteOf(e)'
      <4>1. late[<<e, op>>] = 0
        BY <1>1 DEF ClientInv, ConnInv, Connected
      <4>2. \A o \in Op : o # op => (Open(e, o)' <=> Open(e, o))
        BY <1>3 DEF Open
      <4>3. ~Open(e, op)'
        BY <1>3 DEF Open
      <4>4. \A o \in Writes : o \in Op
        BY OpsAre DEF Writes
      <4> QED BY <1>2, <3>1, <3>2, <4>1, <4>2, <4>3, <4>4 DEF WriteOf
    <3>4. FetchedOf(e)'
      <4>1. ~Active(e)' /\ ~Answered(e, "get")'
        BY <1>1, <1>2, <1>3 DEF Active, Failed, Answered
      <4> QED BY <4>1 DEF FetchedOf
    <3>5. DocInv'
      <4>1. ~took[<<e, op>>]
        BY <1>1 DEF ClientInv, ConnInv, Connected
      <4>2. doc \in expected
        BY <3>1, <1>4, <4>1, OpsAre DEF DocInv, Writes
      <4> QED BY <1>2, <4>2 DEF DocInv
    <3> QED BY <3>1, <3>3, <3>4, <3>5, <1>6, OneActor
  <2> QED BY <2>1, <2>2 DEF SettledInv
<1> QED BY <1>12, <1>13

\* A put is sent while its body is unread.
LEMMA TransmitKeeps ==
  ASSUME ClientInv, NEW e \in Edit, NEW op \in Op, Transmit(e, op)
  PROVE  ClientInv' /\ (SettledInv => SettledInv')
<1>1. Open(e, op) /\ conn[e] = "none" /\ attempt[e] < MaxAttempts /\ (op = "put" => unread[e])
  BY DEF Transmit, CanTransmit
<1>2. UNCHANGED <<doc, kind, disk, phase, value, status, attempt, late, took, seen,
          faults, expected, settled>>
  BY DEF Transmit, CanTransmit, server, net, director
<1>3. \A x \in Edit : conn'[x] = IF x = e THEN "sent" ELSE conn[x]
  BY DEF ClientInv, TypeOK, Request, Op, Transmit, CanTransmit, server, net,
    director
<1>4. /\ \A x \in Edit \ {e} : unread'[x] = unread[x]
      /\ ~unread'[e]
  BY DEF ClientInv, TypeOK, Request, Op, Transmit, CanTransmit, server, net,
    director
<1>5. \A o \in Op : Open(e, o) => o = op
  BY <1>1, OneOpen DEF ClientInv
<1>6. TypeOK'
  <2>1. conn' \in [Edit -> {"none", "sent", "answered"}]
    BY <1>1 DEF ClientInv, TypeOK, Request, Op, Transmit, CanTransmit, server,
      net, director
  <2>2. unread' \in [Edit -> BOOLEAN]
    BY <1>1 DEF ClientInv, TypeOK, Request, Op, Transmit, CanTransmit, server,
      net, director
  <2> QED BY <1>2, <2>1, <2>2 DEF ClientInv, TypeOK
<1>7. \A x \in Edit \ {e} : Same(x)
  <2> SUFFICES ASSUME NEW x \in Edit, x # e PROVE Same(x)
    OBVIOUS
  <2>1. UNCHANGED <<kind[x], disk[x], conn[x], status[x], attempt[x], unread[x]>>
    BY <1>1, <1>2, <1>3, <1>4, <1>5 DEF ClientInv, TypeOK
  <2>2. \A o \in Op : UNCHANGED <<phase[<<x, o>>], late[<<x, o>>], took[<<x, o>>],
                                     seen[<<x, o>>]>>
    BY <1>2
  <2> QED BY <2>1, <2>2 DEF Same
<1>8. \A x \in Edit \ {e} : InOrder(x)' /\ Connected(x)' /\ PutOnce(x)' /\ Told(x)'
  BY <1>7, OthersKept
<1>9. InOrder(e)'
  BY <1>2, OpsAre DEF ClientInv, OrderInv, InOrder
<1>10. Connected(e)'
  BY <1>1, <1>2, <1>3, <1>4, <1>5, Counters, RegistryAssumption DEF ClientInv,
    ConnInv, Connected, Open
<1>11. PutOnce(e)'
  BY <1>1, <1>2, <1>3, <1>4, <1>5, OpsAre, Counters DEF ClientInv, PutInv,
    PutOnce, ConnInv, Connected, Open
<1>12. Told(e)'
  BY <1>1, <1>2, <1>3, <1>4, <1>5 DEF ClientInv, StatusInv, Told, Answered,
    Open
<1>13. ClientInv' BY <1>8, <1>6, <1>9, <1>10, <1>11, <1>12 DEF ClientInv,
  OrderInv, ConnInv, PutInv, StatusInv
<1>14. ASSUME SettledInv PROVE SettledInv'
  <2>1. expected' # {}
    BY <1>2, <1>14 DEF SettledInv
  <2>2. ASSUME settled' PROVE OneLive' /\ DocInv' /\ WriteInv' /\ FetchedInv'
    <3>1. /\ settled /\ Live(e) /\ OneLive /\ DocInv /\ WriteOf(e) /\ FetchedOf(e)
          /\ \A x \in Edit, o \in Op : Open(x, o) => x = e
      BY <1>1, <1>2, <1>14, <2>2, <1>7, OpenIsLive, OneActor, OpsAre
      DEF SettledInv, WriteInv, FetchedInv
    <3>2. Edits(e)' = Edits(e)
      BY <1>2 DEF Edits
    <3>3. WriteOf(e)'
      BY <1>2, <3>1, <3>2 DEF WriteOf, Open
    <3>4. FetchedOf(e)'
      <4>1. Active(e) /\ ~Answered(e, "get")'
        BY <1>1, <1>2, <1>3, <1>4, <1>5, OneOpen DEF ClientInv, Answered, Open
      <4> QED BY <1>2, <3>1, <4>1 DEF FetchedOf
    <3>5. DocInv'
      BY <1>2, <3>1 DEF DocInv, Open
    <3> QED BY <3>1, <3>3, <3>4, <3>5, <1>7, OneActor
  <2> QED BY <2>1, <2>2 DEF SettledInv
<1> QED BY <1>13, <1>14

\* An attempt that sends nothing is counted.
LEMMA AttemptFailsKeeps ==
  ASSUME ClientInv, NEW e \in Edit, NEW op \in Op, AttemptFails(e, op)
  PROVE  ClientInv' /\ (SettledInv => SettledInv')
<1>1. Open(e, op) /\ conn[e] = "none" /\ attempt[e] < MaxAttempts
  BY DEF AttemptFails, Faulty
<1>2. UNCHANGED <<doc, kind, disk, phase, value, conn, status, unread, late, took,
          seen, expected, settled>>
  BY DEF AttemptFails, Faulty, server, net, director
<1>3. \A x \in Edit : attempt'[x] = IF x = e THEN attempt[e] + 1 ELSE attempt[x]
  BY DEF ClientInv, TypeOK, Request, Op, AttemptFails, Faulty, server, net,
    director
<1>4. \A o \in Op : Open(e, o) => o = op
  BY <1>1, OneOpen DEF ClientInv
<1>5. TypeOK'
  <2>1. attempt' \in [Edit -> 0..MaxAttempts]
    BY <1>1, RegistryAssumption DEF ClientInv, TypeOK, Request, Op,
      AttemptFails, Faulty, server, net, director
  <2>2. faults' \in 0..MaxFaults
    BY <1>1, RegistryAssumption DEF ClientInv, TypeOK, Request, Op,
      AttemptFails, Faulty, server, net, director
  <2> QED BY <1>2, <2>1, <2>2 DEF ClientInv, TypeOK
<1>6. \A x \in Edit \ {e} : Same(x)
  <2> SUFFICES ASSUME NEW x \in Edit, x # e PROVE Same(x)
    OBVIOUS
  <2>1. UNCHANGED <<kind[x], disk[x], conn[x], status[x], attempt[x], unread[x]>>
    BY <1>1, <1>2, <1>3, <1>4 DEF ClientInv, TypeOK
  <2>2. \A o \in Op : UNCHANGED <<phase[<<x, o>>], late[<<x, o>>], took[<<x, o>>],
                                     seen[<<x, o>>]>>
    BY <1>2
  <2> QED BY <2>1, <2>2 DEF Same
<1>7. \A x \in Edit \ {e} : InOrder(x)' /\ Connected(x)' /\ PutOnce(x)' /\ Told(x)'
  BY <1>6, OthersKept
<1>8. InOrder(e)'
  BY <1>2, OpsAre DEF ClientInv, OrderInv, InOrder
<1>9. Connected(e)'
  BY <1>1, <1>2, <1>3, <1>4, Counters, RegistryAssumption DEF ClientInv,
    ConnInv, Connected, Open
<1>10. PutOnce(e)'
  BY <1>2, OpsAre DEF ClientInv, PutInv, PutOnce, ConnInv, Connected, Open
<1>11. Told(e)'
  BY <1>2, OpsAre DEF ClientInv, StatusInv, Told, Answered, Open
<1>12. ClientInv' BY <1>7, <1>5, <1>8, <1>9, <1>10, <1>11 DEF ClientInv,
  OrderInv, ConnInv, PutInv, StatusInv
<1>13. ASSUME SettledInv PROVE SettledInv'
  <2>1. expected' # {}
    BY <1>2, <1>13 DEF SettledInv
  <2>2. ASSUME settled' PROVE OneLive' /\ DocInv' /\ WriteInv' /\ FetchedInv'
    <3>1. /\ settled /\ Live(e) /\ OneLive /\ DocInv /\ WriteOf(e) /\ FetchedOf(e)
          /\ \A x \in Edit, o \in Op : Open(x, o) => x = e
      BY <1>1, <1>2, <1>13, <2>2, <1>6, OpenIsLive, OneActor, OpsAre
      DEF SettledInv, WriteInv, FetchedInv
    <3>2. Edits(e)' = Edits(e)
      BY <1>2 DEF Edits
    <3>3. WriteOf(e)'
      BY <1>2, <3>1, <3>2 DEF WriteOf, Open
    <3>4. FetchedOf(e)'
      <4>1. Active(e) /\ ~Answered(e, "get")'
        BY <1>1, <1>2, <1>3, <1>4, OneOpen DEF ClientInv, Answered, Open
      <4> QED BY <1>2, <3>1, <4>1 DEF FetchedOf
    <3>5. DocInv'
      BY <1>2, <3>1 DEF DocInv, Open
    <3> QED BY <3>1, <3>3, <3>4, <3>5, <1>6, OneActor
  <2> QED BY <2>1, <2>2 DEF SettledInv
<1> QED BY <1>12, <1>13

\* A connection that breaks leaves its writing on the way.
LEMMA BreakKeeps ==
  ASSUME ClientInv, NEW e \in Edit, NEW op \in Op, Break(e, op)
  PROVE  ClientInv' /\ (SettledInv => SettledInv')
<1>1. Open(e, op) /\ conn[e] # "none"
  BY DEF Break, Faulty
<1>2. UNCHANGED <<doc, kind, disk, phase, value, status, unread, took, seen,
          expected, settled>>
  BY DEF Break, Faulty, server, net, director
<1>3. \A x \in Edit : conn'[x] = IF x = e THEN "none" ELSE conn[x]
  BY DEF ClientInv, TypeOK, Request, Op, Break, Faulty, server, net, director
<1>4. \A x \in Edit : attempt'[x] = IF x = e THEN attempt[e] + 1 ELSE attempt[x]
  BY DEF ClientInv, TypeOK, Request, Op, Break, Faulty, server, net, director
<1>5. \A x \in Edit, o \in Op : late'[<<x, o>>] =
      IF x = e /\ o = op THEN IF conn[e] = "sent" /\ op \in {"put", "delete"}
             THEN late[<<e, op>>] + 1 ELSE late[<<e, op>>] ELSE late[<<x, o>>]
  BY DEF ClientInv, TypeOK, Request, Op, Break, Faulty, server, net, director
<1>6. \A o \in Op : Open(e, o) => o = op
  BY <1>1, OneOpen DEF ClientInv
<1>7. TypeOK'
  <2>1. conn' \in [Edit -> {"none", "sent", "answered"}]
    BY <1>1 DEF ClientInv, TypeOK, Request, Op, Break, Faulty, server, net,
      director
  <2>2. attempt' \in [Edit -> 0..MaxAttempts]
    BY <1>1, LateFits DEF ClientInv, TypeOK, Request, Op, Break, Faulty,
      server, net, director
  <2>3. late' \in [Request -> 0..MaxAttempts]
    BY <1>1, LateFits, ZenonT(60) DEF ClientInv, TypeOK, Request, Op, Break, Faulty,
      server, net, director
  <2>4. faults' \in 0..MaxFaults
    BY <1>1, RegistryAssumption DEF ClientInv, TypeOK, Request, Op, Break,
      Faulty, server, net, director
  <2> QED BY <1>2, <2>1, <2>2, <2>3, <2>4 DEF ClientInv, TypeOK
<1>8. \A x \in Edit \ {e} : Same(x)
  <2> SUFFICES ASSUME NEW x \in Edit, x # e PROVE Same(x)
    OBVIOUS
  <2>1. UNCHANGED <<kind[x], disk[x], conn[x], status[x], attempt[x], unread[x]>>
    BY <1>1, <1>2, <1>3, <1>4, <1>5, <1>6 DEF ClientInv, TypeOK
  <2>2. \A o \in Op : UNCHANGED <<phase[<<x, o>>], late[<<x, o>>], took[<<x, o>>],
                                     seen[<<x, o>>]>>
    BY <1>1, <1>2, <1>3, <1>4, <1>5, <1>6
  <2> QED BY <2>1, <2>2 DEF Same
<1>9. \A x \in Edit \ {e} : InOrder(x)' /\ Connected(x)' /\ PutOnce(x)' /\ Told(x)'
  BY <1>8, OthersKept
<1>10. InOrder(e)'
  BY <1>2, OpsAre DEF ClientInv, OrderInv, InOrder
<1>11. Connected(e)'
  <2>1. Connected(e) /\ ~unread[e]
    BY <1>1 DEF ClientInv, ConnInv, Connected
  <2>2. /\ late[<<e, op>>] \in Nat /\ attempt[e] \in Nat
        /\ late'[<<e, op>>] <= late[<<e, op>>] + 1 /\ attempt'[e] = attempt[e] + 1
        /\ late'[<<e, op>>] > 0 => late[<<e, op>>] > 0 \/ op \in Writes
    BY <1>4, <1>5, Counters DEF Writes
  <2>3. \A o \in Op : o # op => late'[<<e, o>>] = late[<<e, o>>] /\ ~Open(e, o)'
    BY <1>2, <1>5, <1>6 DEF Open
  <2>4. conn'[e] = "none"
    BY <1>3
  <2>5. late[<<e, op>>] <= attempt[e]
    BY <1>1, <2>1 DEF Connected
  <2>6. \A o \in Op : late'[<<e, o>>] > 0 => o \in Writes /\ phase'[<<e, o>>] # "unsent"
    BY <1>1, <1>2, <2>1, <2>2, <2>3 DEF Connected, Open
  <2>7. late'[<<e, op>>] <= attempt'[e]
    <3>1. late'[<<e, op>>] \in Nat
      BY <1>5, <2>2
    <3> QED BY <2>2, <2>5, <3>1
  <2> QED BY <1>2, <2>1, <2>3, <2>4, <2>6, <2>7 DEF Connected, Open
<1>12. PutOnce(e)'
  BY <1>1, <1>2, <1>3, <1>4, <1>5, <1>6, OpsAre, Counters DEF ClientInv,
    PutInv, PutOnce, ConnInv, Connected, Open
<1>13. Told(e)'
  BY <1>1, <1>2, <1>3, <1>4, <1>5, <1>6 DEF ClientInv, StatusInv, Told,
    Answered, Open
<1>14. ClientInv' BY <1>9, <1>7, <1>10, <1>11, <1>12, <1>13 DEF ClientInv,
  OrderInv, ConnInv, PutInv, StatusInv
<1>15. ASSUME SettledInv PROVE SettledInv'
  <2>1. expected' # {}
    BY <1>2, <1>15 DEF SettledInv
  <2>2. ASSUME settled' PROVE OneLive' /\ DocInv' /\ WriteInv' /\ FetchedInv'
    <3>1. /\ settled /\ Live(e) /\ OneLive /\ DocInv /\ WriteOf(e) /\ FetchedOf(e)
          /\ \A x \in Edit, o \in Op : Open(x, o) => x = e
      BY <1>1, <1>2, <1>15, <2>2, <1>8, OpenIsLive, OneActor, OpsAre
      DEF SettledInv, WriteInv, FetchedInv
    <3>2. Edits(e)' = Edits(e)
      BY <1>2 DEF Edits
    <3>3. WriteOf(e)'
      <4>1. \A o \in Writes : late'[<<e, o>>] > 0 /\ ~Open(e, o) => late[<<e, o>>] > 0
        BY <1>1, <1>5, OpsAre DEF Writes
      <4> QED BY <1>2, <3>1, <3>2, <4>1 DEF WriteOf, Open
    <3>4. FetchedOf(e)'
      <4>1. Active(e) /\ ~Answered(e, "get")'
        BY <1>1, <1>2, <1>3, <1>4, <1>5, <1>6, OneOpen DEF ClientInv, Answered
      <4> QED BY <1>2, <3>1, <4>1 DEF FetchedOf
    <3>5. DocInv'
      BY <1>2, <3>1 DEF DocInv, Open
    <3> QED BY <3>1, <3>3, <3>4, <3>5, <1>8, OneActor
  <2> QED BY <2>1, <2>2 DEF SettledInv
<1> QED BY <1>14, <1>15

\* The server carries the request out and answers.
LEMMA ServeKeeps ==
  ASSUME ClientInv, NEW e \in Edit, NEW op \in Op, Serve(e, op)
  PROVE  ClientInv' /\ (SettledInv => SettledInv')
<1>1. Open(e, op) /\ conn[e] = "sent"
  BY DEF Serve, Carry
<1>2. UNCHANGED <<kind, disk, phase, value, attempt, unread, late, faults, expected,
          settled>>
  BY DEF Serve, Carry, server, net, director
<1>3. \A x \in Edit : conn'[x] = IF x = e THEN "answered" ELSE conn[x]
  BY DEF ClientInv, TypeOK, Request, Op, Serve, Carry, server, net, director
<1>4. \A x \in Edit : status'[x] = IF x = e THEN IF op # "put" /\ doc = NoDoc THEN 500 ELSE 200 ELSE status[x]
  BY DEF ClientInv, TypeOK, Request, Op, Serve, Carry, server, net, director
<1>5. \A o \in Op : Open(e, o) => o = op
  BY <1>1, OneOpen DEF ClientInv
<1>6. /\ \A x \in Edit, o \in Op : took[<<x, o>>] => took'[<<x, o>>]
      /\ \A x \in Edit, o \in Op : x # e \/ o # op => took'[<<x, o>>] = took[<<x, o>>]
      /\ op # "delete" \/ doc # NoDoc => took'[<<e, op>>]
  BY DEF ClientInv, TypeOK, Request, Op, Serve, Carry
<1>7. /\ \A x \in Edit, o \in Op : x # e \/ o # op => seen'[<<x, o>>] = seen[<<x, o>>]
      /\ op \in {"get", "exists"} => seen'[<<e, op>>] = doc
  BY DEF ClientInv, TypeOK, Request, Op, Serve, Carry
<1>8. /\ op = "put" => doc' = value[<<e, op>>]
      /\ op = "delete" => doc' = NoDoc
      /\ op \in {"get", "exists"} => doc' = doc
      /\ op = "delete" /\ doc = NoDoc => took'[<<e, op>>] = took[<<e, op>>]
  BY DEF ClientInv, TypeOK, Request, Op, Serve, Carry
<1>9. TypeOK'
  <2>1. doc' \in (SUBSET Disk) \cup {NoDoc}
    BY <1>1, ZenonT(60) DEF ClientInv, TypeOK, Request, Op, Serve, Carry, server, net,
      director
  <2>2. conn' \in [Edit -> {"none", "sent", "answered"}]
    BY <1>1 DEF ClientInv, TypeOK, Request, Op, Serve, Carry, server, net,
      director
  <2>3. status' \in [Edit -> {0, 200, 500} \cup TroubleStatus]
    BY <1>1 DEF ClientInv, TypeOK, Request, Op, Serve, Carry, server, net,
      director
  <2>4. took' \in [Request -> BOOLEAN]
    BY <1>1 DEF ClientInv, TypeOK, Request, Op, Serve, Carry, server, net,
      director
  <2>5. seen' \in [Request -> (SUBSET Disk) \cup {NoDoc}]
    BY <1>1 DEF ClientInv, TypeOK, Request, Op, Serve, Carry, server, net,
      director
  <2> QED BY <1>2, <2>1, <2>2, <2>3, <2>4, <2>5 DEF ClientInv, TypeOK
<1>10. \A x \in Edit \ {e} : Same(x)
  <2> SUFFICES ASSUME NEW x \in Edit, x # e PROVE Same(x)
    OBVIOUS
  <2>1. UNCHANGED <<kind[x], disk[x], conn[x], status[x], attempt[x], unread[x]>>
    BY <1>1, <1>2, <1>3, <1>4, <1>5, <1>6, <1>7, <1>8 DEF ClientInv, TypeOK
  <2>2. \A o \in Op : UNCHANGED <<phase[<<x, o>>], late[<<x, o>>], took[<<x, o>>],
                                     seen[<<x, o>>]>>
    BY <1>1, <1>2, <1>3, <1>4, <1>5, <1>6, <1>7, <1>8
  <2> QED BY <2>1, <2>2 DEF Same
<1>11. \A x \in Edit \ {e} : InOrder(x)' /\ Connected(x)' /\ PutOnce(x)' /\ Told(x)'
  BY <1>10, OthersKept
<1>12. InOrder(e)'
  <2>1. InOrder(e)
    BY DEF ClientInv, OrderInv
  <2>2. phase[<<e, "exists">>] = "ok" => seen'[<<e, "exists">>] = seen[<<e, "exists">>]
    BY <1>1, <1>7, OpsAre DEF Open
  <2> QED BY <1>2, <2>1, <2>2, OpsAre DEF InOrder
<1>13. Connected(e)'
  BY <1>1, <1>2, <1>3, <1>4, <1>5, <1>6, <1>7, <1>8, Counters, RegistryAssumption DEF
    ClientInv, ConnInv, Connected, Open
<1>14. PutOnce(e)'
  BY <1>1, <1>2, <1>3, <1>4, <1>5, <1>6, <1>7, <1>8, OpsAre, Counters DEF
    ClientInv, PutInv, PutOnce, ConnInv, Connected, Open
<1>15. Told(e)'
  BY <1>1, <1>2, <1>3, <1>4, <1>5, <1>6, <1>7, <1>8 DEF ClientInv, StatusInv,
    Told, Answered, Open
<1>16. ClientInv' BY <1>11, <1>9, <1>12, <1>13, <1>14, <1>15 DEF ClientInv,
  OrderInv, ConnInv, PutInv, StatusInv
<1>17. ASSUME SettledInv PROVE SettledInv'
  <2>1. expected' # {}
    BY <1>2, <1>17 DEF SettledInv
  <2>2. ASSUME settled' PROVE OneLive' /\ DocInv' /\ WriteInv' /\ FetchedInv'
    <3>1. /\ settled /\ Live(e) /\ OneLive /\ DocInv /\ WriteOf(e) /\ FetchedOf(e)
          /\ \A x \in Edit, o \in Op : Open(x, o) => x = e
      BY <1>1, <1>2, <1>17, <2>2, <1>10, OpenIsLive, OneActor, OpsAre
      DEF SettledInv, WriteInv, FetchedInv
    <3>2. Edits(e)' = Edits(e)
      BY <1>2 DEF Edits
    <3>3. \A x \in Edit, o \in Op : Open(x, o) => x = e /\ o = op
      BY <3>1, <1>5
    <3>4. \A o \in Op : (Open(e, o)' <=> Open(e, o))
      BY <1>2 DEF Open
    <3>5. op \in Writes => doc' \in Edits(e)
      <4>1. CASE op = "put"
        BY <1>1, <1>8, <3>1, <4>1 DEF WriteOf, Writes
      <4>2. CASE op = "delete"
        <5>1. phase[<<e, "delete">>] # "unsent" /\ expected # {}
          BY <1>1, <4>2, <1>17 DEF Open, SettledInv
        <5>2. NoDoc \in Edits(e)
          BY <5>1, DeleteEdits
        <5> QED BY <1>8, <4>2, <5>2
      <4> QED BY <4>1, <4>2 DEF Writes
    <3>6. op \notin Writes => doc' = doc
      BY <1>8, OpsAre DEF Writes, Op
    <3>7. WriteOf(e)'
      <4> SUFFICES ASSUME NEW o \in Writes
                   PROVE  /\ Open(e, o)' /\ took'[<<e, o>>] => doc' \in Edits(e)
                          /\ o = "put" /\ Open(e, o)' => value'[<<e, o>>] \in Edits(e)
                          /\ late'[<<e, o>>] > 0 /\ ~Open(e, o)' =>
                               (IF o = "put" THEN value'[<<e, o>>] ELSE NoDoc) \in expected'
        BY <3>2 DEF WriteOf
      <4>1. o \in Op
        BY OpsAre DEF Writes
      <4>2. Open(e, o)' => o = op
        BY <3>3, <3>4, <4>1
      <4> QED BY <1>2, <3>1, <3>4, <3>5, <4>1, <4>2 DEF WriteOf
    <3>8. FetchedOf(e)'
      <4>1. CASE op = "get"
        BY <1>1, <1>2, <1>7, <1>8, <4>1 DEF FetchedOf, Open
      <4>2. CASE op # "get"
        <5>1. ~Answered(e, "get")'
          BY <1>5, <3>4, <4>2, OpsAre DEF Answered
        <5>2. seen'[<<e, "get">>] = seen[<<e, "get">>]
          BY <1>7, <4>2, OpsAre
        <5>3. Active(e)
          BY <1>1, OneOpen DEF ClientInv
        <5>4. CASE op = "exists"
          BY <1>2, <1>8, <3>1, <5>1, <5>2, <5>3, <5>4 DEF FetchedOf
        <5>5. CASE op \in Writes
          <6>1. phase[<<e, op>>] = "open" /\ (op = "delete" => phase[<<e, "get">>] = "unsent")
            BY <1>1, <5>5, OneWrite DEF Open
          <6>2. ~(phase[<<e, "get">>] = "ok" /\ phase[<<e, "put">>] = "unsent")
            BY <5>5, <6>1 DEF Writes
          <6> QED BY <1>2, <5>1, <6>2 DEF FetchedOf
        <5> QED BY <4>2, <5>4, <5>5 DEF Op, Writes
      <4> QED BY <4>1, <4>2
    <3>9. DocInv'
      <4>1. CASE op \notin Writes
        BY <1>2, <3>1, <3>3, <3>6, <4>1, OpsAre DEF DocInv, Writes
      <4>2. CASE op \in Writes /\ took'[<<e, op>>]
        BY <1>1, <3>4, <4>2 DEF DocInv
      <4>3. CASE op \in Writes /\ ~took'[<<e, op>>]
        <5>1. op = "delete" /\ doc = NoDoc /\ doc' = doc /\ ~took[<<e, op>>]
          BY <1>6, <1>8, <4>3 DEF Writes
        <5>2. doc \in expected
          BY <3>1, <3>3, <5>1, OpsAre DEF DocInv, Writes
        <5> QED BY <1>2, <5>1, <5>2 DEF DocInv
      <4> QED BY <4>1, <4>2, <4>3
    <3> QED BY <3>1, <3>7, <3>8, <3>9, <1>10, OneActor
  <2> QED BY <2>1, <2>2 DEF SettledInv
<1> QED BY <1>16, <1>17

\* The server answers without carrying the request out.
LEMMA TroubleKeeps ==
  ASSUME ClientInv, NEW e \in Edit, NEW op \in Op, Trouble(e, op)
  PROVE  ClientInv' /\ (SettledInv => SettledInv')
<1>1. Open(e, op) /\ conn[e] = "sent"
  BY DEF Trouble, Faulty
<1>2. UNCHANGED <<doc, kind, disk, phase, value, attempt, unread, late, took, seen,
          expected, settled>>
  BY DEF Trouble, Faulty, server, net, director
<1>3. \A x \in Edit : conn'[x] = IF x = e THEN "answered" ELSE conn[x]
  BY DEF ClientInv, TypeOK, Request, Op, Trouble, Faulty, server, net, director
<1>4. \A o \in Op : Open(e, o) => o = op
  BY <1>1, OneOpen DEF ClientInv
<1>5. \E s \in TroubleStatus : \A x \in Edit : status'[x] = IF x = e THEN s ELSE status[x]
  BY DEF ClientInv, TypeOK, Trouble
<1>6. TypeOK'
  <2>1. conn' \in [Edit -> {"none", "sent", "answered"}]
    BY <1>1 DEF ClientInv, TypeOK, Request, Op, Trouble, Faulty, server, net,
      director
  <2>2. status' \in [Edit -> {0, 200, 500} \cup TroubleStatus]
    BY <1>1 DEF ClientInv, TypeOK, Request, Op, Trouble, Faulty, server, net,
      director
  <2>3. faults' \in 0..MaxFaults
    BY <1>1, RegistryAssumption DEF ClientInv, TypeOK, Request, Op, Trouble,
      Faulty, server, net, director
  <2> QED BY <1>2, <2>1, <2>2, <2>3 DEF ClientInv, TypeOK
<1>7. \A x \in Edit \ {e} : Same(x)
  <2> SUFFICES ASSUME NEW x \in Edit, x # e PROVE Same(x)
    OBVIOUS
  <2>1. UNCHANGED <<kind[x], disk[x], conn[x], status[x], attempt[x], unread[x]>>
    BY <1>1, <1>2, <1>3, <1>4, <1>5 DEF ClientInv, TypeOK
  <2>2. \A o \in Op : UNCHANGED <<phase[<<x, o>>], late[<<x, o>>], took[<<x, o>>],
                                     seen[<<x, o>>]>>
    BY <1>2
  <2> QED BY <2>1, <2>2 DEF Same
<1>8. \A x \in Edit \ {e} : InOrder(x)' /\ Connected(x)' /\ PutOnce(x)' /\ Told(x)'
  BY <1>7, OthersKept
<1>9. InOrder(e)'
  BY <1>2, OpsAre DEF ClientInv, OrderInv, InOrder
<1>10. Connected(e)'
  BY <1>1, <1>2, <1>3, <1>4, <1>5, Counters, RegistryAssumption DEF ClientInv,
    ConnInv, Connected, Open
<1>11. PutOnce(e)'
  BY <1>1, <1>2, <1>3, <1>4, <1>5, OpsAre, Counters DEF ClientInv, PutInv,
    PutOnce, ConnInv, Connected, Open
<1>12. Told(e)'
  BY <1>1, <1>2, <1>3, <1>4, <1>5, RegistryAssumption DEF ClientInv, StatusInv,
    Told, Answered, Open
<1>13. ClientInv' BY <1>8, <1>6, <1>9, <1>10, <1>11, <1>12 DEF ClientInv,
  OrderInv, ConnInv, PutInv, StatusInv
<1>14. ASSUME SettledInv PROVE SettledInv'
  <2>1. expected' # {}
    BY <1>2, <1>14 DEF SettledInv
  <2>2. ASSUME settled' PROVE OneLive' /\ DocInv' /\ WriteInv' /\ FetchedInv'
    <3>1. /\ settled /\ Live(e) /\ OneLive /\ DocInv /\ WriteOf(e) /\ FetchedOf(e)
          /\ \A x \in Edit, o \in Op : Open(x, o) => x = e
      BY <1>1, <1>2, <1>14, <2>2, <1>7, OpenIsLive, OneActor, OpsAre
      DEF SettledInv, WriteInv, FetchedInv
    <3>2. Edits(e)' = Edits(e)
      BY <1>2 DEF Edits
    <3>3. WriteOf(e)'
      BY <1>2, <3>1, <3>2 DEF WriteOf, Open
    <3>4. FetchedOf(e)'
      <4>1. Active(e) /\ status'[e] # 200
        BY <1>1, <1>2, <1>3, <1>4, <1>5, OneOpen, RegistryAssumption DEF ClientInv
      <4> QED BY <1>2, <3>1, <4>1 DEF FetchedOf
    <3>5. DocInv'
      BY <1>2, <3>1 DEF DocInv, Open
    <3> QED BY <3>1, <3>3, <3>4, <3>5, <1>7, OneActor
  <2> QED BY <2>1, <2>2 DEF SettledInv
<1> QED BY <1>13, <1>14

\* A writing on its way arrives, or is dropped.
LEMMA ServeLateKeeps ==
  ASSUME ClientInv, NEW e \in Edit, NEW op \in Op, ServeLate(<<e, op>>)
  PROVE  ClientInv' /\ (SettledInv => SettledInv')
<1>1. late[<<e, op>>] > 0
  BY DEF ServeLate, Carry
<1>2. UNCHANGED <<kind, disk, phase, value, conn, status, attempt, unread, faults,
          expected, settled>>
  BY DEF ServeLate, Carry, server, net, director
<1>3. \A x \in Edit, o \in Op : late'[<<x, o>>] =
      IF x = e /\ o = op THEN late[<<e, op>>] - 1 ELSE late[<<x, o>>]
  BY DEF ClientInv, TypeOK, Request, Op, ServeLate, Carry, server, net,
    director
<1>4. ASSUME NEW x \in Edit, NEW o \in Op
      PROVE  late'[<<x, o>>] \in Nat /\ late'[<<x, o>>] <= late[<<x, o>>]
  <2>1. late[<<x, o>>] \in Nat
    BY Counters
  <2> QED BY <1>1, <1>3, <2>1
<1>5. op \in Writes
  BY <1>1 DEF ClientInv, ConnInv, Connected
<1>6. UNCHANGED seen
  BY <1>5 DEF ServeLate, Carry, server, Writes
<1>7. \/ UNCHANGED <<doc, took>>
      \/ /\ took' = [took EXCEPT ![<<e, op>>] = @ \/ op # "delete" \/ doc # NoDoc]
         /\ doc' = IF op = "put" THEN value[<<e, op>>] ELSE NoDoc
  BY <1>5 DEF ServeLate, Carry, server, Writes
<1>8. /\ \A x \in Edit, o \in Op : took[<<x, o>>] => took'[<<x, o>>]
      /\ \A x \in Edit, o \in Op : x # e \/ o # op => took'[<<x, o>>] = took[<<x, o>>]
  <2>1. CASE UNCHANGED took
    BY <2>1
  <2>2. CASE took' = [took EXCEPT ![<<e, op>>] = @ \/ op # "delete" \/ doc # NoDoc]
    BY <2>2 DEF ClientInv, TypeOK, Request
  <2> QED BY <1>7, <2>1, <2>2
<1>9. \/ UNCHANGED <<doc, took>>
      \/ doc' = (IF op = "put" THEN value[<<e, op>>] ELSE NoDoc)
         /\ (took'[<<e, op>>] \/ (op = "delete" /\ doc = NoDoc))
  <2>1. took \in [Edit \X Op -> BOOLEAN]
    BY DEF ClientInv, TypeOK, Request
  <2>2. CASE UNCHANGED <<doc, took>>
    BY <2>2
  <2>3. CASE /\ took' = [took EXCEPT ![<<e, op>>] = @ \/ op # "delete" \/ doc # NoDoc]
             /\ doc' = IF op = "put" THEN value[<<e, op>>] ELSE NoDoc
    <3>1. took'[<<e, op>>] = (took[<<e, op>>] \/ op # "delete" \/ doc # NoDoc)
      BY <2>1, <2>3
    <3>2. CASE op # "delete" \/ doc # NoDoc
      BY <2>3, <3>1, <3>2
    <3>3. CASE op = "delete" /\ doc = NoDoc
      BY <2>3, <3>3
    <3> QED BY <3>2, <3>3
  <2> QED BY <1>7, <2>2, <2>3
<1>10. TypeOK'
  <2>1. doc' \in (SUBSET Disk) \cup {NoDoc}
    BY <1>7 DEF ClientInv, TypeOK, Request, Op, ServeLate, Carry, server, net,
      director
  <2>2. late' \in [Request -> 0..MaxAttempts]
    BY <1>1, RegistryAssumption DEF ClientInv, TypeOK, Request, Op, ServeLate,
      Carry, server, net, director
  <2>3. took' \in [Request -> BOOLEAN]
    BY <1>7, ZenonT(60) DEF ClientInv, TypeOK, Request, Op, ServeLate, Carry, server, net,
      director
  <2>4. seen' \in [Request -> (SUBSET Disk) \cup {NoDoc}]
    BY <1>6 DEF ClientInv, TypeOK, Request, Op, ServeLate, Carry, server, net,
      director
  <2> QED BY <1>2, <2>1, <2>2, <2>3, <2>4 DEF ClientInv, TypeOK
<1>11. \A x \in Edit \ {e} : Same(x)
  <2> SUFFICES ASSUME NEW x \in Edit, x # e PROVE Same(x)
    OBVIOUS
  <2>1. UNCHANGED <<kind[x], disk[x], conn[x], status[x], attempt[x], unread[x]>>
    BY <1>2 
  <2>2. \A o \in Op : UNCHANGED <<phase[<<x, o>>], late[<<x, o>>], took[<<x, o>>],
                                     seen[<<x, o>>]>>
    BY <1>1, <1>2, <1>3, <1>4, <1>5, <1>6, <1>7, <1>8, <1>9
  <2> QED BY <2>1, <2>2 DEF Same
<1>12. \A x \in Edit \ {e} : InOrder(x)' /\ Connected(x)' /\ PutOnce(x)' /\ Told(x)'
  BY <1>11, OthersKept
<1>13. InOrder(e)'
  BY <1>1, <1>2, <1>3, <1>4, <1>5, <1>6, <1>7, <1>8, <1>9, OpsAre DEF
    ClientInv, OrderInv, InOrder
<1>14. Connected(e)'
  <2>1. Connected(e)
    BY DEF ClientInv, ConnInv
  <2>2. /\ \A o \in Op : late[<<e, o>>] \in Nat /\ late'[<<e, o>>] \in Nat
        /\ \A o \in Op : late'[<<e, o>>] <= late[<<e, o>>]
        /\ attempt[e] \in Nat
    BY <1>4, Counters
  <2>3. \A o \in Op : o # op => took'[<<e, o>>] = took[<<e, o>>]
    BY <1>8
  <2>4. phase[<<e, op>>] # "unsent" /\ ~(Open(e, op) /\ unread[e])
    BY <1>1, <2>1 DEF Connected
  <2>5. /\ conn'[e] # "none" => attempt'[e] < MaxAttempts /\ \E o \in Op : Open(e, o)'
        /\ \A o \in Op : late'[<<e, o>>] > 0 => o \in Writes /\ phase'[<<e, o>>] # "unsent"
        /\ \A o \in Op : took'[<<e, o>>] => phase'[<<e, o>>] # "unsent"
    BY <1>2, <2>1, <2>2, <2>3, <2>4, SMTT(30) DEF Connected, Open
  <2>6. \A o \in Op : Open(e, o)' => late'[<<e, o>>] <= attempt'[e]
    BY <1>2, <2>1, <2>2 DEF Connected, Open
  <2>7. \A o \in Op : Open(e, o)' /\ unread'[e] =>
           conn'[e] = "none" /\ late'[<<e, o>>] = 0 /\ ~took'[<<e, o>>]
    BY <1>2, <2>1, <2>2, <2>3, <2>4 DEF Connected, Open
  <2> QED BY <2>5, <2>6, <2>7 DEF Connected
<1>15. PutOnce(e)'
  <2>1. PutOnce(e) /\ late[<<e, "put">>] \in Nat /\ late[<<e, op>>] \in Nat
    BY Counters, OpsAre DEF ClientInv, PutInv
  <2>2. CASE op = "put"
    <3>1. late[<<e, "put">>] = 1 /\ late'[<<e, "put">>] = 0
      BY <1>1, <1>3, <2>1, <2>2 DEF PutOnce
    <3>2. ~(Open(e, "put") /\ conn[e] # "none")
      BY <2>1, <3>1 DEF PutOnce
    <3>3. phase[<<e, "put">>] = "ok" => took'[<<e, "put">>]
      BY <1>8, <2>1, OpsAre DEF PutOnce
    <3> QED BY <1>2, <3>1, <3>2, <3>3 DEF PutOnce, Open
  <2>3. CASE op # "put"
    <3>1. late'[<<e, "put">>] = late[<<e, "put">>] /\ took'[<<e, "put">>] = took[<<e, "put">>]
      BY <1>3, <1>8, <2>3, OpsAre
    <3> QED BY <1>2, <2>1, <3>1 DEF PutOnce, Open
  <2> QED BY <2>2, <2>3
<1>16. Told(e)'
  <2>1. \A o \in Op : Answered(e, o)' => Answered(e, o)
    BY <1>2 DEF Answered, Open
  <2>2. \A o \in Op : took[<<e, o>>] => took'[<<e, o>>]
    BY <1>8
  <2>3. Told(e)
    BY DEF ClientInv, StatusInv
  <2> QED BY <1>2, <1>6, <2>1, <2>2, <2>3 DEF Told
<1>17. ClientInv' BY <1>12, <1>10, <1>13, <1>14, <1>15, <1>16 DEF ClientInv,
  OrderInv, ConnInv, PutInv, StatusInv
<1>18. ASSUME SettledInv PROVE SettledInv'
  <2>1. expected' # {}
    BY <1>2, <1>18 DEF SettledInv
  <2>2. ASSUME settled' PROVE OneLive' /\ DocInv' /\ WriteInv' /\ FetchedInv'
    <3>1. settled /\ Live(e) /\ op \in Op /\ op \in Writes
      BY <1>1, <1>2, <1>5, <2>2 DEF Live
    <3>2. OneLive /\ DocInv /\ WriteOf(e) /\ FetchedOf(e)
      BY <3>1, <1>18 DEF SettledInv, WriteInv, FetchedInv
    <3>3. \A x \in Edit, o \in Op : Open(x, o) => x = e
      BY <3>1, <3>2, <1>11, OneActor
    <3>4. Edits(e)' = Edits(e) /\ \A o \in Op : (Open(e, o)' <=> Open(e, o))
      BY <1>2 DEF Edits, Open
    <3>5. phase[<<e, op>>] # "unsent"
      BY <1>1 DEF ClientInv, ConnInv, Connected
    <3>6. \A o \in Writes : o \in Op /\ (phase[<<e, o>>] # "unsent" => o = op)
      BY <3>1, <3>5, OneWrite, OpsAre DEF Writes
    <3>7. \A o \in Writes : Open(e, o) => o = op
      BY <3>6 DEF Open
    <3>8. FetchedOf(e)'
      <4>1. ~Open(e, "get") /\ (op = "delete" => phase[<<e, "get">>] = "unsent")
        BY <3>1, <3>5, OneWrite
      <4>2. ~Answered(e, "get")' /\ ~(phase'[<<e, "get">>] = "ok" /\ phase'[<<e, "put">>] = "unsent")
        BY <1>2, <3>1, <3>4, <3>5, <4>1, OpsAre DEF Answered, Writes
      <4> QED BY <4>2 DEF FetchedOf
    <3>9. \A o \in Writes : late'[<<e, o>>] > 0 => late[<<e, o>>] > 0
      <4> TAKE o \in Writes
      <4>1. late[<<e, o>>] \in Nat /\ late'[<<e, o>>] \in Nat /\ late'[<<e, o>>] <= late[<<e, o>>]
        BY <1>4, <3>6, Counters
      <4> QED BY <4>1
    <3>10. CASE UNCHANGED <<doc, took>>
      <4>1. WriteOf(e)'
        BY <1>2, <3>2, <3>4, <3>6, <3>9, <3>10 DEF WriteOf
      <4>2. DocInv'
        BY <1>2, <3>2, <3>10 DEF DocInv, Open
      <4> QED BY <3>1, <3>2, <3>8, <4>1, <4>2, <1>11, OneActor
    <3>11. CASE /\ doc' = (IF op = "put" THEN value[<<e, op>>] ELSE NoDoc)
                /\ took'[<<e, op>>] \/ (op = "delete" /\ doc = NoDoc)
      <4>1. Open(e, op) => doc' \in Edits(e)
        <5>1. CASE op = "put"
          BY <3>1, <3>2, <3>11, <5>1 DEF WriteOf
        <5>2. CASE op = "delete"
          <6>1. NoDoc \in Edits(e)
            BY <3>5, <5>2, DeleteEdits, <1>18 DEF SettledInv
          <6> QED BY <3>11, <5>2, <6>1
        <5> QED BY <3>1, <5>1, <5>2 DEF Writes
      <4>2. ~Open(e, op) => doc' \in expected
        BY <1>1, <3>1, <3>2, <3>11 DEF WriteOf
      <4>3. \A o \in Writes : Open(e, o) => doc' \in Edits(e)
        BY <3>7, <4>1
      <4>4. WriteOf(e)'
        BY <1>2, <3>2, <3>4, <3>6, <3>9, <4>3 DEF WriteOf
      <4>5. DocInv'
        <5>1. CASE ~Open(e, op)
          BY <1>2, <4>2, <5>1 DEF DocInv
        <5>2. CASE Open(e, op) /\ took'[<<e, op>>]
          BY <3>1, <3>4, <5>2 DEF DocInv
        <5>3. CASE Open(e, op) /\ ~took'[<<e, op>>]
          <6>1. op = "delete" /\ doc = NoDoc /\ doc' = NoDoc
            BY <3>11, <5>3
          <6>2. ~took[<<e, op>>]
            BY <1>8, <3>1, <5>3
          <6>3. doc \in expected
            <7>1. \A x \in Edit, o \in Writes : Open(x, o) => x = e /\ o = op
              BY <3>3, <3>6, <3>7
            <7> QED BY <3>2, <6>2, <7>1 DEF DocInv
          <6> QED BY <1>2, <3>11, <6>1, <6>3 DEF DocInv
        <5> QED BY <5>1, <5>2, <5>3
      <4> QED BY <3>1, <3>2, <3>8, <4>4, <4>5, <1>11, OneActor
    <3> QED BY <1>9, <3>10, <3>11
  <2> QED BY <2>1, <2>2 DEF SettledInv
<1> QED BY <1>17, <1>18

\* A document that is cut off ends the request.
LEMMA FetchUnreadableKeeps ==
  ASSUME ClientInv, NEW e \in Edit, FetchUnreadable(e)
  PROVE  ClientInv' /\ (SettledInv => SettledInv')
<1>1. Open(e, "get")
  BY DEF FetchUnreadable, Answered, Faulty
<1>2. UNCHANGED <<doc, kind, disk, value, status, attempt, unread, late, took, seen,
          expected, settled>>
  BY DEF FetchUnreadable, Answered, Faulty, server, net, director
<1>3. \A x \in Edit, o \in Op : phase'[<<x, o>>] =
      IF x = e /\ o = "get" THEN "failed" ELSE phase[<<x, o>>]
  BY DEF ClientInv, TypeOK, Request, Op, FetchUnreadable, Answered, Faulty,
    server, net, director
<1>4. \A x \in Edit : conn'[x] = IF x = e THEN "none" ELSE conn[x]
  BY DEF ClientInv, TypeOK, Request, Op, FetchUnreadable, Answered, Faulty,
    server, net, director
<1>5. \A o \in Op : Open(e, o) => o = "get"
  BY <1>1, OneOpen, OpsAre DEF ClientInv
<1>6. TypeOK'
  <2>1. phase' \in [Request -> {"unsent", "open", "ok", "failed"}]
    BY <1>1 DEF ClientInv, TypeOK, Request, Op, FetchUnreadable, Answered,
      Faulty, server, net, director
  <2>2. conn' \in [Edit -> {"none", "sent", "answered"}]
    BY <1>1 DEF ClientInv, TypeOK, Request, Op, FetchUnreadable, Answered,
      Faulty, server, net, director
  <2>3. faults' \in 0..MaxFaults
    BY <1>1, RegistryAssumption DEF ClientInv, TypeOK, Request, Op,
      FetchUnreadable, Answered, Faulty, server, net, director
  <2> QED BY <1>2, <2>1, <2>2, <2>3 DEF ClientInv, TypeOK
<1>7. \A x \in Edit \ {e} : Same(x)
  <2> SUFFICES ASSUME NEW x \in Edit, x # e PROVE Same(x)
    OBVIOUS
  <2>1. UNCHANGED <<kind[x], disk[x], conn[x], status[x], attempt[x], unread[x]>>
    BY <1>1, <1>2, <1>3, <1>4, <1>5 DEF ClientInv, TypeOK
  <2>2. \A o \in Op : UNCHANGED <<phase[<<x, o>>], late[<<x, o>>], took[<<x, o>>],
                                     seen[<<x, o>>]>>
    BY <1>1, <1>2, <1>3, <1>4, <1>5
  <2> QED BY <2>1, <2>2 DEF Same
<1>8. \A x \in Edit \ {e} : InOrder(x)' /\ Connected(x)' /\ PutOnce(x)' /\ Told(x)'
  BY <1>7, OthersKept
<1>9. InOrder(e)'
  <2>1. InOrder(e)
    BY DEF ClientInv, OrderInv
  <2>2. \A o \in Op : phase'[<<e, o>>] # "unsent" => phase[<<e, o>>] # "unsent"
    BY <1>1, <1>3 DEF Open
  <2>3. \A o \in Op : phase[<<e, o>>] = "ok" => phase'[<<e, o>>] = "ok"
    BY <1>1, <1>3 DEF Open
  <2> QED BY <1>2, <2>1, <2>2, <2>3, OpsAre DEF InOrder
<1>10. Connected(e)'
  BY <1>1, <1>2, <1>3, <1>4, <1>5, Counters, RegistryAssumption DEF ClientInv,
    ConnInv, Connected, Open
<1>11. PutOnce(e)'
  BY <1>1, <1>2, <1>3, <1>4, <1>5, OpsAre, Counters DEF ClientInv, PutInv,
    PutOnce, ConnInv, Connected, Open
<1>12. Told(e)'
  BY <1>1, <1>2, <1>3, <1>4, <1>5 DEF ClientInv, StatusInv, Told, Answered,
    Open
<1>13. ClientInv' BY <1>8, <1>6, <1>9, <1>10, <1>11, <1>12 DEF ClientInv,
  OrderInv, ConnInv, PutInv, StatusInv
<1>14. ASSUME SettledInv PROVE SettledInv'
  <2>1. expected' # {}
    BY <1>2, <1>14 DEF SettledInv
  <2>2. ASSUME settled' PROVE OneLive' /\ DocInv' /\ WriteInv' /\ FetchedInv'
    <3>1. /\ settled /\ Live(e) /\ OneLive /\ DocInv /\ WriteOf(e) /\ FetchedOf(e)
          /\ \A x \in Edit, o \in Op : Open(x, o) => x = e
      BY <1>1, <1>2, <1>14, <2>2, <1>7, OpenIsLive, OneActor, OpsAre
      DEF SettledInv, WriteInv, FetchedInv
    <3>2. Edits(e)' = Edits(e)
      BY <1>2 DEF Edits
    <3>3. WriteOf(e)'
      <4>1. \A o \in Writes : o \in Op /\ (Open(e, o)' <=> Open(e, o))
        BY <1>3, OpsAre DEF Writes, Open
      <4> QED BY <1>2, <3>1, <3>2, <4>1 DEF WriteOf
    <3>4. FetchedOf(e)'
      <4>1. ~Active(e)' /\ ~Answered(e, "get")'
        BY <1>1, <1>2, <1>3, <1>4, OpsAre DEF Active, Failed, Answered
      <4> QED BY <4>1 DEF FetchedOf
    <3>5. DocInv'
      <4>1. doc \in expected
        BY <3>1, <1>5, OpsAre DEF DocInv, Writes
      <4> QED BY <1>2, <4>1 DEF DocInv
    <3> QED BY <3>1, <3>3, <3>4, <3>5, <1>7, OneActor
  <2> QED BY <2>1, <2>2 DEF SettledInv
<1> QED BY <1>13, <1>14

\* A process that dies leaves its writing on the way.
LEMMA CrashKeeps ==
  ASSUME ClientInv, NEW e \in Edit, NEW op \in Op, Crash(e, op)
  PROVE  ClientInv' /\ (SettledInv => SettledInv')
<1>1. Open(e, op)
  BY DEF Crash, Conclude, Faulty
<1>2. UNCHANGED <<doc, kind, disk, value, status, attempt, unread, took, seen,
          settled>>
  BY DEF Crash, Conclude, Faulty, server, net, director
<1>3. \A x \in Edit, o \in Op : phase'[<<x, o>>] =
      IF x = e /\ o = op THEN "failed" ELSE phase[<<x, o>>]
  BY DEF ClientInv, TypeOK, Request, Op, Crash, Conclude, Faulty, server, net,
    director
<1>4. \A x \in Edit : conn'[x] = IF x = e THEN "none" ELSE conn[x]
  BY DEF ClientInv, TypeOK, Request, Op, Crash, Conclude, Faulty, server, net,
    director
<1>5. \A x \in Edit, o \in Op : late'[<<x, o>>] =
      IF x = e /\ o = op THEN IF conn[e] = "sent" /\ op \in {"put", "delete"}
             THEN late[<<e, op>>] + 1 ELSE late[<<e, op>>] ELSE late[<<x, o>>]
  BY DEF ClientInv, TypeOK, Request, Op, Crash, Conclude, Faulty, server, net,
    director
<1>6. \A o \in Op : Open(e, o) => o = op
  BY <1>1, OneOpen DEF ClientInv
<1>7. TypeOK'
  <2>1. phase' \in [Request -> {"unsent", "open", "ok", "failed"}]
    BY <1>1 DEF ClientInv, TypeOK, Request, Op, Crash, Conclude, Faulty,
      server, net, director
  <2>2. conn' \in [Edit -> {"none", "sent", "answered"}]
    BY <1>1 DEF ClientInv, TypeOK, Request, Op, Crash, Conclude, Faulty,
      server, net, director
  <2>3. late' \in [Request -> 0..MaxAttempts]
    BY <1>1, LateFits, ZenonT(60) DEF ClientInv, TypeOK, Request, Op, Crash, Conclude,
      Faulty, server, net, director
  <2>4. faults' \in 0..MaxFaults
    BY <1>1, RegistryAssumption DEF ClientInv, TypeOK, Request, Op, Crash,
      Conclude, Faulty, server, net, director
  <2>5. expected' \subseteq (SUBSET Disk) \cup {NoDoc}
    BY EditsAreDocs DEF ClientInv, TypeOK, Request, Op, Crash, Conclude,
      Faulty, server, net, director
  <2> QED BY <1>2, <2>1, <2>2, <2>3, <2>4, <2>5 DEF ClientInv, TypeOK
<1>8. \A x \in Edit \ {e} : Same(x)
  <2> SUFFICES ASSUME NEW x \in Edit, x # e PROVE Same(x)
    OBVIOUS
  <2>1. UNCHANGED <<kind[x], disk[x], conn[x], status[x], attempt[x], unread[x]>>
    BY <1>1, <1>2, <1>3, <1>4, <1>5, <1>6 DEF ClientInv, TypeOK
  <2>2. \A o \in Op : UNCHANGED <<phase[<<x, o>>], late[<<x, o>>], took[<<x, o>>],
                                     seen[<<x, o>>]>>
    BY <1>1, <1>2, <1>3, <1>4, <1>5, <1>6
  <2> QED BY <2>1, <2>2 DEF Same
<1>9. \A x \in Edit \ {e} : InOrder(x)' /\ Connected(x)' /\ PutOnce(x)' /\ Told(x)'
  BY <1>8, OthersKept
<1>10. InOrder(e)'
  <2>1. InOrder(e)
    BY DEF ClientInv, OrderInv
  <2>2. \A o \in Op : phase'[<<e, o>>] # "unsent" => phase[<<e, o>>] # "unsent"
    BY <1>1, <1>3 DEF Open
  <2>3. \A o \in Op : phase[<<e, o>>] = "ok" => phase'[<<e, o>>] = "ok"
    BY <1>1, <1>3 DEF Open
  <2> QED BY <1>2, <2>1, <2>2, <2>3, OpsAre DEF InOrder
<1>11. Connected(e)'
  <2>1. Connected(e)
    BY DEF ClientInv, ConnInv
  <2>2. /\ late[<<e, op>>] \in Nat
        /\ late'[<<e, op>>] > 0 => late[<<e, op>>] > 0 \/ op \in Writes
    BY <1>5, Counters DEF Writes
  <2>3. \A o \in Op : o # op => late'[<<e, o>>] = late[<<e, o>>] /\ ~Open(e, o)
    BY <1>5, <1>6
  <2>4. \A o \in Op : ~Open(e, o)' /\ (phase[<<e, o>>] # "unsent" => phase'[<<e, o>>] # "unsent")
    BY <1>3, <2>3 DEF Open
  <2>5. conn'[e] = "none" /\ phase'[<<e, op>>] # "unsent"
    BY <1>3, <1>4
  <2> QED BY <1>2, <2>1, <2>2, <2>3, <2>4, <2>5 DEF Connected
<1>12. PutOnce(e)'
  BY <1>1, <1>2, <1>3, <1>4, <1>5, <1>6, OpsAre, Counters DEF ClientInv,
    PutInv, PutOnce, ConnInv, Connected, Open
<1>13. Told(e)'
  BY <1>1, <1>2, <1>3, <1>4, <1>5, <1>6 DEF ClientInv, StatusInv, Told,
    Answered, Open
<1>14. ClientInv' BY <1>9, <1>7, <1>10, <1>11, <1>12, <1>13 DEF ClientInv,
  OrderInv, ConnInv, PutInv, StatusInv
<1>15. ASSUME SettledInv PROVE SettledInv'
  <2>1. /\ Edits(e) # {}
        /\ op \notin Writes => expected' = expected
        /\ op \in Writes => Edits(e) \subseteq expected'
        /\ op \in Writes /\ "failed" # "ok" => expected \subseteq expected'
    BY <1>3, <1>15, OpsAre DEF Crash, Conclude, Edits, SettledInv, Writes
  <2>2. expected' # {}
    BY <2>1, <1>15 DEF SettledInv
  <2>3. ASSUME settled' PROVE OneLive' /\ DocInv' /\ WriteInv' /\ FetchedInv'
    <3>1. /\ settled /\ Live(e) /\ OneLive /\ DocInv /\ WriteOf(e) /\ FetchedOf(e)
          /\ \A x \in Edit, o \in Op : Open(x, o) => x = e
      BY <1>1, <1>2, <1>15, <2>3, <1>8, OpenIsLive, OneActor, OpsAre
      DEF SettledInv, WriteInv, FetchedInv
    <3>2. \A x \in Edit, o \in Op : Open(x, o) => x = e /\ o = op
      BY <3>1, <1>6
    <3>3. \A o \in Op : ~Open(e, o)'
      BY <1>3, <1>6 DEF Open
    <3>4. DocInv'
      <4>1. op \notin Writes => doc \in expected
        BY <3>1, <3>2, OpsAre DEF DocInv, Writes
      <4>2. op \in Writes /\ took[<<e, op>>] => doc \in Edits(e)
        BY <1>1, <3>1 DEF WriteOf
      <4>3. op \in Writes /\ ~took[<<e, op>>] => doc \in expected /\ "failed" # "ok"
        BY <3>1, <3>2, OpsAre DEF DocInv, Writes
      <4> QED BY <1>2, <2>1, <4>1, <4>2, <4>3 DEF DocInv
    <3>5. WriteOf(e)'
      <4> SUFFICES ASSUME NEW o \in Writes, late'[<<e, o>>] > 0
                   PROVE  (IF o = "put" THEN value[<<e, o>>] ELSE NoDoc) \in expected'
        BY <1>2, <3>3, OpsAre DEF WriteOf, Writes
      <4>1. CASE o = op
        <5>1. o = "put" => value[<<e, o>>] \in Edits(e)
          BY <1>1, <3>1, <4>1 DEF WriteOf
        <5>2. o = "delete" => NoDoc \in Edits(e)
          BY <1>1, <4>1, DeleteEdits, <1>15 DEF SettledInv, Open
        <5> QED BY <2>1, <4>1, <5>1, <5>2 DEF Writes
      <4>2. CASE o # op
        <5>1. late[<<e, o>>] > 0 /\ phase[<<e, o>>] # "unsent" /\ ~Open(e, o)
          BY <1>2, <1>5, <1>6, <4>2, OpsAre DEF ClientInv, ConnInv, Connected, Writes
        <5>2. (IF o = "put" THEN value[<<e, o>>] ELSE NoDoc) \in expected
          BY <3>1, <5>1 DEF WriteOf
        <5>3. op \notin Writes
          BY <1>1, <4>2, <5>1, OneWrite DEF Open
        <5> QED BY <2>1, <5>2, <5>3
      <4> QED BY <4>1, <4>2
    <3>6. FetchedOf(e)'
      <4>1. ~Active(e)' /\ ~Answered(e, "get")'
        BY <1>2, <1>3, <1>4 DEF Active, Failed, Answered
      <4> QED BY <4>1 DEF FetchedOf
    <3> QED BY <3>1, <3>4, <3>5, <3>6, <1>8, OneActor
  <2> QED BY <2>2, <2>3 DEF SettledInv
<1> QED BY <1>14, <1>15

-----------------------------------------------------------------------------
(* The invariants hold in every state.                                     *)

\* A system that starts has nothing on its way.
LEMMA ClientStarts == Init => ClientInv /\ SettledInv
<1> SUFFICES ASSUME Init PROVE ClientInv /\ SettledInv
  OBVIOUS
<1>1. /\ \A e \in Edit : kind[e] = None /\ disk[e] = None /\ conn[e] = "none"
      /\ \A e \in Edit, op \in Op :
            /\ phase[<<e, op>>] = "unsent" /\ late[<<e, op>>] = 0
            /\ ~took[<<e, op>>] /\ seen[<<e, op>>] = NoDoc
  BY DEF Init, Request
<1>2. TypeOK
  <2>1. /\ doc \in (SUBSET Disk) \cup {NoDoc} /\ expected \subseteq (SUBSET Disk) \cup {NoDoc}
        /\ settled \in BOOLEAN /\ faults \in 0..MaxFaults
    BY RegistryAssumption DEF Init
  <2>2. /\ kind \in [Edit -> Kind \cup {None}] /\ disk \in [Edit -> Disk \cup {None}]
        /\ conn \in [Edit -> {"none", "sent", "answered"}]
        /\ status \in [Edit -> {0, 200, 500} \cup TroubleStatus]
        /\ attempt \in [Edit -> 0..MaxAttempts] /\ unread \in [Edit -> BOOLEAN]
    BY RegistryAssumption DEF Init
  <2>3. /\ phase \in [Request -> {"unsent", "open", "ok", "failed"}]
        /\ value \in [Request -> (SUBSET Disk) \cup {NoDoc}]
        /\ late \in [Request -> 0..MaxAttempts] /\ took \in [Request -> BOOLEAN]
        /\ seen \in [Request -> (SUBSET Disk) \cup {NoDoc}]
    BY RegistryAssumption DEF Init
  <2> QED BY <2>1, <2>2, <2>3 DEF TypeOK
<1>3. OrderInv
  BY <1>1, OpsAre DEF OrderInv, InOrder, TypeOK, Init
<1>4. ConnInv
  BY <1>1 DEF ConnInv, Connected, Open
<1>5. PutInv
  BY <1>1, OpsAre DEF PutInv, PutOnce, Open
<1>6. StatusInv
  BY <1>1 DEF StatusInv, Told, Answered
<1>7. expected = {doc}
  BY DEF Init
<1>8. \A e \in Edit : ~Live(e) /\ WriteOf(e) /\ FetchedOf(e)
  <2> TAKE e \in Edit
  <2>1. ~Live(e)
    <3>1. ~Active(e)
      BY <1>1 DEF Active
    <3>2. \A op \in Op : ~(late[<<e, op>>] > 0)
      BY <1>1
    <3> QED BY <3>1, <3>2 DEF Live
  <2>2. \A op \in Writes : op \in Op /\ ~Open(e, op) /\ ~(late[<<e, op>>] > 0)
    BY <1>1, OpsAre DEF Writes, Open
  <2>3. WriteOf(e)
    BY <2>2 DEF WriteOf
  <2>4. FetchedOf(e)
    BY <1>1, OpsAre DEF FetchedOf, Answered, Open
  <2> QED BY <2>1, <2>3, <2>4
<1>9. SettledInv
  BY <1>7, <1>8 DEF SettledInv, OneLive, DocInv, WriteInv, FetchedInv
<1> QED BY <1>2, <1>3, <1>4, <1>5, <1>6, <1>9 DEF ClientInv

\* Every answer the client gives its caller is one a server gave it.
LEMMA MethodsAnswer ==
  ASSUME ClientInv, NEW e \in Edit,
         Fetch(e) \/ IsExist(e) \/ Update(e) \/ Delete(e)
         \/ \E op \in Op : GiveUp(e, op)
  PROVE  \E op \in Op, result \in {"ok", "failed"} :
            /\ Answer(e, op, result) /\ Open(e, op)
            /\ result = "ok" /\ op # "exists" => took[<<e, op>>]
            /\ result = "ok" /\ op = "get" =>
                  Answered(e, op) /\ status[e] = 200 /\ seen[<<e, op>>] # NoDoc
            /\ result = "ok" /\ op = "exists" /\ 500 \notin TroubleStatus => took[<<e, op>>]
<1> DEFINE Good(op, result) ==
            /\ Answer(e, op, result) /\ Open(e, op)
            /\ result = "ok" /\ op # "exists" => took[<<e, op>>]
            /\ result = "ok" /\ op = "get" =>
                  Answered(e, op) /\ status[e] = 200 /\ seen[<<e, op>>] # NoDoc
            /\ result = "ok" /\ op = "exists" /\ 500 \notin TroubleStatus => took[<<e, op>>]
<1>1. \A op \in Op : Answered(e, op) =>
         /\ Open(e, op)
         /\ status[e] \in {200, 201} => took[<<e, op>>]
         /\ status[e] = 200 /\ op = "get" => seen[<<e, op>>] # NoDoc
         /\ status[e] = 500 /\ op = "exists" /\ 500 \notin TroubleStatus => took[<<e, op>>]
  BY DEF ClientInv, StatusInv, Told, Answered
<1>2. CASE Fetch(e)
  <2>1. Good("get", "ok") \/ Good("get", "failed")
    BY <1>1, <1>2, OpsAre DEF Fetch
  <2> QED BY <2>1, OpsAre
<1>3. CASE IsExist(e)
  <2>1. Good("exists", "ok") \/ Good("exists", "failed")
    BY <1>1, <1>3, OpsAre DEF IsExist
  <2> QED BY <2>1, OpsAre
<1>4. CASE Update(e)
  <2>1. Good("put", "ok") \/ Good("put", "failed")
    BY <1>1, <1>4, OpsAre DEF Update
  <2> QED BY <2>1, OpsAre
<1>5. CASE Delete(e)
  <2>1. Good("delete", "ok") \/ Good("delete", "failed")
    BY <1>1, <1>5, OpsAre DEF Delete
  <2> QED BY <2>1, OpsAre
<1>6. CASE \E op \in Op : GiveUp(e, op)
  <2>1. PICK op \in Op : GiveUp(e, op)
    BY <1>6
  <2>2. Good(op, "failed")
    BY <2>1 DEF GiveUp
  <2> QED BY <2>2
<1> QED BY <1>2, <1>3, <1>4, <1>5, <1>6

\* The invariants survive the steps that change nothing.
LEMMA ClientStutters ==
  ASSUME UNCHANGED vars
  PROVE  (ClientInv => ClientInv') /\ (SettledInv => SettledInv')
<1> USE DEF vars
<1>1. ClientInv => ClientInv'
  BY DEF ClientInv, TypeOK, OrderInv, InOrder, ConnInv, Connected, PutInv, PutOnce,
    StatusInv, Told, Answered, Open
<1>2. \A e \in Edit : (Live(e)' <=> Live(e)) /\ (WriteOf(e)' <=> WriteOf(e))
                      /\ (FetchedOf(e)' <=> FetchedOf(e))
  BY DEF Live, Active, Failed, Succeeded, NotThere, WriteOf, FetchedOf, Answered, Open, Edits
<1>3. DocInv' <=> DocInv
  BY DEF DocInv, Open
<1>4. SettledInv => SettledInv'
  BY <1>2, <1>3 DEF SettledInv, OneLive, WriteInv, FetchedInv
<1> QED BY <1>1, <1>4

\* Every step keeps both invariants.
LEMMA ClientKeeps ==
  ASSUME ClientInv, [Next]_vars
  PROVE  ClientInv' /\ (SettledInv => SettledInv')
<1>1. CASE UNCHANGED vars
  BY <1>1, ClientStutters
<1>2. ASSUME NEW e \in Edit, StartEdit(e)
      PROVE  ClientInv' /\ (SettledInv => SettledInv')
  <2>1. \E k \in Kind, d \in Disk \cup {None} :
           Start(e, k, d) /\ (k \in {"attach", "detach"} => d \in Disk)
    BY <1>2 DEF StartEdit, Kind
  <2> QED BY <2>1, StartKeeps
<1>3. ASSUME NEW e \in Edit, NEW op \in Op,
             NewRequest(e, op) \/ Transmit(e, op) \/ AttemptFails(e, op)
      PROVE  ClientInv' /\ (SettledInv => SettledInv')
  BY <1>3, NewRequestKeeps, TransmitKeeps, AttemptFailsKeeps
<1>4. ASSUME NEW e \in Edit,
             Fetch(e) \/ IsExist(e) \/ Update(e) \/ Delete(e)
             \/ \E op \in Op : GiveUp(e, op)
      PROVE  ClientInv' /\ (SettledInv => SettledInv')
  <2>1. PICK op \in Op, result \in {"ok", "failed"} :
            /\ Answer(e, op, result) /\ Open(e, op)
            /\ result = "ok" /\ op # "exists" => took[<<e, op>>]
            /\ result = "ok" /\ op = "get" => Answered(e, op) /\ status[e] = 200
    BY <1>4, MethodsAnswer
  <2> QED BY <2>1, AnswerKeeps
<1>5. ASSUME NEW e \in Edit, FetchUnreadable(e)
      PROVE  ClientInv' /\ (SettledInv => SettledInv')
  BY <1>5, FetchUnreadableKeeps
<1>6. ASSUME NEW e \in Edit, NEW op \in Op, Serve(e, op)
      PROVE  ClientInv' /\ (SettledInv => SettledInv')
  BY <1>6, ServeKeeps
<1>7. ASSUME NEW e \in Edit, NEW op \in Op,
             HttpClientFails(e, op) \/ Break(e, op) \/ Trouble(e, op) \/ Crash(e, op)
      PROVE  ClientInv' /\ (SettledInv => SettledInv')
  BY <1>7, HttpClientFailsKeeps, BreakKeeps, TroubleKeeps, CrashKeeps
<1>8. ASSUME NEW r \in Request, ServeLate(r)
      PROVE  ClientInv' /\ (SettledInv => SettledInv')
  <2>1. PICK e \in Edit, op \in Op : r = <<e, op>>
    BY DEF Request
  <2> QED BY <1>8, <2>1, ServeLateKeeps
<1>9. \/ UNCHANGED vars
      \/ \E e \in Edit : \/ StartEdit(e) \/ FetchUnreadable(e)
                         \/ \E op \in Op : Serve(e, op)
                         \/ \E op \in Op : NewRequest(e, op) \/ Transmit(e, op) \/ AttemptFails(e, op)
                         \/ \/ Fetch(e) \/ IsExist(e) \/ Update(e) \/ Delete(e)
                            \/ \E op \in Op : GiveUp(e, op)
      \/ \E e \in Edit, op \in Op :
            HttpClientFails(e, op) \/ Break(e, op) \/ Trouble(e, op) \/ Crash(e, op)
      \/ \E r \in Request : ServeLate(r)
  BY DEF Next, AllDone, ClientStep, ServerStep
<1> QED BY <1>1, <1>2, <1>3, <1>4, <1>5, <1>6, <1>7, <1>8, <1>9

\* Both invariants hold in every state the client and the server reach.
THEOREM ClientInductive == Spec => [](ClientInv /\ SettledInv)
<1>1. Init => ClientInv /\ SettledInv
  BY ClientStarts
<1>2. ClientInv /\ SettledInv /\ [Next]_vars => (ClientInv /\ SettledInv)'
  BY ClientKeeps
<1> QED BY <1>1, <1>2, PTL DEF Spec

\* The variables always have the types the code gives them: above all the
\* attempts and the sendings that may still arrive stay within the limit of
\* doRequest.
THEOREM RegistryTypeCorrect == Spec => []TypeOK
<1>1. ClientInv => TypeOK
  BY DEF ClientInv
<1> QED BY <1>1, ClientInductive, PTL

\* Edits that neither overlap nor begin early are kept, however often their
\* connections break: between them the document is one the director reckons
\* with.
THEOREM SettledEditsKept == Spec => []SettledEditsAreKept
<1>1. ClientInv /\ SettledInv => SettledEditsAreKept
  <2> SUFFICES ASSUME ClientInv, SettledInv, settled, ~OnItsWay PROVE doc \in expected
    BY DEF SettledEditsAreKept
  <2>1. \A e \in Edit, op \in Op : ~Open(e, op)
    BY OpenIsLive DEF Live, OnItsWay
  <2> QED BY <2>1, OpsAre DEF SettledInv, DocInv, Writes
<1> QED BY <1>1, ClientInductive, PTL

-----------------------------------------------------------------------------
(* The client implements RegistryContract.                                 *)

\* What the requests ask, as the contract has it.
Asked == [r \in Request |-> [op |-> IF phase[r] = "unsent" THEN "none" ELSE r[2],
                             value |-> value[r]]]

\* The variables of the contract.
promised == <<doc, phase, Asked, took, seen>>

\* Of a request that was made, the contract sees the operation and the value.
LEMMA AskedIs ==
  ASSUME NEW e \in Edit, NEW op \in Op
  PROVE  /\ Asked[<<e, op>>] = [op |-> IF phase[<<e, op>>] = "unsent" THEN "none" ELSE op,
                                value |-> value[<<e, op>>]]
         /\ Asked[<<e, op>>].value = value[<<e, op>>]
         /\ phase[<<e, op>>] # "unsent" => Asked[<<e, op>>].op = op
BY DEF Asked, Request

\* What is asked does not change while a request is under way.
LEMMA AskedStays ==
  ASSUME UNCHANGED value,
         \A r \in Request : phase'[r] = "unsent" <=> phase[r] = "unsent"
  PROVE  Asked' = Asked
BY DEF Asked

\* The answer of an open request is one the contract allows.
LEMMA AnswerIsPromised ==
  ASSUME ClientInv, NEW e \in Edit, NEW op \in Op, NEW result \in {"ok", "failed"},
         Open(e, op), phase' = [phase EXCEPT ![<<e, op>>] = result],
         UNCHANGED <<doc, took, seen, value>>,
         result = "ok" => took[<<e, op>>] /\ (op = "get" => seen[<<e, op>>] # NoDoc)
  PROVE  Contract!Next
<1>1. <<e, op>> \in Request /\ phase[<<e, op>>] = "open"
  BY DEF Request, Open
<1>2. phase \in [Request -> {"unsent", "open", "ok", "failed"}]
  BY DEF ClientInv, TypeOK
<1>3. \A r \in Request : phase'[r] = "unsent" <=> phase[r] = "unsent"
  BY <1>1, <1>2
<1>4. Asked' = Asked
  BY <1>3, AskedStays
<1>5. CASE result = "ok"
  <2>1. Asked[<<e, op>>].op = "get" => seen[<<e, op>>] # NoDoc
    BY <1>1, <1>5, AskedIs
  <2>2. Contract!Succeed(<<e, op>>)
    BY <1>1, <1>4, <1>5, <2>1 DEF Contract!Succeed, Asked
  <2> QED BY <1>1, <2>2 DEF Contract!Next
<1>6. CASE result = "failed"
  <2>1. Contract!Fail(<<e, op>>)
    BY <1>1, <1>4, <1>6 DEF Contract!Fail, Asked
  <2> QED BY <1>1, <2>1 DEF Contract!Next
<1> QED BY <1>5, <1>6

\* What the server carries out is what the contract lets it carry out: a
\* put once and not after its answer, a delete again and again, a reading
\* while its request is open.
LEMMA CarryIsPromised ==
  ASSUME ClientInv, NEW e \in Edit, NEW op \in Op, Carry(<<e, op>>),
         phase[<<e, op>>] # "unsent", UNCHANGED <<phase, value>>,
         op = "put" => phase[<<e, op>>] # "ok" /\ ~took[<<e, op>>],
         op \in {"get", "exists"} => Open(e, op)
  PROVE  Contract!Next
<1>1. /\ <<e, op>> \in Request
      /\ phase[<<e, op>>] \in {"open", "ok", "failed"}
      /\ took \in [Request -> BOOLEAN]
  BY DEF Request, ClientInv, TypeOK
<1>2. Asked' = Asked
  BY AskedStays
<1>3. Asked[<<e, op>>].op = op /\ Asked[<<e, op>>].value = value[<<e, op>>]
  BY AskedIs
<1>4. CASE op = "put"
  <2>1. doc' = value[<<e, op>>] /\ took' = [took EXCEPT ![<<e, op>>] = TRUE] /\ UNCHANGED seen
    BY <1>1, <1>4 DEF Carry
  <2>2. Contract!Put(<<e, op>>)
    BY <1>1, <1>2, <1>3, <1>4, <2>1 DEF Contract!Put, Asked
  <2> QED BY <1>1, <2>2 DEF Contract!Next
<1>5. CASE op = "delete"
  <2>1. doc' = NoDoc /\ UNCHANGED seen
    BY <1>5 DEF Carry
  <2>2. took' = [took EXCEPT ![<<e, op>>] = @ \/ doc # NoDoc]
    BY <1>1, <1>5 DEF Carry
  <2>3. Contract!Delete(<<e, op>>)
    BY <1>2, <1>3, <1>5, <2>1, <2>2 DEF Contract!Delete, Asked
  <2> QED BY <1>1, <2>3 DEF Contract!Next
<1>6. CASE op \in {"get", "exists"}
  <2>1. /\ doc' = doc /\ took' = [took EXCEPT ![<<e, op>>] = TRUE]
        /\ seen' = [seen EXCEPT ![<<e, op>>] = doc]
    BY <1>1, <1>6 DEF Carry
  <2>2. Contract!Read(<<e, op>>)
    BY <1>2, <1>3, <1>6, <2>1 DEF Contract!Read, Asked, Open
  <2> QED BY <1>1, <2>2 DEF Contract!Next
<1> QED BY <1>4, <1>5, <1>6 DEF Op

\* A new request is asked with its operation and its document.
LEMMA NewRequestIsPromised ==
  ASSUME ClientInv, NEW e \in Edit, NEW op \in Op, NewRequest(e, op)
  PROVE  Contract!Next
<1>1. <<e, op>> \in Request /\ phase[<<e, op>>] = "unsent"
  BY NextRequest DEF Request, ClientInv
<1>2. /\ phase' = [phase EXCEPT ![<<e, op>>] = "open"]
      /\ \A r \in Request \ {<<e, op>>} : phase'[r] = phase[r] /\ value'[r] = value[r]
      /\ UNCHANGED <<doc, took, seen>>
  BY DEF ClientInv, TypeOK, NewRequest, server
<1>3. Asked' = [Asked EXCEPT ![<<e, op>>] = Asked'[<<e, op>>]]
  BY <1>1, <1>2 DEF Asked
<1>4. Contract!Ask(<<e, op>>)
  BY <1>1, <1>2, <1>3 DEF Contract!Ask, Asked
<1> QED BY <1>1, <1>4 DEF Contract!Next

\* Every step of the client, the network or the server is a step of the
\* contract, or changes nothing it speaks of.
LEMMA StepIsPromised ==
  ASSUME ClientInv, [Next]_vars, 500 \notin TroubleStatus
  PROVE  [Contract!Next]_(Contract!contract)
<1>1. ASSUME UNCHANGED <<doc, phase, value, took, seen>>
      PROVE  UNCHANGED Contract!contract
  BY <1>1 DEF Contract!contract
<1>2. ASSUME NEW e \in Edit, NEW op \in Op, NewRequest(e, op)
      PROVE  Contract!Next
  BY <1>2, NewRequestIsPromised
<1>3. ASSUME NEW e \in Edit,
             Fetch(e) \/ IsExist(e) \/ Update(e) \/ Delete(e)
             \/ \E op \in Op : GiveUp(e, op)
      PROVE  Contract!Next
  <2>1. PICK op \in Op, result \in {"ok", "failed"} :
            /\ Answer(e, op, result) /\ Open(e, op)
            /\ result = "ok" => took[<<e, op>>] /\ (op = "get" => seen[<<e, op>>] # NoDoc)
    BY <1>3, MethodsAnswer
  <2>2. phase' = [phase EXCEPT ![<<e, op>>] = result] /\ UNCHANGED <<doc, took, seen, value>>
    BY <2>1 DEF Answer, server
  <2> QED BY <2>1, <2>2, AnswerIsPromised
<1>4. ASSUME NEW e \in Edit, NEW op \in Op, HttpClientFails(e, op) \/ Crash(e, op)
      PROVE  Contract!Next
  <2>1. /\ Open(e, op) /\ phase' = [phase EXCEPT ![<<e, op>>] = "failed"]
        /\ UNCHANGED <<doc, took, seen, value>>
    BY <1>4 DEF HttpClientFails, Crash, server
  <2> QED BY <2>1, AnswerIsPromised
<1>5. ASSUME NEW e \in Edit, FetchUnreadable(e)
      PROVE  Contract!Next
  <2>1. /\ Open(e, "get") /\ phase' = [phase EXCEPT ![<<e, "get">>] = "failed"]
        /\ UNCHANGED <<doc, took, seen, value>> /\ "get" \in Op
    BY <1>5, OpsAre DEF FetchUnreadable, Answered, server
  <2> QED BY <2>1, AnswerIsPromised
<1>6. ASSUME NEW e \in Edit, NEW op \in Op, Serve(e, op)
      PROVE  Contract!Next
  <2>1. Open(e, op) /\ conn[e] = "sent" /\ Carry(<<e, op>>) /\ UNCHANGED <<phase, value>>
    BY <1>6 DEF Serve
  <2>2. op = "put" => ~took[<<e, op>>]
    BY <2>1 DEF ClientInv, PutInv, PutOnce
  <2> QED BY <2>1, <2>2, CarryIsPromised DEF Open
<1>7. ASSUME NEW e \in Edit, NEW op \in Op, ServeLate(<<e, op>>)
      PROVE  Contract!Next \/ UNCHANGED Contract!contract
  <2>1. late[<<e, op>>] > 0 /\ UNCHANGED <<phase, value>>
    BY <1>7 DEF ServeLate
  <2>2. op \in Writes /\ phase[<<e, op>>] # "unsent"
    BY <2>1 DEF ClientInv, ConnInv, Connected
  <2>3. op = "put" => phase[<<e, op>>] # "ok" /\ ~took[<<e, op>>]
    BY <2>1 DEF ClientInv, PutInv, PutOnce
  <2>4. op \notin {"get", "exists"}
    BY <2>2 DEF Writes
  <2>5. CASE Carry(<<e, op>>)
    BY <2>1, <2>2, <2>3, <2>4, <2>5, CarryIsPromised
  <2>6. CASE UNCHANGED server
    BY <1>1, <2>1, <2>6 DEF server
  <2> QED BY <1>7, <2>5, <2>6 DEF ServeLate
<1>8. ASSUME NEW e \in Edit, NEW op \in Op,
             Transmit(e, op) \/ AttemptFails(e, op) \/ Break(e, op) \/ Trouble(e, op)
      PROVE  UNCHANGED Contract!contract
  BY <1>1, <1>8 DEF Transmit, AttemptFails, Break, Trouble, server
<1>9. ASSUME NEW e \in Edit, StartEdit(e)
      PROVE  UNCHANGED Contract!contract
  BY <1>1, <1>9 DEF StartEdit, Start, server
<1>10. ASSUME UNCHANGED vars PROVE UNCHANGED Contract!contract
  BY <1>1, <1>10 DEF vars
<1>11. \A r \in Request : \E e \in Edit, op \in Op : r = <<e, op>>
  BY DEF Request
<1> QED BY <1>2, <1>3, <1>4, <1>5, <1>6, <1>7, <1>8, <1>9, <1>10, <1>11
  DEF Next, AllDone, ClientStep, ServerStep

\* The client keeps its contract, for any number of edits, attempts and
\* faults: connections that break and are tried again never turn one Update
\* into two, nor make an answer up.  The one hypothesis is the reading of
\* IsExist, that status 500 means "no settings".
THEOREM ClientKeepsContract == ASSUME 500 \notin TroubleStatus PROVE Spec => KeepsContract
<1>1. Init => Contract!Init
  <2> SUFFICES ASSUME Init PROVE Contract!Init
    OBVIOUS
  <2>1. doc \in (SUBSET Disk) \cup {NoDoc}
    BY ClientStarts DEF ClientInv, TypeOK
  <2>2. Asked = [r \in Request |-> [op |-> "none", value |-> NoDoc]]
    BY DEF Asked, Init
  <2>3. /\ phase = [r \in Request |-> "unsent"] /\ took = [r \in Request |-> FALSE]
        /\ seen = [r \in Request |-> NoDoc]
    BY DEF Init
  <2> QED BY <2>1, <2>2, <2>3 DEF Contract!Init, Asked
<1>2. ClientInv /\ [Next]_vars => [Contract!Next]_(Contract!contract)
  BY StepIsPromised
<1> QED BY <1>1, <1>2, ClientInductive, PTL DEF Spec, KeepsContract, Contract!Spec

=============================================================================

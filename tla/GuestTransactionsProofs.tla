----------------------- MODULE GuestTransactionsProofs -----------------------
(* Proofs about GuestTransactions, for any plans, prices, deadlines and    *)
(* requests that err, with or without effect.                              *)
EXTENDS GuestTransactions, FiniteSetTheorems, SequenceTheorems, TLAPS

-----------------------------------------------------------------------------
(* The inductive invariant.                                                *)

\* What the variables hold.  An image is the first one or one of the plan.
Imaged  == {i \in DOMAIN plan : plan[i].op \in {"create", "reload"}}
Picture == {None, "first"} \cup {plan[i].image : i \in Imaged}
GuestRecord ==
    [exists : BOOLEAN, provisioned : BOOLEAN, hung : BOOLEAN, shown : BOOLEAN,
     active : {None, "provision", "reload", "upgrade", "other", "RECLAIM_WAIT"},
     pending : Picture, image : Picture, host : 0..Len(plan), data : 0..Len(plan)]
Sleeps == {0} \cup UNION {0..Polls[s] : s \in DOMAIN Polls}

Kinds ==
    /\ plan \in Plans /\ call \in 0..Len(plan)
    /\ guest \in GuestRecord
    /\ volume \in [busy : BOOLEAN, allowed : BOOLEAN]
    /\ left \in Sleeps /\ reloadLeft \in Sleeps
    /\ order \in 0..Len(orders) /\ idless \in 0..PlaceAttempts
    /\ alone \in BOOLEAN

\* A call that runs is at a step of its program.
Stage == Active => call # 0 /\ \E k \in DOMAIN Program(asked.op) : step = Program(asked.op)[k]

\* The orders, each of a call that was made.
IsOrder(o) ==
    /\ o = [by |-> o.by, prices |-> o.prices, status |-> o.status, work |-> o.work,
            gone |-> o.gone]
    /\ o.by \in 1..call
Orders ==
    /\ Len(orders) \in Nat /\ orders \in [1..Len(orders) -> {orders[i] : i \in 1..Len(orders)}]
    /\ \A i \in 1..Len(orders) : IsOrder(orders[i])

\* Before it has placed its order, a call has no more orders than receipts
\* without an order id, and an attempt is left.
Early == {"createObject", "userData", "idle", "upgrade", "placeVolume"}
Mine  == {i \in DOMAIN orders : orders[i].by = call}
Counted ==
    /\ Cardinality(Mine) <= 1 + idless /\ Cardinality(Mine) <= PlaceAttempts
    /\ step \in Early => Cardinality(Mine) <= idless /\ idless < PlaceAttempts

Cancelled == CancelledIsGoing

\* How far the reload is that a call asked for, while nothing else ran on
\* the guest: not asked for, to be begun, under way, or done.
Calm     == guest.active = None /\ guest.pending = None
Asked    == guest.active = None /\ guest.pending = asked.image
Reloads  == guest.active = "reload" /\ guest.shown /\ guest.pending = asked.image
Reloaded == Calm /\ guest.image = asked.image
Undisturbed ==
    call # 0 /\ asked.op = "reload" /\ alone /\ (Active \/ step = "finished") =>
        /\ \A i \in DOMAIN orders : orders[i].work = "done"
        /\ step \in {"userData", "idle", "reloadOS"} => Calm
        /\ step = "begun" => Asked \/ Reloads \/ Reloaded
        /\ step \in {"readyHalf", "readyRest"} => Reloads \/ Reloaded
        /\ step \in {"edit", "ready", "finished"} => Reloaded
        /\ step \in {"ready", "finished"} => guest.host = call
        /\ step # "userData" => guest.data = call

GuestInv == Kinds /\ Stage /\ Orders /\ Counted /\ Cancelled /\ Undisturbed

-----------------------------------------------------------------------------
(* The programs, and how a call goes on in its own.                        *)

\* The steps of a program are distinct.
LEMMA ProgramSteps ==
  ASSUME NEW op \in Ops
  PROVE  /\ Len(Program(op)) \in Nat /\ DOMAIN Program(op) = 1..Len(Program(op))
         /\ \A i, j \in DOMAIN Program(op) : Program(op)[i] = Program(op)[j] => i = j
         /\ \A i \in DOMAIN Program(op) : Program(op)[i] \notin Ended
<1>1. CASE op = "create"
  BY <1>1 DEF Program, Ended
<1>2. CASE op = "reload"
  BY <1>2 DEF Program, Ended
<1>3. CASE op = "edit"
  BY <1>3 DEF Program, Ended
<1>4. CASE op = "cancel"
  BY <1>4 DEF Program, Ended
<1>5. CASE op = "disk"
  BY <1>5 DEF Program, Ended
<1>6. CASE op = "config"
  BY <1>6 DEF Program, Ended
<1>7. CASE op = "volume"
  BY <1>7 DEF Program, Ended
<1>8. CASE op = "snapshot"
  BY <1>8 DEF Program, Ended
<1>9. CASE op = "authorize"
  BY <1>9 DEF Program, Ended
<1>10. CASE op = "deauthorize"
  BY <1>10 DEF Program, Ended
<1> QED BY <1>1, <1>2, <1>3, <1>4, <1>5, <1>6, <1>7, <1>8, <1>9, <1>10 DEF Ops

\* What a call asks for is one of the operations.
LEMMA AskedOp ==
  ASSUME Kinds, Stage, Active
  PROVE  /\ call \in 1..Len(plan) /\ Len(plan) \in Nat /\ asked.op \in Ops
         /\ call \in DOMAIN plan /\ DOMAIN plan = 1..Len(plan)
<1>1. Len(plan) \in Nat /\ DOMAIN plan = 1..Len(plan) /\ \A i \in DOMAIN plan : plan[i].op \in Ops
  BY TransactionAssumption DEF Kinds
<1>2. call \in 1..Len(plan)
  BY <1>1 DEF Kinds, Stage
<1> QED BY <1>1, <1>2 DEF asked

\* The step after a step is the next one of the program.
LEMMA StepAfterIs ==
  ASSUME Kinds, Stage, Active, NEW k \in DOMAIN Program(asked.op), step = Program(asked.op)[k]
  PROVE  StepAfter = IF k = Len(Program(asked.op)) THEN "finished" ELSE Program(asked.op)[k + 1]
<1> DEFINE prog == Program(asked.op)
<1>1. \A i \in DOMAIN prog : prog[i] = step => i = k
  BY AskedOp, ProgramSteps
<1>2. (CHOOSE i \in DOMAIN prog : prog[i] = step) = k
  BY <1>1
<1> QED BY <1>2 DEF StepAfter

\* The order of the steps, as far as the invariant is about it.
LEMMA LaterSteps ==
  ASSUME Kinds, Stage, Active
  PROVE  /\ StepAfter = "finished" \/ \E k \in DOMAIN Program(asked.op) : StepAfter = Program(asked.op)[k]
         /\ StepAfter \in Early => step \in {"createObject", "userData", "idle"}
         /\ asked.op = "cancel" =>
               \/ step = "idleToCancel" /\ StepAfter = "delete"
               \/ step = "delete" /\ StepAfter = "finished"
         /\ asked.op = "reload" =>
               \/ step = "userData" /\ StepAfter = "idle"
               \/ step = "idle" /\ StepAfter = "reloadOS"
               \/ step = "reloadOS" /\ StepAfter = "begun"
               \/ step = "begun" /\ StepAfter = "readyHalf"
               \/ step = "readyHalf" /\ StepAfter = "readyRest"
               \/ step = "readyRest" /\ StepAfter = "edit"
               \/ step = "edit" /\ StepAfter = "ready"
               \/ step = "ready" /\ StepAfter = "finished"
<1>1. PICK k \in DOMAIN Program(asked.op) : step = Program(asked.op)[k]
  BY DEF Stage
<1>2. StepAfter = IF k = Len(Program(asked.op)) THEN "finished" ELSE Program(asked.op)[k + 1]
  BY <1>1, StepAfterIs
<1>3. asked.op \in Ops
  BY AskedOp
<1>4. CASE asked.op = "create"
  <2> DEFINE prog == Program(asked.op)
  <2>1. Len(prog) = 4 /\ DOMAIN prog = 1..4
    BY <1>4 DEF Program
  <2>2. prog[1] = "createObject" /\ prog[2] = "userData" /\ prog[3] = "ready" /\ prog[4] = "idleAfter"
    BY <1>4 DEF Program
  <2>3. \E i \in 1..4 : step = prog[i] /\ StepAfter = IF i = 4 THEN "finished" ELSE prog[i + 1]
    BY <1>1, <1>2, <2>1
  <2> QED BY <1>4, <2>1, <2>2, <2>3 DEF Early
<1>5. CASE asked.op = "reload"
  <2> DEFINE prog == Program(asked.op)
  <2>1. Len(prog) = 8 /\ DOMAIN prog = 1..8
    BY <1>5 DEF Program
  <2>2. /\ prog[1] = "userData" /\ prog[2] = "idle" /\ prog[3] = "reloadOS" /\ prog[4] = "begun"
        /\ prog[5] = "readyHalf" /\ prog[6] = "readyRest" /\ prog[7] = "edit" /\ prog[8] = "ready"
    BY <1>5 DEF Program
  <2>3. \E i \in 1..8 : step = prog[i] /\ StepAfter = IF i = 8 THEN "finished" ELSE prog[i + 1]
    BY <1>1, <1>2, <2>1
  <2> QED BY <1>5, <2>1, <2>2, <2>3 DEF Early
<1>6. CASE asked.op = "edit"
  <2> DEFINE prog == Program(asked.op)
  <2>1. Len(prog) = 2 /\ DOMAIN prog = 1..2
    BY <1>6 DEF Program
  <2>2. prog[1] = "edit" /\ prog[2] = "ready"
    BY <1>6 DEF Program
  <2>3. \E i \in 1..2 : step = prog[i] /\ StepAfter = IF i = 2 THEN "finished" ELSE prog[i + 1]
    BY <1>1, <1>2, <2>1
  <2> QED BY <1>6, <2>1, <2>2, <2>3 DEF Early
<1>7. CASE asked.op = "cancel"
  <2> DEFINE prog == Program(asked.op)
  <2>1. Len(prog) = 2 /\ DOMAIN prog = 1..2
    BY <1>7 DEF Program
  <2>2. prog[1] = "idleToCancel" /\ prog[2] = "delete"
    BY <1>7 DEF Program
  <2>3. \E i \in 1..2 : step = prog[i] /\ StepAfter = IF i = 2 THEN "finished" ELSE prog[i + 1]
    BY <1>1, <1>2, <2>1
  <2> QED BY <1>7, <2>1, <2>2, <2>3 DEF Early
<1>8. CASE asked.op \in {"disk", "config"}
  <2> DEFINE prog == Program(asked.op)
  <2>1. Len(prog) = 4 /\ DOMAIN prog = 1..4
    BY <1>8 DEF Program
  <2>2. prog[1] = "idle" /\ prog[2] = "upgrade" /\ prog[3] = "completed" /\ prog[4] = "ready"
    BY <1>8 DEF Program
  <2>3. \E i \in 1..4 : step = prog[i] /\ StepAfter = IF i = 4 THEN "finished" ELSE prog[i + 1]
    BY <1>1, <1>2, <2>1
  <2> QED BY <1>8, <2>1, <2>2, <2>3 DEF Early
<1>9. CASE asked.op = "volume"
  <2> DEFINE prog == Program(asked.op)
  <2>1. Len(prog) = 2 /\ DOMAIN prog = 1..2
    BY <1>9 DEF Program
  <2>2. prog[1] = "placeVolume" /\ prog[2] = "awaitVolume"
    BY <1>9 DEF Program
  <2>3. \E i \in 1..2 : step = prog[i] /\ StepAfter = IF i = 2 THEN "finished" ELSE prog[i + 1]
    BY <1>1, <1>2, <2>1
  <2> QED BY <1>9, <2>1, <2>2, <2>3 DEF Early
<1>10. CASE asked.op = "snapshot"
  <2> DEFINE prog == Program(asked.op)
  <2>1. Len(prog) = 1 /\ DOMAIN prog = 1..1
    BY <1>10 DEF Program
  <2>2. prog[1] = "snapshot"
    BY <1>10 DEF Program
  <2>3. \E i \in 1..1 : step = prog[i] /\ StepAfter = IF i = 1 THEN "finished" ELSE prog[i + 1]
    BY <1>1, <1>2, <2>1
  <2> QED BY <1>10, <2>1, <2>2, <2>3 DEF Early
<1>11. CASE asked.op = "authorize"
  <2> DEFINE prog == Program(asked.op)
  <2>1. Len(prog) = 1 /\ DOMAIN prog = 1..1
    BY <1>11 DEF Program
  <2>2. prog[1] = "authorize"
    BY <1>11 DEF Program
  <2>3. \E i \in 1..1 : step = prog[i] /\ StepAfter = IF i = 1 THEN "finished" ELSE prog[i + 1]
    BY <1>1, <1>2, <2>1
  <2> QED BY <1>11, <2>1, <2>2, <2>3 DEF Early
<1>12. CASE asked.op = "deauthorize"
  <2> DEFINE prog == Program(asked.op)
  <2>1. Len(prog) = 2 /\ DOMAIN prog = 1..2
    BY <1>12 DEF Program
  <2>2. prog[1] = "readAllowed" /\ prog[2] = "deauthorize"
    BY <1>12 DEF Program
  <2>3. \E i \in 1..2 : step = prog[i] /\ StepAfter = IF i = 2 THEN "finished" ELSE prog[i + 1]
    BY <1>1, <1>2, <2>1
  <2> QED BY <1>12, <2>1, <2>2, <2>3 DEF Early
<1> QED BY <1>3, <1>4, <1>5, <1>6, <1>7, <1>8, <1>9, <1>10, <1>11, <1>12 DEF Ops

\* One sleep less is a number of sleeps.
LEMMA OneSleepLess ==
  ASSUME NEW n \in Sleeps PROVE n \in Nat /\ (n # 0 => n - 1 \in Sleeps)
<1>1. CASE n = 0
  BY <1>1
<1>2. CASE n # 0
  <2>1. PICK s \in DOMAIN Polls : n \in 0..Polls[s]
    BY <1>2 DEF Sleeps
  <2>2. n \in Nat /\ n - 1 \in 0..Polls[s]
    BY <1>2, <2>1, TransactionAssumption
  <2> QED BY <2>2 DEF Sleeps
<1> QED BY <1>1, <1>2

\* A step of a call, as far as it is about the call itself.
Paces == /\ call' = call /\ left' \in Sleeps /\ reloadLeft' \in Sleeps
         /\ step' \in {step, StepAfter, "failed", "finished"}

\* What Goto sets the deadline to.
LEMMA GotoPaces ==
  ASSUME Kinds, NEW s, Goto(s)
  PROVE  step' = s /\ call' = call /\ left' \in Sleeps
<1>1. \A t \in DOMAIN Polls : Polls[t] \in Sleeps
  BY TransactionAssumption DEF Sleeps
<1>2. 0 \in Sleeps /\ left \in Sleeps /\ reloadLeft \in Sleeps
  BY DEF Kinds, Sleeps
<1> QED BY <1>1, <1>2 DEF Goto

\* A call advances, or fails.
LEMMA AdvancePaces ==
  ASSUME Kinds, Advance
  PROVE  Paces /\ step' = StepAfter
BY GotoPaces DEF Advance, Paces, Kinds

\* A call fails.
LEMMA FailPaces ==
  ASSUME Kinds, Fail
  PROVE  Paces /\ step' = "failed"
BY GotoPaces DEF Fail, Paces, Kinds

\* A call needs nothing done.
LEMMA FinishPaces ==
  ASSUME Kinds, Goto("finished"), UNCHANGED reloadLeft
  PROVE  Paces /\ step' = "finished"
BY GotoPaces DEF Paces, Kinds

\* A call sleeps, or its time is up.
LEMMA SleepPaces ==
  ASSUME Kinds, SleepOrTimeOut
  PROVE  Paces /\ step' \in {step, "failed"}
<1>1. CASE Sleep
  <2>1. left # 0 /\ left' = left - 1 /\ (reloadLeft' = 0 \/ (reloadLeft # 0 /\ reloadLeft' = reloadLeft - 1))
    BY <1>1, OneSleepLess DEF Sleep, Kinds
  <2>2. left' \in Sleeps /\ reloadLeft' \in Sleeps
    BY <2>1, OneSleepLess DEF Kinds, Sleeps
  <2> QED BY <1>1, <2>2 DEF Sleep, Paces
<1>2. CASE left = 0 /\ Fail
  BY <1>2, FailPaces
<1> QED BY <1>1, <1>2 DEF SleepOrTimeOut

\* A call stays where it is.
LEMMA StayPaces ==
  ASSUME Kinds, UNCHANGED <<call, step, left, reloadLeft>>
  PROVE  Paces /\ step' = step
BY DEF Paces, Kinds

-----------------------------------------------------------------------------
(* What the steps of a call keep, whichever it is.                         *)

\* A step of a call under way.
Works == Active /\ Paces /\ UNCHANGED plan /\ (UNCHANGED alone \/ alone' = FALSE)

\* Which call takes a step.
LEMMA WhoseStep ==
  ASSUME Kinds, Stage, Active
  PROVE  /\ step = "createObject" => asked.op = "create"
         /\ step = "reloadOS" => asked.op = "reload"
         /\ asked.op \in {"create", "reload"} => asked.image \in Picture
<1>1. PICK k \in DOMAIN Program(asked.op) : step = Program(asked.op)[k]
  BY DEF Stage
<1>2. asked.op \in Ops /\ call \in DOMAIN plan
  BY AskedOp
<1>3. asked.op \in {"create", "reload"} => asked.image \in Picture
  BY <1>2 DEF Picture, Imaged, asked
<1>4. step = "createObject" => asked.op = "create"
  <2>1. CASE asked.op \in {"reload", "edit", "cancel"}
    BY <1>1, <2>1 DEF Program
  <2>2. CASE asked.op \in {"disk", "config", "volume", "snapshot", "authorize", "deauthorize"}
    BY <1>1, <2>2 DEF Program
  <2> QED BY <1>2, <2>1, <2>2 DEF Ops
<1>5. step = "reloadOS" => asked.op = "reload"
  <2>1. CASE asked.op \in {"create", "edit", "cancel"}
    BY <1>1, <2>1 DEF Program
  <2>2. CASE asked.op \in {"disk", "config", "volume", "snapshot", "authorize", "deauthorize"}
    BY <1>1, <2>2 DEF Program
  <2> QED BY <1>2, <2>1, <2>2 DEF Ops
<1> QED BY <1>3, <1>4, <1>5

\* The call goes on in its program.
LEMMA StageGoesOn ==
  ASSUME Kinds, Stage, Works
  PROVE  Stage' /\ asked' = asked /\ call' = call
<1>1. asked' = asked /\ call' = call /\ call # 0
  BY DEF Works, Paces, asked, Stage
<1>2. step' \in Ended \/ step' = step \/ step' = StepAfter
  BY DEF Works, Paces, Ended
<1>3. StepAfter = "finished" \/ \E k \in DOMAIN Program(asked.op) : StepAfter = Program(asked.op)[k]
  BY LaterSteps DEF Works
<1>4. \E k \in DOMAIN Program(asked.op) : step = Program(asked.op)[k]
  BY DEF Works, Stage
<1>5. Active' => \E k \in DOMAIN Program(asked.op) : step' = Program(asked.op)[k]
  BY <1>2, <1>3, <1>4 DEF Active, Ended
<1> QED BY <1>1, <1>5 DEF Stage

\* The kinds, from those of what changed.
LEMMA KindsGoOn ==
  ASSUME Kinds, Works, guest' \in GuestRecord, volume' \in [busy : BOOLEAN, allowed : BOOLEAN],
         order' \in 0..Len(orders'), idless' \in 0..PlaceAttempts
  PROVE  Kinds'
<1>1. plan' = plan /\ GuestRecord' = GuestRecord
  BY DEF Works, GuestRecord, Picture, Imaged
<1>2. Sleeps' = Sleeps
  BY DEF Sleeps
<1>3. call' = call /\ left' \in Sleeps /\ reloadLeft' \in Sleeps /\ alone' \in BOOLEAN
  BY DEF Works, Paces, Kinds
<1> QED BY <1>1, <1>2, <1>3 DEF Kinds

\* A step that places no order.
LEMMA OrdersRest ==
  ASSUME Kinds, Stage, Orders, Counted, Works, UNCHANGED <<orders, idless>>
  PROVE  Orders' /\ Counted'
<1>1. call' = call
  BY DEF Works, Paces
<1>2. Orders' /\ Mine' = Mine
  BY <1>1 DEF Orders, IsOrder, Mine
<1>3. step' \in Early => step \in Early
  BY LaterSteps DEF Works, Paces, Early
<1> QED BY <1>2, <1>3 DEF Counted

\* A step of a call that cancels nothing, or does not end with success.
LEMMA CancelledRests ==
  ASSUME Kinds, Stage, Works, asked.op # "cancel" \/ step' # "finished"
  PROVE  Cancelled'
BY StageGoesOn DEF Cancelled, CancelledIsGoing, Finished

\* A step of a call that reloads nothing.
LEMMA UndisturbedRests ==
  ASSUME Kinds, Stage, Works, asked.op # "reload"
  PROVE  Undisturbed'
BY StageGoesOn DEF Undisturbed

\* Of the steps only those of the program are taken.
LEMMA OtherCalls ==
  ASSUME Kinds, Stage, Works
  PROVE  /\ step \notin {"idleToCancel", "delete"} => Cancelled'
         /\ step \notin {"userData", "idle", "reloadOS", "begun", "readyHalf", "readyRest",
                         "edit", "ready"} => Undisturbed'
<1>1. asked.op = "cancel" => step \in {"idleToCancel", "delete"}
  BY LaterSteps DEF Works
<1>2. asked.op = "reload" => step \in {"userData", "idle", "reloadOS", "begun", "readyHalf",
                                       "readyRest", "edit", "ready"}
  BY LaterSteps DEF Works
<1> QED BY <1>1, <1>2, CancelledRests, UndisturbedRests

-----------------------------------------------------------------------------
(* The steps of a call.                                                    *)

\* A step that changes nothing but the call.
Asks == Works /\ UNCHANGED <<guest, volume, orders, order, idless>>

\* Such a step keeps all but what a call that ends says of the guest.
LEMMA AsksKeeps ==
  ASSUME GuestInv, Asks
  PROVE  Kinds' /\ Stage' /\ Orders' /\ Counted'
<1>1. Works /\ UNCHANGED <<guest, volume, orders, order, idless>>
  BY DEF Asks
<1>2. Kinds'
  <2>1. guest' \in GuestRecord /\ volume' \in [busy : BOOLEAN, allowed : BOOLEAN]
    BY <1>1 DEF GuestInv, Kinds
  <2>2. order' \in 0..Len(orders') /\ idless' \in 0..PlaceAttempts
    BY <1>1 DEF GuestInv, Kinds
  <2> QED BY <1>1, <2>1, <2>2, KindsGoOn DEF GuestInv
<1> QED BY <1>1, <1>2, StageGoesOn, OrdersRest DEF GuestInv

\* A poll asks only.
LEMMA PollAsks ==
  ASSUME Kinds, Active, NEW there \in BOOLEAN, Poll(there, Fail)
  PROVE  /\ Asks
         /\ \/ guest.exists /\ there /\ step' = StepAfter
            \/ step' \in {step, "failed"}
<1>1. UNCHANGED <<guest, volume, orders, plan, order, idless, alone>>
  BY DEF Poll, cloud
<1>2. CASE guest.exists /\ there /\ Advance
  BY <1>1, <1>2, AdvancePaces DEF Asks, Works
<1>3. CASE SleepOrTimeOut
  BY <1>1, <1>3, SleepPaces DEF Asks, Works
<1>4. CASE Fail
  BY <1>1, <1>4, FailPaces DEF Asks, Works
<1> QED BY <1>2, <1>3, <1>4 DEF Poll

\* The wait for a guest that runs.
LEMMA ReadyKeeps == ASSUME GuestInv, WaitInstanceUntilReady PROVE GuestInv'
<1>1. PICK running \in BOOLEAN : Poll(guest.provisioned /\ ~Reloading /\ running, Fail)
  BY DEF WaitInstanceUntilReady
<1>2. Active /\ step \in {"ready", "readyRest"}
  BY DEF WaitInstanceUntilReady, Active, Ended
<1>3. /\ Asks
      /\ \/ ~Reloading /\ step' = StepAfter
         \/ step' \in {step, "failed"}
  BY <1>1, <1>2, PollAsks DEF GuestInv, Kinds, GuestRecord, Reloading
<1>4. Kinds' /\ Stage' /\ Orders' /\ Counted'
  BY <1>3, AsksKeeps
<1>5. Cancelled'
  BY <1>2, <1>3, OtherCalls DEF GuestInv, Asks
<1>6. Undisturbed'
  <2>1. CASE asked.op # "reload"
    BY <1>3, <2>1, UndisturbedRests DEF GuestInv, Asks
  <2>2. CASE asked.op = "reload" /\ step = "readyRest"
    <3>1. StepAfter = "edit"
      BY <1>2, <2>2, LaterSteps DEF GuestInv
    <3>2. asked' = asked /\ call' = call
      BY <1>3, StageGoesOn DEF GuestInv, Asks
    <3> QED BY <1>2, <1>3, <2>2, <3>1, <3>2 DEF GuestInv, Asks, Works, Undisturbed, Calm, Asked, Reloads,
          Reloaded, Reloading, Ended, Active
  <2>3. CASE asked.op = "reload" /\ step = "ready"
    <3>1. StepAfter = "finished"
      BY <1>2, <2>3, LaterSteps DEF GuestInv
    <3>2. asked' = asked /\ call' = call
      BY <1>3, StageGoesOn DEF GuestInv, Asks
    <3> QED BY <1>2, <1>3, <2>3, <3>1, <3>2 DEF GuestInv, Asks, Works, Undisturbed, Calm, Reloaded
  <2> QED BY <1>2, <2>1, <2>2, <2>3
<1> QED BY <1>4, <1>5, <1>6 DEF GuestInv

\* The first half of that wait, and the ticket.
LEMMA ReadyHalfKeeps == ASSUME GuestInv, WaitInstanceUntilReadyWithTicket PROVE GuestInv'
<1>1. Active /\ step = "readyHalf"
  BY DEF WaitInstanceUntilReadyWithTicket, Active, Ended
<1>2. Asks /\ step' \in {step, StepAfter, "failed"}
  <2>1. PICK running \in BOOLEAN :
           \/ Advance /\ UNCHANGED <<cloud, order, idless, alone>>
           \/ Poll(guest.provisioned /\ ~Reloading /\ running, Fail)
    BY DEF WaitInstanceUntilReadyWithTicket
  <2>2. CASE Advance /\ UNCHANGED <<cloud, order, idless, alone>>
    BY <1>1, <2>2, AdvancePaces DEF GuestInv, Asks, Works, cloud
  <2>3. CASE Poll(guest.provisioned /\ ~Reloading /\ running, Fail)
    BY <1>1, <2>3, PollAsks DEF GuestInv, Kinds, GuestRecord, Reloading
  <2> QED BY <2>1, <2>2, <2>3
<1>3. Kinds' /\ Stage' /\ Orders' /\ Counted'
  BY <1>2, AsksKeeps
<1>4. Cancelled'
  BY <1>1, <1>2, OtherCalls DEF GuestInv, Asks
<1>5. Undisturbed'
  BY <1>1, <1>2, LaterSteps, StageGoesOn DEF GuestInv, Asks, Works, Undisturbed, Calm, Asked, Reloads,
    Reloaded, Ended, Active
<1> QED BY <1>3, <1>4, <1>5 DEF GuestInv

\* The wait for the reload to show up.
LEMMA BegunKeeps == ASSUME GuestInv, WaitInstanceHasActiveTransaction PROVE GuestInv'
<1>1. Active /\ step = "begun"
  BY DEF WaitInstanceHasActiveTransaction, Active, Ended
<1>2. /\ Asks
      /\ \/ guest.active # None /\ step' = StepAfter
         \/ step' \in {step, "failed"}
  BY <1>1, PollAsks DEF WaitInstanceHasActiveTransaction, GuestInv
<1>3. Kinds' /\ Stage' /\ Orders' /\ Counted'
  BY <1>2, AsksKeeps
<1>4. Cancelled'
  BY <1>1, <1>2, OtherCalls DEF GuestInv, Asks
<1>5. Undisturbed'
  BY <1>1, <1>2, LaterSteps, StageGoesOn DEF GuestInv, Asks, Works, Undisturbed, Calm, Asked, Reloads,
    Reloaded, Ended, Active
<1> QED BY <1>3, <1>4, <1>5 DEF GuestInv

\* The wait for a guest without transactions.
LEMMA IdleKeeps == ASSUME GuestInv, WaitInstanceHasNoneActiveTransaction PROVE GuestInv'
<1>1. Active /\ step \in {"idle", "idleAfter"}
  BY DEF WaitInstanceHasNoneActiveTransaction, Active, Ended
<1>2. Asks /\ step' \in {step, StepAfter, "failed"}
  <2>1. CASE Fail /\ UNCHANGED <<cloud, order, idless, alone>>
    BY <1>1, <2>1, FailPaces DEF GuestInv, Asks, Works, cloud
  <2>2. CASE Poll(guest.active = None, Fail)
    BY <1>1, <2>2, PollAsks DEF GuestInv
  <2> QED BY <2>1, <2>2 DEF WaitInstanceHasNoneActiveTransaction
<1>3. Kinds' /\ Stage' /\ Orders' /\ Counted'
  BY <1>2, AsksKeeps
<1>4. Cancelled'
  BY <1>1, <1>2, OtherCalls DEF GuestInv, Asks
<1>5. Undisturbed'
  BY <1>1, <1>2, LaterSteps, StageGoesOn DEF GuestInv, Asks, Works, Undisturbed, Calm, Ended, Active
<1> QED BY <1>3, <1>4, <1>5 DEF GuestInv

\* The wait of CancelInstance.
LEMMA WaitToCancelKeeps == ASSUME GuestInv, WaitToCancel PROVE GuestInv'
<1>1. Active /\ step = "idleToCancel"
  BY DEF WaitToCancel, Active, Ended
<1>2. /\ Asks /\ (asked.op = "cancel" => StepAfter = "delete")
      /\ \/ step' = "finished" /\ (~guest.exists \/ guest.active = "RECLAIM_WAIT")
         \/ step' \in {StepAfter, step, "failed"}
  <2>1. UNCHANGED <<guest, volume, orders, plan, order, idless, alone>>
    BY DEF WaitToCancel, Poll, cloud
  <2>2. CASE Goto("finished") /\ UNCHANGED reloadLeft /\ (~guest.exists \/ guest.active = "RECLAIM_WAIT")
    BY <1>1, <2>1, <2>2, FinishPaces, LaterSteps DEF GuestInv, Asks, Works
  <2>3. CASE Goto("failed") /\ UNCHANGED reloadLeft
    BY <1>1, <2>1, <2>3, FailPaces, LaterSteps DEF GuestInv, Asks, Works, Fail
  <2>4. CASE Advance
    BY <1>1, <2>1, <2>4, AdvancePaces, LaterSteps DEF GuestInv, Asks, Works
  <2>5. CASE SleepOrTimeOut
    BY <1>1, <2>1, <2>5, SleepPaces, LaterSteps DEF GuestInv, Asks, Works
  <2>6. CASE Fail
    BY <1>1, <2>1, <2>6, FailPaces, LaterSteps DEF GuestInv, Asks, Works
  <2> QED BY <2>2, <2>3, <2>4, <2>5, <2>6 DEF WaitToCancel, Poll
<1>3. Kinds' /\ Stage' /\ Orders' /\ Counted'
  BY <1>2, AsksKeeps
<1>4. Undisturbed'
  BY <1>1, <1>2, OtherCalls DEF GuestInv, Asks
<1>5. Cancelled'
  BY <1>1, <1>2, StageGoesOn DEF GuestInv, Asks, Cancelled, CancelledIsGoing, Finished
<1> QED BY <1>3, <1>4, <1>5 DEF GuestInv

\* The other steps that only ask.
LEMMA OtherAsksKeep ==
  ASSUME GuestInv, WaitOrderCompleted \/ WaitVolumeProvisioning \/ CreateSnapshot \/ ReadAllowedGuests
  PROVE  GuestInv'
<1>1. Active /\ step \in {"completed", "awaitVolume", "snapshot", "readAllowed"}
  BY DEF WaitOrderCompleted, WaitVolumeProvisioning, CreateSnapshot, ReadAllowedGuests, Active, Ended
<1>2. UNCHANGED <<guest, volume, orders, plan, order, idless, alone>>
  BY DEF WaitOrderCompleted, WaitVolumeProvisioning, CreateSnapshot, ReadAllowedGuests, cloud
<1>3. Advance \/ SleepOrTimeOut \/ Fail \/ (Goto("finished") /\ UNCHANGED reloadLeft)
  BY DEF WaitOrderCompleted, WaitVolumeProvisioning, CreateSnapshot, ReadAllowedGuests
<1>4. Asks
  BY <1>1, <1>2, <1>3, AdvancePaces, SleepPaces, FailPaces, FinishPaces DEF GuestInv, Asks, Works
<1>5. Kinds' /\ Stage' /\ Orders' /\ Counted'
  BY <1>4, AsksKeeps
<1>6. Cancelled' /\ Undisturbed'
  BY <1>1, <1>4, OtherCalls DEF GuestInv, Asks
<1> QED BY <1>5, <1>6 DEF GuestInv

\* A request that changes a guest or a volume, and places no order.
Changes == Works /\ UNCHANGED <<orders, order, idless>>

LEMMA ChangesKeeps ==
  ASSUME GuestInv, Changes, guest' \in GuestRecord, volume' \in [busy : BOOLEAN, allowed : BOOLEAN]
  PROVE  Kinds' /\ Stage' /\ Orders' /\ Counted'
<1>1. Works /\ UNCHANGED <<orders, order, idless>>
  BY DEF Changes
<1>2. order' \in 0..Len(orders') /\ idless' \in 0..PlaceAttempts
  BY <1>1 DEF GuestInv, Kinds
<1>3. Kinds'
  BY <1>1, <1>2, KindsGoOn DEF GuestInv
<1> QED BY <1>1, <1>3, StageGoesOn, OrdersRest DEF GuestInv

\* A guest is made.
LEMMA CreateObjectKeeps == ASSUME GuestInv, CreateObject PROVE GuestInv'
<1>1. Active /\ step = "createObject"
  BY DEF CreateObject, Active, Ended
<1>2. asked.image \in Picture
  BY <1>1, WhoseStep DEF GuestInv
<1>3. guest' \in GuestRecord /\ volume' \in [busy : BOOLEAN, allowed : BOOLEAN]
  BY <1>2, ZenonT(60) DEF CreateObject, GuestInv, Kinds, GuestRecord
<1>4. Advance \/ Fail
  BY DEF CreateObject
<1>5. Changes
  BY <1>1, <1>4, AdvancePaces, FailPaces DEF GuestInv, Changes, Works, CreateObject
<1>6. Kinds' /\ Stage' /\ Orders' /\ Counted'
  BY <1>3, <1>5, ChangesKeeps
<1>7. Cancelled' /\ Undisturbed'
  BY <1>1, <1>5, OtherCalls DEF GuestInv, Changes
<1> QED BY <1>6, <1>7 DEF GuestInv

\* The user data is set.
LEMMA SetUserDataKeeps == ASSUME GuestInv, SetUserData PROVE GuestInv'
<1>1. Active /\ step = "userData"
  BY DEF SetUserData, Active, Ended
<1>2. call \in 0..Len(plan)
  BY DEF GuestInv, Kinds
<1>3. guest' \in GuestRecord /\ volume' \in [busy : BOOLEAN, allowed : BOOLEAN]
  BY <1>2 DEF SetUserData, GuestInv, Kinds, GuestRecord
<1>4. \/ guest' = [guest EXCEPT !.data = call] /\ Advance
      \/ guest' = guest /\ (SleepOrTimeOut \/ Fail)
  BY DEF SetUserData
<1>5. UNCHANGED <<orders, plan, order, idless, alone>>
  BY DEF SetUserData
<1>6. /\ Changes
      /\ \/ guest' = [guest EXCEPT !.data = call] /\ step' = StepAfter
         \/ guest' = guest /\ step' \in {step, "failed"}
  BY <1>1, <1>4, <1>5, AdvancePaces, SleepPaces, FailPaces DEF GuestInv, Changes, Works
<1>7. Kinds' /\ Stage' /\ Orders' /\ Counted'
  BY <1>3, <1>6, ChangesKeeps
<1>8. Cancelled'
  BY <1>1, <1>6, OtherCalls DEF GuestInv, Changes
<1>9. Undisturbed'
  <2>1. CASE asked.op # "reload"
    BY <1>6, <2>1, UndisturbedRests DEF GuestInv, Changes
  <2>2. CASE asked.op = "reload"
    <3>1. StepAfter = "idle"
      BY <1>1, <2>2, LaterSteps DEF GuestInv
    <3>2. asked' = asked /\ call' = call
      BY <1>6, StageGoesOn DEF GuestInv, Changes
    <3>3. /\ guest'.active = guest.active /\ guest'.pending = guest.pending
          /\ guest' = [guest EXCEPT !.data = call] => guest'.data = call
      BY <1>6 DEF GuestInv, Kinds, GuestRecord
    <3> QED BY <1>1, <1>6, <3>1, <3>2, <3>3, <2>2 DEF GuestInv, Changes, Works, Undisturbed, Calm,
          Ended, Active
  <2> QED BY <2>1, <2>2
<1> QED BY <1>7, <1>8, <1>9 DEF GuestInv

\* The reload is asked for.
LEMMA ReloadOSKeeps == ASSUME GuestInv, ReloadOS PROVE GuestInv'
<1>1. Active /\ step = "reloadOS"
  BY DEF ReloadOS, Active, Ended
<1>2. asked.image \in Picture /\ asked.op = "reload"
  BY <1>1, WhoseStep DEF GuestInv
<1>3. guest' \in GuestRecord /\ volume' \in [busy : BOOLEAN, allowed : BOOLEAN]
  BY <1>2 DEF ReloadOS, GuestInv, Kinds, GuestRecord
<1>4. \/ guest' = [guest EXCEPT !.pending = asked.image] /\ (Advance \/ Fail)
      \/ guest' = guest /\ (SleepOrTimeOut \/ Fail)
  BY DEF ReloadOS
<1>5. UNCHANGED <<orders, plan, order, idless, alone>>
  BY DEF ReloadOS
<1>6. /\ Changes
      /\ \/ guest' = [guest EXCEPT !.pending = asked.image] /\ step' = StepAfter
         \/ guest' = guest /\ step' = step
         \/ step' = "failed"
  BY <1>1, <1>4, <1>5, AdvancePaces, SleepPaces, FailPaces DEF GuestInv, Changes, Works
<1>7. Kinds' /\ Stage' /\ Orders' /\ Counted'
  BY <1>3, <1>6, ChangesKeeps
<1>8. Cancelled'
  BY <1>1, <1>6, OtherCalls DEF GuestInv, Changes
<1>9. Undisturbed'
  <2>1. StepAfter = "begun"
    BY <1>1, <1>2, LaterSteps DEF GuestInv
  <2>2. asked' = asked /\ call' = call
    BY <1>6, StageGoesOn DEF GuestInv, Changes
  <2>3. guest' = [guest EXCEPT !.pending = asked.image] =>
          /\ guest'.active = guest.active /\ guest'.pending = asked.image
          /\ guest'.data = guest.data
    BY DEF GuestInv, Kinds, GuestRecord
  <2> QED BY <1>1, <1>2, <1>6, <2>1, <2>2, <2>3 DEF GuestInv, Changes, Works, Undisturbed, Calm,
        Asked, Ended, Active
<1> QED BY <1>7, <1>8, <1>9 DEF GuestInv

\* The guest gets its name.
LEMMA EditObjectKeeps == ASSUME GuestInv, EditObject PROVE GuestInv'
<1>1. Active /\ step = "edit"
  BY DEF EditObject, Active, Ended
<1>2. call \in 0..Len(plan)
  BY DEF GuestInv, Kinds
<1>3. guest' \in GuestRecord /\ volume' \in [busy : BOOLEAN, allowed : BOOLEAN]
  BY <1>2 DEF EditObject, GuestInv, Kinds, GuestRecord
<1>4. \/ guest' = [guest EXCEPT !.host = call] /\ Advance /\ UNCHANGED alone
      \/ Advance /\ alone' = FALSE
      \/ Fail /\ UNCHANGED alone
  BY DEF EditObject, Disturb
<1>5. UNCHANGED <<orders, plan, order, idless>>
  BY DEF EditObject
<1>6. /\ Changes
      /\ \/ guest' = [guest EXCEPT !.host = call] /\ step' = StepAfter
         \/ step' = StepAfter /\ alone' = FALSE
         \/ step' = "failed"
  BY <1>1, <1>4, <1>5, AdvancePaces, FailPaces DEF GuestInv, Changes, Works
<1>7. Kinds' /\ Stage' /\ Orders' /\ Counted'
  BY <1>3, <1>6, ChangesKeeps
<1>8. Cancelled'
  BY <1>1, <1>6, OtherCalls DEF GuestInv, Changes
<1>9. Undisturbed'
  <2>1. CASE asked.op # "reload"
    BY <1>6, <2>1, UndisturbedRests DEF GuestInv, Changes
  <2>2. CASE asked.op = "reload"
    <3>1. StepAfter = "ready"
      BY <1>1, <2>2, LaterSteps DEF GuestInv
    <3>2. asked' = asked /\ call' = call
      BY <1>6, StageGoesOn DEF GuestInv, Changes
    <3>3. guest' = [guest EXCEPT !.host = call] =>
            /\ guest'.active = guest.active /\ guest'.pending = guest.pending
            /\ guest'.image = guest.image /\ guest'.data = guest.data /\ guest'.host = call
      BY DEF GuestInv, Kinds, GuestRecord
    <3> QED BY <1>1, <1>6, <3>1, <3>2, <3>3, <2>2 DEF GuestInv, Changes, Works, Undisturbed, Calm,
          Reloaded, Ended, Active
  <2> QED BY <2>1, <2>2
<1> QED BY <1>7, <1>8, <1>9 DEF GuestInv

\* The guest is cancelled.
LEMMA DeleteObjectKeeps == ASSUME GuestInv, DeleteObject PROVE GuestInv'
<1>1. Active /\ step = "delete"
  BY DEF DeleteObject, Active, Ended
<1>2. guest' \in GuestRecord /\ volume' \in [busy : BOOLEAN, allowed : BOOLEAN]
  BY DEF DeleteObject, GuestInv, Kinds, GuestRecord
<1>3. (guest' = [guest EXCEPT !.active = "RECLAIM_WAIT"] /\ Advance) \/ Fail
  BY DEF DeleteObject
<1>4. UNCHANGED <<orders, plan, order, idless, alone>>
  BY DEF DeleteObject
<1>5. /\ Changes
      /\ guest' = [guest EXCEPT !.active = "RECLAIM_WAIT"] \/ step' = "failed"
  BY <1>1, <1>3, <1>4, AdvancePaces, FailPaces DEF GuestInv, Changes, Works
<1>6. Kinds' /\ Stage' /\ Orders' /\ Counted'
  BY <1>2, <1>5, ChangesKeeps
<1>7. Undisturbed'
  BY <1>1, <1>5, OtherCalls DEF GuestInv, Changes
<1>8. Cancelled'
  <2>1. guest' = [guest EXCEPT !.active = "RECLAIM_WAIT"] => guest'.active = "RECLAIM_WAIT"
    BY DEF GuestInv, Kinds, GuestRecord
  <2> QED BY <1>5, <2>1 DEF Cancelled, CancelledIsGoing, Finished
<1> QED BY <1>6, <1>7, <1>8 DEF GuestInv

\* A host is authorized, or no longer.
LEMMA SetAccessKeeps ==
  ASSUME GuestInv, AuthorizeHost \/ DeauthorizeHost PROVE GuestInv'
<1>1. Active /\ step \in {"authorize", "deauthorize"}
  BY DEF AuthorizeHost, DeauthorizeHost, Active, Ended
<1>2. guest' \in GuestRecord /\ volume' \in [busy : BOOLEAN, allowed : BOOLEAN]
  BY DEF AuthorizeHost, DeauthorizeHost, SetAccess, GuestInv, Kinds
<1>3. Advance \/ Fail \/ SleepOrTimeOut
  BY DEF AuthorizeHost, DeauthorizeHost, SetAccess
<1>4. UNCHANGED <<orders, plan, order, idless, alone>>
  BY DEF AuthorizeHost, DeauthorizeHost, SetAccess
<1>5. Changes
  BY <1>1, <1>3, <1>4, AdvancePaces, SleepPaces, FailPaces DEF GuestInv, Changes, Works
<1>6. Kinds' /\ Stage' /\ Orders' /\ Counted'
  BY <1>2, <1>5, ChangesKeeps
<1>7. Cancelled' /\ Undisturbed'
  BY <1>1, <1>5, OtherCalls DEF GuestInv, Changes
<1> QED BY <1>6, <1>7 DEF GuestInv

-----------------------------------------------------------------------------
(* The orders.                                                             *)

\* An order that is taken comes after the others.
LEMMA OrderAdded ==
  ASSUME GuestInv, NEW prices, orders' = Taken(prices)
  PROVE  /\ Len(orders) \in Nat /\ Len(orders') = Len(orders) + 1
         /\ DOMAIN orders = 1..Len(orders) /\ DOMAIN orders' = 1..(Len(orders) + 1)
         /\ orders' = [i \in 1..Len(orders') |-> orders'[i]]
         /\ \A i \in 1..Len(orders) : orders'[i] = orders[i]
         /\ orders'[Len(orders) + 1] =
              [by |-> call, prices |-> prices, status |-> "open", work |-> "waiting",
               gone |-> ~guest.exists]
<1> DEFINE new == [by |-> call, prices |-> prices, status |-> "open", work |-> "waiting",
               gone |-> ~guest.exists]
           S   == {orders[i] : i \in 1..Len(orders)} \cup {new}
<1>1. Len(orders) \in Nat /\ orders \in [1..Len(orders) -> S]
  BY DEF GuestInv, Orders
<1>2. orders \in Seq(S)
  BY <1>1, SeqDef
<1>3. new \in S
  OBVIOUS
<1>4. /\ orders' \in Seq(S) /\ Len(orders') = Len(orders) + 1
      /\ \A i \in 1..Len(orders) : orders'[i] = orders[i]
      /\ orders'[Len(orders) + 1] = new
  <2>1. orders' = Append(orders, new)
    BY DEF Taken
  <2> HIDE DEF new, S
  <2> QED BY <1>2, <1>3, <2>1, AppendProperties
<1>5. DOMAIN orders = 1..Len(orders) /\ DOMAIN orders' = 1..(Len(orders) + 1)
  BY <1>1, <1>2, <1>4, ElementOfSeq, LenProperties
<1>6. orders' = [i \in 1..Len(orders') |-> orders'[i]]
  BY <1>4, LenProperties
<1> QED BY <1>1, <1>4, <1>5, <1>6

\* One more order, the call's own.
LEMMA OneMore ==
  ASSUME GuestInv, Active, NEW prices, orders' = Taken(prices), call' = call
  PROVE  /\ Orders' /\ Len(orders') = Len(orders) + 1 /\ Len(orders) \in Nat
         /\ Cardinality(Mine) \in Nat /\ Cardinality(Mine') = Cardinality(Mine) + 1
<1> DEFINE new == [by |-> call, prices |-> prices, status |-> "open", work |-> "waiting",
               gone |-> ~guest.exists]
<1>1. Len(orders) \in Nat
  BY OrderAdded
<1>2. /\ Len(orders') = Len(orders) + 1
      /\ \A i \in 1..Len(orders) : orders'[i] = orders[i]
      /\ orders'[Len(orders) + 1] = new
  BY OrderAdded
<1>3. DOMAIN orders = 1..Len(orders) /\ DOMAIN orders' = 1..(Len(orders) + 1)
  BY OrderAdded
<1>4. call \in 1..call
  BY AskedOp DEF GuestInv
<1>5. Orders'
  <2>1. Len(orders') \in Nat
    BY <1>1, <1>2
  <2>2. orders' \in [1..Len(orders') -> {orders'[i] : i \in 1..Len(orders')}]
    <3>1. orders' = [i \in 1..Len(orders') |-> orders'[i]]
      BY OrderAdded
    <3> QED BY <3>1
  <2>3. \A i \in 1..Len(orders') : IsOrder(orders[i])'
    <3> SUFFICES ASSUME NEW i \in 1..Len(orders') PROVE IsOrder(orders[i])'
      OBVIOUS
    <3>1. CASE i = Len(orders) + 1
      BY <1>2, <1>4, <3>1 DEF IsOrder
    <3>2. CASE i \in 1..Len(orders)
      BY <1>2, <3>2 DEF IsOrder, GuestInv, Orders
    <3> QED BY <1>1, <1>2, <3>1, <3>2
  <2> QED BY <2>1, <2>2, <2>3 DEF Orders
<1>6. Mine' = Mine \cup {Len(orders) + 1} /\ Len(orders) + 1 \notin Mine
  BY <1>1, <1>2, <1>3 DEF Mine
<1>7. IsFiniteSet(Mine)
  <2>1. Mine \subseteq 1..Len(orders)
    BY <1>3 DEF Mine
  <2>2. 1 \in Int /\ Len(orders) \in Int
    BY <1>1
  <2>3. IsFiniteSet(1..Len(orders))
    BY <2>2, FS_Interval
  <2> QED BY <2>1, <2>3, FS_Subset
<1>8. Cardinality(Mine) \in Nat /\ Cardinality(Mine') = Cardinality(Mine) + 1
  BY <1>6, <1>7, FS_CardinalityType, FS_AddElement
<1> QED BY <1>1, <1>2, <1>5, <1>8

\* An order that was placed is the one too many that a call may have.
LEMMA CountOneMore ==
  ASSUME GuestInv, step \in Early, Cardinality(Mine) \in Nat,
         Cardinality(Mine') = Cardinality(Mine) + 1, idless' = idless \/ idless' = idless + 1,
         step' \in Early => idless' = idless + 1 /\ idless' # PlaceAttempts
  PROVE  Counted'
<1>1. Cardinality(Mine) <= idless /\ idless < PlaceAttempts /\ idless \in Nat /\ PlaceAttempts \in Nat
  BY TransactionAssumption DEF GuestInv, Counted, Kinds
<1> QED BY <1>1 DEF Counted

\* A receipt without an order id, and no order.
LEMMA CountNoMore ==
  ASSUME GuestInv, step \in Early, Cardinality(Mine) \in Nat, Mine' = Mine,
         idless' = idless \/ idless' = idless + 1,
         step' \in Early => idless' # PlaceAttempts
  PROVE  Counted'
<1>1. Cardinality(Mine) <= idless /\ idless < PlaceAttempts /\ idless \in Nat /\ PlaceAttempts \in Nat
  BY TransactionAssumption DEF GuestInv, Counted, Kinds
<1> QED BY <1>1 DEF Counted

\* How many orders a call has is a number.
LEMMA MineIsFinite == ASSUME GuestInv PROVE Cardinality(Mine) \in Nat
<1>1. Len(orders) \in Nat /\ DOMAIN orders = 1..Len(orders)
  BY DEF GuestInv, Orders
<1>2. 1 \in Int /\ Len(orders) \in Int
  BY <1>1
<1>3. IsFiniteSet(1..Len(orders))
  BY <1>2, FS_Interval
<1>4. Mine \subseteq 1..Len(orders)
  BY <1>1 DEF Mine
<1> QED BY <1>3, <1>4, FS_Subset, FS_CardinalityType

\* What placing an order comes to: an order and its id; an order and none,
\* and the call is over; nothing, and the call goes on without or is over; or
\* a receipt without an order id, after which the call stays or is over.
Placed(prices) ==
    \/ orders' = Taken(prices) /\ idless' = idless /\ order' = Len(orders') /\ step' = StepAfter
    \/ orders' = Taken(prices) /\ idless' = idless /\ order' = order /\ step' = "failed"
    \/ UNCHANGED <<orders, order, idless>> /\ step' \in {StepAfter, "failed"}
    \/ /\ orders' = orders \/ orders' = Taken(prices)
       /\ idless' = idless + 1 /\ order' = order
       /\ step' = IF idless' = PlaceAttempts THEN "failed" ELSE step

LEMMA PlacedKeeps ==
  ASSUME GuestInv, Works, step \in {"upgrade", "placeVolume"}, UNCHANGED <<guest, volume>>,
         NEW prices, Placed(prices)
  PROVE  GuestInv'
<1>1. call' = call /\ Active
  BY DEF Works, Paces
<1>2. Len(orders) \in Nat /\ Cardinality(Mine) \in Nat
  BY MineIsFinite DEF GuestInv, Orders
<1>3. StepAfter \notin Early /\ step \in Early
  BY <1>1, LaterSteps DEF GuestInv, Early
<1>4. idless \in Nat /\ PlaceAttempts \in Nat /\ idless < PlaceAttempts /\ order \in 0..Len(orders)
  BY <1>3, TransactionAssumption DEF GuestInv, Kinds, Counted
<1>5. orders' = Taken(prices) =>
        /\ Orders' /\ Len(orders') = Len(orders) + 1 /\ Cardinality(Mine') = Cardinality(Mine) + 1
  BY <1>1, OneMore
<1>6. orders' = orders => Orders' /\ Len(orders') = Len(orders) /\ Mine' = Mine
  BY <1>1 DEF GuestInv, Orders, IsOrder, Mine
<1>7. orders' = orders \/ orders' = Taken(prices)
  BY DEF Placed
<1>8. order' \in 0..Len(orders') /\ idless' \in 0..PlaceAttempts
  BY <1>2, <1>4, <1>5, <1>6 DEF Placed
<1>9. Kinds' /\ Stage'
  <2>1. guest' \in GuestRecord /\ volume' \in [busy : BOOLEAN, allowed : BOOLEAN]
    BY DEF GuestInv, Kinds
  <2> QED BY <1>8, <2>1, KindsGoOn, StageGoesOn DEF GuestInv
<1>10. Counted'
  <2>1. "failed" \notin Early
    BY DEF Early
  <2>2. CASE orders' = Taken(prices) /\ idless' = idless /\ step' \in {StepAfter, "failed"}
    BY <1>2, <1>3, <1>5, <2>1, <2>2, CountOneMore
  <2>3. CASE UNCHANGED <<orders, idless>> /\ step' \in {StepAfter, "failed"}
    BY <1>2, <1>3, <1>6, <2>1, <2>3, CountNoMore
  <2>4. CASE /\ orders' = orders \/ orders' = Taken(prices)
             /\ idless' = idless + 1
             /\ step' = IF idless' = PlaceAttempts THEN "failed" ELSE step
    <3>1. step' \in Early => idless' # PlaceAttempts
      BY <2>1, <2>4
    <3>2. CASE orders' = orders
      BY <1>2, <1>3, <1>6, <2>4, <3>1, <3>2, CountNoMore
    <3>3. CASE orders' = Taken(prices)
      BY <1>2, <1>3, <1>5, <2>4, <3>1, <3>3, CountOneMore
    <3> QED BY <2>4, <3>2, <3>3
  <2> QED BY <2>2, <2>3, <2>4 DEF Placed
<1>11. Cancelled' /\ Undisturbed'
  BY OtherCalls DEF GuestInv
<1> QED BY <1>5, <1>6, <1>7, <1>9, <1>10, <1>11 DEF GuestInv

\* An upgrade is ordered.
LEMMA UpgradeKeeps == ASSUME GuestInv, UpgradeInstance PROVE GuestInv'
<1>1. Active /\ step = "upgrade" /\ UNCHANGED <<guest, volume, plan, alone>>
  BY DEF UpgradeInstance, Active, Ended
<1>2. Kinds
  BY DEF GuestInv
<1>3. PICK prices : \/ PlaceUpgrade(prices)
                    \/ Fail /\ UNCHANGED <<orders, order, idless>>
  BY DEF UpgradeInstance
<1>4. Placed(prices) /\ Paces
  <2>1. CASE Fail /\ UNCHANGED <<orders, order, idless>>
    BY <1>2, <2>1, FailPaces DEF Placed
  <2>2. CASE Advance /\ UNCHANGED <<orders, order, idless>>
    BY <1>2, <2>2, AdvancePaces DEF Placed
  <2>3. CASE orders' = Taken(prices) /\ order' = Len(orders') /\ Advance /\ UNCHANGED idless
    BY <1>2, <2>3, AdvancePaces DEF Placed
  <2>4. CASE orders' = Taken(prices) /\ Fail /\ UNCHANGED order /\ UNCHANGED idless
    BY <1>2, <2>4, FailPaces DEF Placed
  <2>5. CASE /\ idless' = idless + 1 /\ orders' \in {orders, Taken(prices)} /\ UNCHANGED order
             /\ idless' = PlaceAttempts /\ Fail
    BY <1>2, <2>5, FailPaces DEF Placed
  <2>6. CASE /\ idless' = idless + 1 /\ orders' \in {orders, Taken(prices)} /\ UNCHANGED order
             /\ idless' # PlaceAttempts /\ UNCHANGED <<call, step, left, reloadLeft>>
    BY <1>2, <2>6, StayPaces DEF Placed
  <2> QED BY <1>3, <2>1, <2>2, <2>3, <2>4, <2>5, <2>6 DEF PlaceUpgrade
<1> QED BY <1>1, <1>4, PlacedKeeps DEF Works

\* A volume is ordered.
LEMMA PlaceVolumeKeeps == ASSUME GuestInv, PlaceVolumeOrder PROVE GuestInv'
<1>1. Active /\ step = "placeVolume" /\ UNCHANGED <<guest, volume, plan, alone, idless>>
  BY DEF PlaceVolumeOrder, Active, Ended
<1>2. Kinds
  BY DEF GuestInv
<1>3. PICK prices :
        \/ orders' = Taken(prices) /\ order' = Len(orders') /\ Advance
        \/ orders' = Taken(prices) /\ Fail /\ UNCHANGED order
        \/ Fail /\ UNCHANGED <<orders, order>>
  BY DEF PlaceVolumeOrder
<1>4. Placed(prices) /\ Paces
  BY <1>1, <1>2, <1>3, AdvancePaces, FailPaces DEF Placed
<1> QED BY <1>1, <1>4, PlacedKeeps DEF Works

\* The next call begins.
LEMMA BeginKeeps == ASSUME GuestInv, Begin PROVE GuestInv'
<1>1. /\ call' = call + 1 /\ call \in Nat /\ call < Len(plan) /\ Len(plan) \in Nat
      /\ UNCHANGED <<guest, volume, orders, others, catalogue, plan>>
      /\ order' = 0 /\ idless' = 0
  <2>1. Len(plan) \in Nat
    BY TransactionAssumption DEF GuestInv, Kinds
  <2> QED BY <2>1 DEF Begin, cloud, GuestInv, Kinds
<1>2. asked' = plan[call'] /\ asked'.op \in Ops
  <2>1. DOMAIN plan = 1..Len(plan) /\ \A i \in DOMAIN plan : plan[i].op \in Ops
    BY TransactionAssumption DEF GuestInv, Kinds
  <2> QED BY <1>1, <2>1 DEF asked
<1>3. step' = Program(asked'.op)[1] /\ left' = IF step' \in DOMAIN Polls THEN Polls[step'] ELSE 0
  BY <1>2 DEF Begin
<1>4. 1 \in DOMAIN Program(asked'.op) /\ step' \notin Ended
  <2>1. 1 \in DOMAIN Program(asked'.op)
    BY <1>2 DEF Program, Ops
  <2> QED BY <1>2, <1>3, <2>1, ProgramSteps
<1>5. Kinds'
  <2>1. left' \in Sleeps /\ reloadLeft' \in Sleeps
    BY <1>3, TransactionAssumption DEF Begin, Sleeps
  <2>2. GuestRecord' = GuestRecord /\ Sleeps' = Sleeps
    BY <1>1 DEF GuestRecord, Picture, Imaged, Sleeps
  <2>3. alone' \in BOOLEAN
    BY DEF Begin
  <2>4. Len(orders) \in Nat
    BY DEF GuestInv, Orders
  <2> QED BY <1>1, <2>1, <2>2, <2>3, <2>4, TransactionAssumption DEF GuestInv, Kinds
<1>6. Stage'
  BY <1>1, <1>2, <1>3, <1>4 DEF Stage
<1>7. Orders'
  BY <1>1, SMTT(30) DEF GuestInv, Orders, IsOrder
<1>8. Counted'
  <2>1. Mine' = {}
    BY <1>1 DEF GuestInv, Orders, IsOrder, Mine
  <2>2. Cardinality(Mine') = 0
    BY <2>1, FS_EmptySet
  <2> QED BY <1>1, <2>2, TransactionAssumption DEF Counted
<1>9. Cancelled'
  BY <1>4 DEF Cancelled, CancelledIsGoing, Finished, Ended
<1>10. Undisturbed'
  <2>1. asked'.op = "reload" => step' = "userData"
    BY <1>3 DEF Program
  <2>2. alone' => Calm' /\ \A i \in DOMAIN orders' : orders'[i].work = "done"
    BY <1>1 DEF Begin, Calm
  <2> QED BY <2>1, <2>2 DEF Undisturbed
<1> QED BY <1>5, <1>6, <1>7, <1>8, <1>9, <1>10 DEF GuestInv

\* The process dies.
LEMMA CrashKeeps == ASSUME GuestInv, Crash PROVE GuestInv'
<1>1. /\ step' = "crashed" /\ call' = call /\ left' \in Sleeps /\ Active
      /\ UNCHANGED <<guest, volume, orders, plan, reloadLeft, order, idless, alone>>
  BY GotoPaces DEF Crash, cloud, GuestInv
<1>2. Kinds'
  BY <1>1 DEF GuestInv, Kinds, GuestRecord, Picture, Imaged, Sleeps
<1>3. Stage' /\ Cancelled' /\ Undisturbed'
  BY <1>1 DEF Stage, Active, Ended, Cancelled, CancelledIsGoing, Finished, Undisturbed
<1>4. Orders' /\ Counted'
  <2>1. Orders' /\ Mine' = Mine
    BY <1>1 DEF GuestInv, Orders, IsOrder, Mine
  <2> QED BY <1>1, <2>1 DEF GuestInv, Counted, Early
<1> QED BY <1>2, <1>3, <1>4 DEF GuestInv

-----------------------------------------------------------------------------
(* What SoftLayer does.                                                    *)

\* No call takes a step.
Apart == UNCHANGED <<plan, call, step, left, reloadLeft, order, idless>> /\ alone' \in BOOLEAN

LEMMA ApartKeeps ==
  ASSUME GuestInv, Apart, guest' \in GuestRecord, volume' \in [busy : BOOLEAN, allowed : BOOLEAN],
         orders' = [i \in DOMAIN orders |-> orders'[i]],
         \A i \in DOMAIN orders : IsOrder(orders[i])' /\ orders'[i].by = orders[i].by
  PROVE  Kinds' /\ Stage' /\ Orders' /\ Counted'
<1> DEFINE S == {orders'[i] : i \in 1..Len(orders)}
<1>1. Len(orders) \in Nat /\ DOMAIN orders = 1..Len(orders)
  BY DEF GuestInv, Orders
<1>2. Len(orders') = Len(orders)
  <2>1. orders' \in [1..Len(orders) -> S]
    BY <1>1
  <2>2. orders' \in Seq(S)
    BY <1>1, <2>1, SeqDef
  <2>3. Len(orders') \in Nat /\ DOMAIN orders' = 1..Len(orders')
    BY <2>2, LenProperties
  <2>4. 1..Len(orders') = 1..Len(orders)
    BY <1>1, <2>1, <2>3
  <2> HIDE DEF S
  <2> QED BY <1>1, <2>3, <2>4
<1>3. Kinds'
  <2>1. GuestRecord' = GuestRecord /\ Sleeps' = Sleeps
    BY DEF Apart, GuestRecord, Picture, Imaged, Sleeps
  <2> QED BY <1>2, <2>1 DEF GuestInv, Apart, Kinds
<1>4. Stage'
  BY DEF GuestInv, Apart, Stage, Active, asked
<1>5. Orders'
  BY <1>1, <1>2 DEF Orders
<1>6. Mine' = Mine
  BY <1>1 DEF Apart, Mine
<1>7. Counted'
  BY <1>6 DEF GuestInv, Apart, Counted
<1> QED BY <1>3, <1>4, <1>5, <1>7

\* The same for a step that leaves the orders alone.
LEMMA ApartWithoutOrders ==
  ASSUME GuestInv, Apart, guest' \in GuestRecord, volume' \in [busy : BOOLEAN, allowed : BOOLEAN],
         UNCHANGED orders
  PROVE  Kinds' /\ Stage' /\ Orders' /\ Counted'
<1>1. orders' = [i \in DOMAIN orders |-> orders'[i]]
  BY DEF GuestInv, Orders
<1>2. \A i \in DOMAIN orders : IsOrder(orders[i])' /\ orders'[i].by = orders[i].by
  BY DEF GuestInv, Orders, IsOrder, Apart
<1> QED BY <1>1, <1>2, ApartKeeps

\* A reload begins.
LEMMA BeginReloadKeeps == ASSUME GuestInv, BeginReload PROVE GuestInv'
<1>1. PICK shown \in BOOLEAN : guest' = [guest EXCEPT !.active = "reload", !.shown = shown]
                               /\ alone' = (shown /\ alone)
  BY DEF BeginReload, Disturb, GuestInv, Kinds
<1>2. Apart /\ UNCHANGED <<orders, volume>>
  BY <1>1 DEF BeginReload, quiet, process, Apart, GuestInv, Kinds
<1>3. /\ guest' \in GuestRecord
      /\ guest'.active = "reload" /\ guest'.shown = shown /\ guest'.exists
      /\ guest'.pending = guest.pending /\ guest'.data = guest.data
      /\ guest.active = None /\ guest.pending # None /\ guest.exists
  BY <1>1 DEF BeginReload, GuestInv, Kinds, GuestRecord
<1>4. Kinds' /\ Stage' /\ Orders' /\ Counted'
  BY <1>2, <1>3, ApartWithoutOrders DEF GuestInv, Kinds
<1>5. Cancelled'
  <2>1. Finished("cancel")' => Finished("cancel")
    BY <1>2 DEF Apart, Finished, asked
  <2>2. ~Finished("cancel")
    BY <1>3, TransactionAssumption DEF GuestInv, Cancelled, CancelledIsGoing
  <2> QED BY <2>1, <2>2 DEF Cancelled, CancelledIsGoing
<1>6. Undisturbed'
  BY <1>1, <1>2, <1>3 DEF GuestInv, Apart, Undisturbed, Calm, Asked, Reloads, Reloaded, Active, asked
<1> QED BY <1>4, <1>5, <1>6 DEF GuestInv

\* A cancel that has ended stays what it was, unless the guest comes to life.
LEMMA StillCancelled ==
  ASSUME GuestInv, Apart, guest'.exists => guest.exists,
         guest.active = "RECLAIM_WAIT" => guest'.active = "RECLAIM_WAIT" \/ ~guest'.exists,
         guest'.exists \in BOOLEAN, guest.exists \in BOOLEAN
  PROVE  Cancelled'
<1>1. Finished("cancel")' => Finished("cancel")
  BY DEF Apart, Finished, asked
<1>2. Finished("cancel") => ~guest.exists \/ guest.active = "RECLAIM_WAIT"
  BY DEF GuestInv, Cancelled, CancelledIsGoing
<1>3. Finished("cancel") => ~guest'.exists \/ guest'.active = "RECLAIM_WAIT"
  BY <1>2
<1> QED BY <1>1, <1>3 DEF Cancelled, CancelledIsGoing

\* The reload shows up at last.
LEMMA ShowReloadKeeps == ASSUME GuestInv, ShowReload PROVE GuestInv'
<1>1. Apart /\ UNCHANGED <<orders, volume, alone>>
  BY DEF ShowReload, quiet, process, Apart, GuestInv, Kinds
<1>2. /\ guest' \in GuestRecord
      /\ guest'.active = "reload" /\ guest.active = "reload" /\ ~guest.shown
      /\ guest'.exists = guest.exists /\ guest.exists \in BOOLEAN
  BY DEF ShowReload, GuestInv, Kinds, GuestRecord
<1>3. Kinds' /\ Stage' /\ Orders' /\ Counted'
  BY <1>1, <1>2, ApartWithoutOrders DEF GuestInv, Kinds
<1>4. Cancelled'
  BY <1>1, <1>2, StillCancelled
<1>5. Undisturbed'
  <2>1. None # "reload"
    BY TransactionAssumption
  <2>2. ~(Calm \/ Asked \/ Reloads \/ Reloaded)
    BY <1>2, <2>1 DEF Calm, Asked, Reloads, Reloaded
  <2>3. call # 0 /\ asked.op = "reload" /\ alone => ~Active /\ step # "finished"
    BY <2>2, LaterSteps DEF GuestInv, Undisturbed
  <2> QED BY <1>1, <2>3 DEF Apart, Undisturbed, Active, asked
<1> QED BY <1>3, <1>4, <1>5 DEF GuestInv

\* An upgrade begins.
LEMMA BeginUpgradeKeeps == ASSUME GuestInv, BeginUpgrade PROVE GuestInv'
<1>1. Apart /\ UNCHANGED <<orders, volume, alone>>
  BY DEF BeginUpgrade, quiet, process, Apart, GuestInv, Kinds
<1>2. /\ guest' \in GuestRecord /\ guest.active = None
      /\ guest'.exists = guest.exists /\ guest.exists \in BOOLEAN
  BY DEF BeginUpgrade, GuestInv, Kinds, GuestRecord
<1>3. Kinds' /\ Stage' /\ Orders' /\ Counted'
  BY <1>1, <1>2, ApartWithoutOrders DEF GuestInv, Kinds
<1>4. Cancelled'
  BY <1>1, <1>2, StillCancelled, TransactionAssumption
<1>5. Undisturbed'
  <2>1. \E i \in DOMAIN orders : orders[i].work # "done"
    BY DEF BeginUpgrade, Waiting
  <2> QED BY <1>1, <2>1 DEF GuestInv, Apart, Undisturbed, Active, asked
<1> QED BY <1>3, <1>4, <1>5 DEF GuestInv

\* SoftLayer begins something of its own.
LEMMA BeginOtherKeeps == ASSUME GuestInv, BeginOther PROVE GuestInv'
<1>1. Apart /\ UNCHANGED <<orders, volume>> /\ ~alone'
  BY DEF BeginOther, Disturb, quiet, process, Apart
<1>2. /\ guest' \in GuestRecord /\ guest.active = None
      /\ guest'.exists = guest.exists /\ guest.exists \in BOOLEAN
  BY DEF BeginOther, GuestInv, Kinds, GuestRecord
<1>3. Kinds' /\ Stage' /\ Orders' /\ Counted'
  BY <1>1, <1>2, ApartWithoutOrders DEF GuestInv, Kinds
<1>4. Cancelled'
  BY <1>1, <1>2, StillCancelled, TransactionAssumption
<1>5. Undisturbed'
  BY <1>1 DEF Undisturbed
<1> QED BY <1>3, <1>4, <1>5 DEF GuestInv

\* The guest is taken away.
LEMMA VanishKeeps == ASSUME GuestInv, Vanish PROVE GuestInv'
<1>1. Apart /\ UNCHANGED <<orders, volume>> /\ ~alone'
  BY DEF Vanish, Disturb, quiet, process, Apart
<1>2. guest' \in GuestRecord /\ ~guest'.exists
  <2>1. None \in Picture
    BY DEF Picture
  <2> QED BY <2>1 DEF Vanish, GuestInv, Kinds, GuestRecord
<1>3. Kinds' /\ Stage' /\ Orders' /\ Counted'
  BY <1>1, <1>2, ApartWithoutOrders DEF GuestInv, Kinds
<1>4. Cancelled'
  BY <1>2 DEF Cancelled, CancelledIsGoing
<1>5. Undisturbed'
  BY <1>1 DEF Undisturbed
<1> QED BY <1>3, <1>4, <1>5 DEF GuestInv

\* A transaction ends, and with an upgrade the orders it works on.
LEMMA EndTransactionKeeps == ASSUME GuestInv, EndTransaction PROVE GuestInv'
<1>1. Apart /\ UNCHANGED <<volume, alone>>
  BY DEF EndTransaction, quiet, process, Apart, GuestInv, Kinds
<1>2. guest.active \in {"provision", "reload", "upgrade", "other", "RECLAIM_WAIT"}
  BY DEF EndTransaction, GuestInv, Kinds, GuestRecord
<1>3. guest' \in GuestRecord
  <2>1. None \in Picture
    BY DEF Picture
  <2>2. CASE guest.active = "reload"
    <3>1. PICK hung \in BOOLEAN :
             guest' = [guest EXCEPT !.active = None, !.shown = FALSE, !.hung = hung,
                                    !.image = guest.pending, !.pending = None]
      BY <2>2 DEF EndTransaction
    <3> QED BY <2>1, <3>1 DEF GuestInv, Kinds, GuestRecord
  <2>3. CASE guest.active = "provision"
    BY <2>1, <2>3, ZenonT(60) DEF EndTransaction, GuestInv, Kinds, GuestRecord
  <2>4. CASE guest.active \in {"upgrade", "other"}
    <3>1. guest' = [guest EXCEPT !.active = None]
      BY <2>4 DEF EndTransaction
    <3> QED BY <2>1, <3>1 DEF GuestInv, Kinds, GuestRecord
  <2>5. CASE guest.active = "RECLAIM_WAIT"
    <3>1. guest' = [guest EXCEPT !.active = None, !.exists = FALSE, !.pending = None]
      BY <2>5 DEF EndTransaction
    <3> QED BY <2>1, <3>1 DEF GuestInv, Kinds, GuestRecord
  <2> QED BY <1>2, <2>2, <2>3, <2>4, <2>5
<1>4. /\ guest'.exists \in BOOLEAN /\ guest.exists \in BOOLEAN
      /\ guest'.exists => guest.exists
      /\ guest.active = "RECLAIM_WAIT" => ~guest'.exists
  <2>1. CASE guest.active \in {"reload", "provision"}
    BY <2>1, ZenonT(60) DEF EndTransaction, GuestInv, Kinds, GuestRecord
  <2>2. CASE guest.active \in {"upgrade", "other", "RECLAIM_WAIT"}
    BY <2>2 DEF EndTransaction, GuestInv, Kinds, GuestRecord
  <2> QED BY <1>2, <2>1, <2>2
<1>5. guest.active = "reload" =>
        /\ guest'.active = None /\ guest'.pending = None /\ guest'.image = guest.pending
        /\ guest'.data = guest.data /\ guest'.host = guest.host
  BY ZenonT(60) DEF EndTransaction, GuestInv, Kinds, GuestRecord
<1>6. orders' = [i \in DOMAIN orders |-> orders'[i]]
  BY DEF EndTransaction
<1>7. \A i \in DOMAIN orders : /\ orders'[i] = orders[i] \/ orders'[i] = [orders[i] EXCEPT !.work = "done"]
                               /\ orders[i].work = "done" => orders'[i] = orders[i]
  BY DEF EndTransaction, Waiting
<1>8. \A i \in DOMAIN orders :
         IsOrder(orders[i])' /\ orders'[i].by = orders[i].by
  <2> SUFFICES ASSUME NEW i \in DOMAIN orders PROVE IsOrder(orders[i])' /\ orders'[i].by = orders[i].by
    OBVIOUS
  <2>1. IsOrder(orders[i]) /\ call' = call
    BY <1>1 DEF GuestInv, Orders, Apart
  <2> QED BY <1>7, <2>1 DEF IsOrder
<1>9. Kinds' /\ Stage' /\ Orders' /\ Counted'
  BY <1>1, <1>3, <1>6, <1>8, ApartKeeps DEF GuestInv, Kinds
<1>10. Cancelled'
  BY <1>1, <1>4, StillCancelled
<1>11. Undisturbed'
  <2>1. guest.active # None /\ None # "reload"
    BY TransactionAssumption DEF EndTransaction
  <2>2. DOMAIN orders' = DOMAIN orders
    BY <1>6
  <2>3. asked' = asked /\ UNCHANGED <<call, step, alone>>
    BY <1>1 DEF Apart, asked
  <2>4. ~Calm /\ ~Asked /\ ~Reloaded /\ (Reloads => Reloaded')
    BY <1>5, <2>1, <2>3 DEF Calm, Asked, Reloaded, Reloads
  <2>5. CASE call # 0 /\ asked.op = "reload" /\ alone /\ (Active \/ step = "finished")
    <3>1. Reloads /\ step \in {"begun", "readyHalf", "readyRest"} /\ guest.data = call
          /\ \A i \in DOMAIN orders : orders[i].work = "done"
      BY <2>4, <2>5, LaterSteps DEF GuestInv, Undisturbed
    <3>2. Reloaded' /\ guest'.data = call
      BY <1>5, <2>4, <3>1 DEF Reloads
    <3>3. \A i \in DOMAIN orders' : orders'[i].work = "done"
      BY <1>7, <2>2, <3>1
    <3> QED BY <2>3, <3>1, <3>2, <3>3 DEF Undisturbed
  <2>6. CASE ~(call # 0 /\ asked.op = "reload" /\ alone /\ (Active \/ step = "finished"))
    BY <2>3, <2>6 DEF Undisturbed, Active
  <2> QED BY <2>5, <2>6
<1> QED BY <1>9, <1>10, <1>11 DEF GuestInv

\* An order is completed, or its volume is there.
LEMMA OrderKeeps ==
  ASSUME GuestInv, NEW i \in DOMAIN orders, CompleteOrder(i) \/ ProvisionVolume(i) PROVE GuestInv'
<1>1. Apart /\ UNCHANGED <<guest, volume, alone>>
  BY DEF CompleteOrder, ProvisionVolume, quiet, process, Apart, GuestInv, Kinds
<1>2. \/ orders' = [orders EXCEPT ![i].status = "COMPLETED"]
      \/ orders[i].work = "waiting" /\ orders' = [orders EXCEPT ![i].work = "done"]
  BY DEF CompleteOrder, ProvisionVolume
<1>3. orders' = [j \in DOMAIN orders |-> orders'[j]] /\ DOMAIN orders' = DOMAIN orders
  BY <1>2 DEF GuestInv, Orders
<1>4. \A j \in DOMAIN orders :
         /\ IsOrder(orders[j])' /\ orders'[j].by = orders[j].by
         /\ orders[j].work = "done" => orders'[j].work = "done"
  <2> SUFFICES ASSUME NEW j \in DOMAIN orders
      PROVE /\ IsOrder(orders[j])' /\ orders'[j].by = orders[j].by
            /\ orders[j].work = "done" => orders'[j].work = "done"
    OBVIOUS
  <2>1. IsOrder(orders[j]) /\ call' = call
    BY <1>1 DEF GuestInv, Orders, Apart
  <2>2. CASE j # i
    <3>1. orders'[j] = orders[j]
      BY <1>2, <2>2
    <3> QED BY <2>1, <3>1 DEF IsOrder
  <2>3. CASE j = i
    <3>1. \/ orders'[j] = [orders[j] EXCEPT !.status = "COMPLETED"]
          \/ orders'[j] = [orders[j] EXCEPT !.work = "done"]
      BY <1>2, <2>3
    <3> QED BY <2>1, <3>1 DEF IsOrder
  <2> QED BY <2>2, <2>3
<1>5. Kinds' /\ Stage' /\ Orders' /\ Counted'
  BY <1>1, <1>3, <1>4, ApartKeeps DEF GuestInv, Kinds
<1>6. Cancelled'
  BY <1>1 DEF GuestInv, Apart, Cancelled, CancelledIsGoing, Finished, asked
<1>7. Undisturbed'
  BY <1>1, <1>3, <1>4 DEF GuestInv, Apart, Undisturbed, Calm, Asked, Reloads, Reloaded, Active, asked
<1> QED BY <1>5, <1>6, <1>7 DEF GuestInv

\* An operation on the volume begins or ends.
LEMMA VolumeKeeps == ASSUME GuestInv, BlockVolume \/ UnblockVolume PROVE GuestInv'
<1>1. Apart /\ UNCHANGED <<guest, orders, alone>> /\ volume' \in [busy : BOOLEAN, allowed : BOOLEAN]
  BY DEF BlockVolume, UnblockVolume, process, Apart, GuestInv, Kinds
<1>2. Kinds' /\ Stage' /\ Orders' /\ Counted'
  BY <1>1, ApartWithoutOrders DEF GuestInv, Kinds
<1>3. Cancelled'
  BY <1>1 DEF GuestInv, Apart, Cancelled, CancelledIsGoing, Finished, asked
<1>4. Undisturbed'
  BY <1>1 DEF GuestInv, Apart, Undisturbed, Calm, Asked, Reloads, Reloaded, Active, asked
<1> QED BY <1>2, <1>3, <1>4 DEF GuestInv

\* Nothing happens.
LEMMA GuestRests == ASSUME GuestInv, UNCHANGED vars PROVE GuestInv'
<1>1. Apart /\ UNCHANGED <<guest, orders, volume, alone>>
  BY DEF vars, Apart, GuestInv, Kinds
<1>2. Kinds' /\ Stage' /\ Orders' /\ Counted'
  BY <1>1, ApartWithoutOrders DEF GuestInv, Kinds
<1>3. Cancelled'
  BY <1>1 DEF GuestInv, Apart, Cancelled, CancelledIsGoing, Finished, asked
<1>4. Undisturbed'
  BY <1>1 DEF GuestInv, Apart, Undisturbed, Calm, Asked, Reloads, Reloaded, Active, asked
<1> QED BY <1>2, <1>3, <1>4 DEF GuestInv

-----------------------------------------------------------------------------
(* The theorems.                                                           *)

\* The invariant holds at first.
LEMMA GuestStarts == ASSUME Init PROVE GuestInv
<1>1. Len(plan) \in Nat /\ plan \in Plans
  BY TransactionAssumption DEF Init
<1>2. orders = <<>> /\ Len(orders) = 0 /\ DOMAIN orders = {}
  BY DEF Init
<1>3. guest \in GuestRecord
  <2>1. None \in Picture /\ "first" \in Picture
    BY DEF Picture
  <2>2. 0 \in 0..Len(plan)
    BY <1>1
  <2>3. PICK image \in {None, "first"} : guest = NewGuest(image)
    BY DEF Init
  <2> QED BY <2>1, <2>2, <2>3 DEF NewGuest, GuestRecord
<1>4. Kinds
  BY <1>1, <1>2, <1>3, TransactionAssumption DEF Init, Kinds, Sleeps
<1>5. Stage /\ Cancelled /\ Undisturbed
  BY DEF Init, Stage, Active, Ended, Cancelled, CancelledIsGoing, Finished, Undisturbed
<1>6. Orders
  BY <1>2 DEF Orders
<1>7. Counted
  <2>1. Mine = {}
    BY <1>2 DEF Mine
  <2>2. Cardinality(Mine) = 0
    BY <2>1, FS_EmptySet
  <2> QED BY <2>2, TransactionAssumption DEF Init, Counted, Early
<1> QED BY <1>4, <1>5, <1>6, <1>7 DEF GuestInv

\* Every step keeps it.
LEMMA GuestKeeps == ASSUME GuestInv, [Next]_vars PROVE GuestInv'
<1>1. ASSUME CallStep PROVE GuestInv'
  BY <1>1, CreateObjectKeeps, SetUserDataKeeps, ReloadOSKeeps, EditObjectKeeps, DeleteObjectKeeps,
    ReadyKeeps, ReadyHalfKeeps, BegunKeeps, IdleKeeps, WaitToCancelKeeps, UpgradeKeeps,
    OtherAsksKeep, PlaceVolumeKeeps, SetAccessKeeps DEF CallStep
<1>2. ASSUME \/ BeginReload \/ ShowReload \/ BeginUpgrade \/ BeginOther \/ Vanish
             \/ EndTransaction
      PROVE  GuestInv'
  BY <1>2, BeginReloadKeeps, ShowReloadKeeps, BeginUpgradeKeeps, BeginOtherKeeps, VanishKeeps,
    EndTransactionKeeps
<1>3. ASSUME NEW i \in DOMAIN orders, CompleteOrder(i) \/ ProvisionVolume(i) PROVE GuestInv'
  BY <1>3, OrderKeeps
<1>4. ASSUME AllDone \/ UNCHANGED vars PROVE GuestInv'
  BY <1>4, GuestRests DEF AllDone
<1> QED BY <1>1, <1>2, <1>3, <1>4, BeginKeeps, CrashKeeps, VolumeKeeps DEF Next

\* The invariant holds always.
THEOREM GuestInductive == Spec => []GuestInv
<1>1. Init => GuestInv
  BY GuestStarts
<1>2. GuestInv /\ [Next]_vars => GuestInv'
  BY GuestKeeps
<1> QED BY <1>1, <1>2, PTL DEF Spec

\* The variables always have their types: no wait sleeps more often than fits
\* before its deadline, and no order is waited for that was not placed.
THEOREM GuestTypeCorrect == Spec => []TypeOK
<1>1. GuestInv => TypeOK
  BY DEF GuestInv, Kinds, GuestRecord, Sleeps, TypeOK
<1> QED BY <1>1, GuestInductive, PTL

\* A reload that succeeds leaves the guest with the image, the name and the
\* user data that were asked for, for any plan, deadlines and failures.
THEOREM ReloadIsAsked == Spec => []ReloadedIsAsked
<1>1. GuestInv => ReloadedIsAsked
  BY DEF GuestInv, Undisturbed, Reloaded, ReloadedIsAsked, Finished
<1> QED BY <1>1, GuestInductive, PTL

\* A cancel that succeeds leaves a guest that is gone or going.
THEOREM CancelIsGoing == Spec => []CancelledIsGoing
<1>1. GuestInv => CancelledIsGoing
  BY DEF GuestInv, Cancelled
<1> QED BY <1>1, GuestInductive, PTL

\* A call orders once, and once more for each receipt without an order id.
THEOREM OrderedOnce == Spec => []OrdersAreCounted
<1>1. GuestInv => OrdersAreCounted
  BY DEF GuestInv, Counted, Mine, OrdersAreCounted
<1> QED BY <1>1, GuestInductive, PTL

-----------------------------------------------------------------------------
(* What a search for a price returns.                                      *)

\* A set of naturals has a least element: the sets of the smaller ones are
\* finite, and strict inclusion of finite sets is well-founded.
LEMMA LeastOf ==
  ASSUME NEW S, S \subseteq Nat, S # {}
  PROVE  Min(S) \in S /\ \A y \in S : Min(S) <= y
<1> DEFINE below(x) == {y \in S : y < x}
           T == {below(x) : x \in S}
<1>1. T \subseteq FiniteSubsetsOf(S) /\ T # {}
  <2>1. \A x \in S : IsFiniteSet(below(x))
    <3> SUFFICES ASSUME NEW x \in S PROVE IsFiniteSet(below(x))
      OBVIOUS
    <3>1. 0 \in Int /\ x \in Int
      OBVIOUS
    <3>2. below(x) \subseteq 0..x
      <4> SUFFICES ASSUME NEW y \in S, y < x PROVE y \in 0..x
        OBVIOUS
      <4>1. x \in Nat /\ y \in Nat
        OBVIOUS
      <4> QED BY <4>1
    <3> HIDE DEF below
    <3> QED BY <3>1, <3>2, FS_Interval, FS_Subset
  <2> QED BY <2>1 DEF FiniteSubsetsOf
<1>2. PICK m \in T : \A t \in T : <<t, m>> \notin StrictSubsetOrdering(S)
  <2> HIDE DEF T
  <2> QED BY <1>1, FS_StrictSubsetOrderingWellFounded, WFMin
<1>3. PICK x \in S : m = below(x)
  OBVIOUS
<1>4. ASSUME NEW y \in S, y < x PROVE FALSE
  <2>1. <<below(y), below(x)>> \notin StrictSubsetOrdering(S)
    BY <1>2, <1>3
  <2>2. below(y) \subseteq below(x) /\ y \in below(x) /\ y \notin below(y)
    <3> HIDE DEF T
    <3>1. x \in Int /\ y \in Int
      OBVIOUS
    <3>2. \A z \in S : z \in Int /\ (z < y => z < x)
      BY <3>1, <1>4
    <3>3. below(y) \subseteq below(x)
      BY <3>2
    <3>4. ~(y < y)
      BY <3>1
    <3> QED BY <3>3, <3>4, <1>4
  <2> QED BY <2>1, <2>2 DEF StrictSubsetOrdering
<1>5. \E z \in S : \A y \in S : z <= y
  BY <1>4
<1> QED BY <1>5 DEF Min

\* Numbers up to a bound have a greatest one: the bound less the least
\* distance to it.
LEMMA GreatestOf ==
  ASSUME NEW n \in Nat, NEW S, S \subseteq 0..n, S # {}
  PROVE  Max(S) \in S
<1> DEFINE D == {n - x : x \in S}
<1>1. D \subseteq Nat /\ D # {}
  <2>1. \A x \in S : n - x \in Nat
    <3> SUFFICES ASSUME NEW x \in S PROVE n - x \in Nat
      OBVIOUS
    <3>1. x \in 0..n
      OBVIOUS
    <3> QED BY <3>1
  <2> QED BY <2>1
<1>2. Min(D) \in D /\ \A y \in D : Min(D) <= y
  <2> HIDE DEF D
  <2> QED BY <1>1, LeastOf
<1>3. PICK x \in S : Min(D) = n - x
  BY <1>2
<1>4. \A y \in S : x >= y
  <2> SUFFICES ASSUME NEW y \in S PROVE x >= y
    OBVIOUS
  <2>1. n - x <= n - y
    BY <1>2, <1>3
  <2>2. x \in Nat /\ y \in Nat
    OBVIOUS
  <2> QED BY <2>1, <2>2
<1> QED BY <1>4 DEF Max

\* A search that returns a price returns one of the places it looked for.
LEMMA FirstIsThere ==
  ASSUME NEW package, NEW places, places \subseteq Nat \X Nat,
         FirstOf(package, places) # NoPrice
  PROVE  \E h \in places : h[2] # 0 /\ FirstOf(package, places) = At(package, h)
<1> DEFINE I == {h[1] : h \in places}
           i == Min(I)
           J == {h[2] : h \in {g \in places : g[1] = i}}
           j == Min(J)
<1>1. places # {} /\ j # 0 /\ FirstOf(package, places) = At(package, <<i, j>>)
  BY DEF FirstOf
<1>2. I \subseteq Nat /\ I # {}
  BY <1>1
<1>3. i \in I
  <2> HIDE DEF I
  <2> QED BY <1>2, LeastOf
<1>4. J \subseteq Nat /\ J # {}
  <2> HIDE DEF i
  <2> QED BY <1>3
<1>5. j \in J
  <2> HIDE DEF J
  <2> QED BY <1>4, LeastOf
<1>6. <<i, j>> \in places
  <2> HIDE DEF i, j
  <2> QED BY <1>5
<1> HIDE DEF i, j
<1> QED BY <1>1, <1>6

\* A package of which the capacities are what CatalogueAssumption says.
IsPackage(package) ==
    \A i \in DOMAIN package :
        /\ i \in Nat /\ DOMAIN package[i].prices \subseteq Nat
        /\ package[i].capacity \in Nat
        /\ package[i].hi \in {None, Garbled} \cup 0..package[i].capacity
        /\ \A p \in ToSet(package[i].prices) :
              p.capacity = package[i].capacity /\ p.hi \in Nat \cup {Garbled}

LEMMA PackageOf ==
  ASSUME NEW k \in Catalogues
  PROVE  IsPackage(k.performance) /\ IsPackage(k.saas)
BY CatalogueAssumption DEF IsPackage

\* A listed price is no location's, of its category, and has the capacity of
\* its item.
LEMMA ListedPrice ==
  ASSUME NEW package, IsPackage(package), NEW category, NEW h \in Listed(package, category)
  PROVE  /\ h \in Nat \X Nat /\ h[1] \in DOMAIN package
         /\ At(package, h).group = None /\ category \in At(package, h).cats
         /\ At(package, h).capacity = package[h[1]].capacity
         /\ At(package, h).hi \in Nat \cup {Garbled}
<1>1. PICK i \in DOMAIN package : h \in {i} \X DOMAIN package[i].prices
  BY DEF Listed, Places
<1>2. /\ h = <<h[1], h[2]>> /\ h[1] = i /\ h[2] \in DOMAIN package[i].prices
      /\ At(package, h) = package[i].prices[h[2]]
  BY <1>1 DEF At
<1>3. At(package, h) \in ToSet(package[i].prices)
  BY <1>2 DEF ToSet
<1> QED BY <1>2, <1>3 DEF IsPackage, Listed, Standard

LEMMA CategoryPrice ==
  ASSUME NEW package, IsPackage(package), NEW category,
         FirstOf(package, Listed(package, category)) # NoPrice
  PROVE  FirstOf(package, Listed(package, category)).group = None
<1>1. Listed(package, category) \subseteq Nat \X Nat
  BY ListedPrice
<1> QED BY <1>1, FirstIsThere, ListedPrice

\* A price found for a size is for that size.
LEMMA SizedPrice ==
  ASSUME NEW package, IsPackage(package), NEW category, NEW n,
         FirstOf(package, Sized(package, Listed(package, category), n)) # NoPrice
  PROVE  LET p == FirstOf(package, Sized(package, Listed(package, category), n))
         IN  p.group = None /\ category \in p.cats /\ p.capacity = n
<1> DEFINE places == Sized(package, Listed(package, category), n)
<1>1. places \subseteq Listed(package, category) /\ \A h \in places : package[h[1]].capacity = n
  BY DEF Sized
<1>2. places \subseteq Nat \X Nat /\ FirstOf(package, places) # NoPrice
  BY <1>1, ListedPrice
<1>3. PICK h \in places : FirstOf(package, places) = At(package, h)
  <2> HIDE DEF places
  <2> QED BY <1>2, FirstIsThere
<1>4. h \in Listed(package, category)
  BY <1>1
<1> HIDE DEF places
<1> QED BY <1>1, <1>3, <1>4, ListedPrice DEF places

\* A price found in a range has room for what was asked.
LEMMA RangedPlaces ==
  ASSUME NEW package, IsPackage(package), NEW category, NEW n \in Nat
  PROVE  /\ InRange(package, category, n) \subseteq Nat \X Nat
         /\ \A h \in InRange(package, category, n) : h[2] # 0 =>
              h \in Listed(package, category) /\ n <= package[h[1]].capacity
<1> DEFINE ranged == {i \in DOMAIN package : /\ package[i].category = category
                                             /\ None \notin {package[i].lo, package[i].hi}}
           unread == {i \in ranged : Garbled \in {package[i].lo, package[i].hi}}
<1>1. unread \X {0} \subseteq Nat \X Nat
  BY DEF IsPackage
<1>2. Listed(package, category) \subseteq Nat \X Nat
  BY ListedPrice
<1>3. \A h \in InRange(package, category, n) :
        \/ h \in unread \X {0}
        \/ /\ h \in Listed(package, category) /\ h[1] \in ranged \ unread
           /\ n <= package[h[1]].hi
  BY DEF InRange, Within
<1>4. \A i \in ranged \ unread : package[i].hi \in 0..package[i].capacity /\ package[i].capacity \in Nat
  BY DEF IsPackage
<1>5. ASSUME NEW h \in InRange(package, category, n), h[2] # 0
      PROVE  h \in Listed(package, category) /\ n <= package[h[1]].capacity
  <2>1. h \notin unread \X {0}
    BY <1>5
  <2>2. /\ h \in Listed(package, category) /\ h[1] \in ranged \ unread
        /\ n <= package[h[1]].hi
    BY <1>3, <2>1
  <2> HIDE DEF ranged, unread
  <2>3. /\ package[h[1]].hi \in 0..package[h[1]].capacity /\ package[h[1]].capacity \in Nat
    BY <1>4, <2>2
  <2> QED BY <2>2, <2>3
<1> HIDE DEF ranged, unread
<1> QED BY <1>1, <1>2, <1>3, <1>5

\* A restricted price that was found admits what it was asked for.
LEMMA AdmittedPrice ==
  ASSUME NEW package, NEW places, places \subseteq Nat \X Nat, NEW types, NEW n, NEW read,
         Admitting(package, places, types, n, read) # NoPrice
  PROVE  \E h \in places :
            /\ h[2] # 0 /\ Admitting(package, places, types, n, read) = At(package, h)
            /\ At(package, h).hi # Garbled /\ n <= At(package, h).hi
<1> DEFINE Fits(q) == \/ Unreadable(q, n, read)
                      \/ q.hi # Garbled /\ q.type \in types /\ Within(n, q.lo, q.hi)
           fitting == {h \in places : h[2] = 0 \/ Fits(At(package, h))}
           p == FirstOf(package, fitting)
<1>1. /\ p # NoPrice /\ ~Unreadable(p, n, read)
      /\ Admitting(package, places, types, n, read) = p
  BY DEF Admitting
<1>2. fitting \subseteq Nat \X Nat
  OBVIOUS
<1>3. PICK h \in fitting : h[2] # 0 /\ p = At(package, h)
  <2> HIDE DEF fitting
  <2> QED BY <1>1, <1>2, FirstIsThere
<1>4. h \in places /\ Fits(p)
  <2> HIDE DEF p
  <2> QED BY <1>3
<1>5. p.hi # Garbled /\ n <= p.hi
  <2> HIDE DEF p
  <2> QED BY <1>1, <1>4 DEF Within
<1> HIDE DEF p, fitting
<1> QED BY <1>1, <1>3, <1>4, <1>5

\* The prices of a volume, search by search.
LEMMA SpacePrice ==
  ASSUME NEW package, IsPackage(package), NEW size \in Nat, NEW p, p # NoPrice,
         \/ p = FindPerformanceSpacePrice(package, size)
         \/ p = FindSaaSPerformSpacePrice(package, size)
  PROVE  p.group = None /\ "performance_storage_space" \in p.cats
         /\ p.capacity \in Nat /\ p.capacity >= size
<1>1. CASE p = FindPerformanceSpacePrice(package, size)
  <2>1. p.group = None /\ "performance_storage_space" \in p.cats /\ p.capacity = size
    BY <1>1, SizedPrice DEF FindPerformanceSpacePrice
  <2> QED BY <2>1
<1>2. CASE p = FindSaaSPerformSpacePrice(package, size)
  <2> DEFINE ranges == InRange(package, "performance_storage_space", size)
             places == {h \in ranges : h[2] = 0 \/ package[h[1]].keyed}
  <2>1. places \subseteq Nat \X Nat /\ p = FirstOf(package, places)
    BY <1>2, RangedPlaces DEF FindSaaSPerformSpacePrice
  <2>2. PICK h \in places : h[2] # 0 /\ p = At(package, h)
    <3> HIDE DEF places
    <3> QED BY <2>1, FirstIsThere
  <2>3. h \in Listed(package, "performance_storage_space") /\ size <= package[h[1]].capacity
    BY <2>2, RangedPlaces
  <2>4. package[h[1]].capacity \in Nat
    BY <2>3, ListedPrice DEF IsPackage
  <2> HIDE DEF places
  <2> QED BY <2>2, <2>3, <2>4, ListedPrice
<1> QED BY <1>1, <1>2

LEMMA IopsPrice ==
  ASSUME NEW package, IsPackage(package), NEW size \in Nat, NEW iops \in Nat, NEW p, p # NoPrice,
         \/ p = FindPerformanceIOPSPrice(package, size, iops)
         \/ p = FindSaaSPerformIopsPrice(package, size, iops)
  PROVE  p.group = None /\ "performance_storage_iops" \in p.cats /\ p.capacity >= iops
         /\ p.hi \in Nat /\ size <= p.hi
<1> DEFINE listed == Listed(package, "performance_storage_iops")
<1>1. PICK h \in listed : /\ p = At(package, h) /\ p.hi # Garbled /\ size <= p.hi
                          /\ iops <= package[h[1]].capacity
  <2>1. CASE p = FindPerformanceIOPSPrice(package, size, iops)
    <3> DEFINE places == Sized(package, listed, iops)
    <3>1. /\ \A h \in places : h \in listed /\ package[h[1]].capacity = iops
          /\ p = Admitting(package, places, RestrictionTypes, size, "minFirst")
      BY <2>1 DEF FindPerformanceIOPSPrice, Sized
    <3>2. places \subseteq Nat \X Nat
      BY <3>1, ListedPrice
    <3>3. PICK h \in places : p = At(package, h) /\ p.hi # Garbled /\ size <= p.hi
      <4> HIDE DEF places
      <4>1. Admitting(package, places, RestrictionTypes, size, "minFirst") # NoPrice
        BY <3>1
      <4>2. \E h \in places :
              /\ h[2] # 0 /\ Admitting(package, places, RestrictionTypes, size, "minFirst") = At(package, h)
              /\ At(package, h).hi # Garbled /\ size <= At(package, h).hi
        BY <3>2, <4>1, AdmittedPrice
      <4> QED BY <3>1, <4>2
    <3> HIDE DEF places, listed
    <3>4. iops <= package[h[1]].capacity
      BY <3>1, <3>3
    <3> QED BY <3>1, <3>3, <3>4
  <2>2. CASE p = FindSaaSPerformIopsPrice(package, size, iops)
    <3> DEFINE places == InRange(package, "performance_storage_iops", iops)
    <3>1. /\ places \subseteq Nat \X Nat
          /\ \A h \in places : h[2] # 0 => h \in listed /\ iops <= package[h[1]].capacity
      BY RangedPlaces
    <3>2. p = Admitting(package, places, {"STORAGE_SPACE"}, size, "both")
      BY <2>2 DEF FindSaaSPerformIopsPrice
    <3>3. PICK h \in places : h[2] # 0 /\ p = At(package, h) /\ p.hi # Garbled /\ size <= p.hi
      <4> HIDE DEF places
      <4>1. Admitting(package, places, {"STORAGE_SPACE"}, size, "both") # NoPrice
        BY <3>2
      <4>2. \E h \in places :
              /\ h[2] # 0 /\ Admitting(package, places, {"STORAGE_SPACE"}, size, "both") = At(package, h)
              /\ At(package, h).hi # Garbled /\ size <= At(package, h).hi
        BY <3>1, <4>1, AdmittedPrice
      <4> QED BY <3>2, <4>2
    <3> HIDE DEF places, listed
    <3> QED BY <3>1, <3>3
  <2> QED BY <2>1, <2>2
<1>2. /\ p.group = None /\ "performance_storage_iops" \in p.cats
      /\ p.capacity = package[h[1]].capacity /\ p.hi \in Nat \cup {Garbled}
  BY <1>1, ListedPrice
<1> QED BY <1>1, <1>2

LEMMA SnapshotPrice ==
  ASSUME NEW package, IsPackage(package), NEW space, NEW iops, NEW p, p # NoPrice,
         p = FindSaaSSnapshotSpacePrice(package, space, iops)
  PROVE  p.group = None /\ "storage_snapshot_space" \in p.cats /\ p.capacity = space
<1> DEFINE listed == Listed(package, "storage_snapshot_space")
           places == Sized(package, listed, space)
<1>1. /\ \A h \in places : h \in listed /\ package[h[1]].capacity = space
      /\ p = Admitting(package, places, {"IOPS"}, iops, "both")
  BY DEF FindSaaSSnapshotSpacePrice, Sized
<1>2. places \subseteq Nat \X Nat
  BY <1>1, ListedPrice
<1>3. PICK h \in places : p = At(package, h)
  <2> HIDE DEF places
  <2>1. Admitting(package, places, {"IOPS"}, iops, "both") # NoPrice
    BY <1>1
  <2>2. \E h \in places : Admitting(package, places, {"IOPS"}, iops, "both") = At(package, h)
    BY <1>2, <2>1, AdmittedPrice
  <2> QED BY <1>1, <2>2
<1>4. h \in listed /\ package[h[1]].capacity = space
  BY <1>1
<1> HIDE DEF places
<1> QED BY <1>3, <1>4, ListedPrice

LEMMA MaximumPrice ==
  ASSUME NEW package, NEW size, NEW p \in SelectMaximumIops(package, size), p # NoPrice
  PROVE  p.group = None
BY DEF SelectMaximumIops

\* The size that is ordered is no less than what was asked for, up to the
\* largest one.
LEMMA SizeSuffices ==
  ASSUME NEW mb \in Nat
  PROVE  /\ GetSoftLayerDiskSize(mb) \in Nat /\ Least(mb) \in Nat
         /\ Least(mb) <= GetSoftLayerDiskSize(mb)
<1>1. Gigabytes(mb) \in Nat
  BY DEF Gigabytes
<1>2. Enough(mb) \subseteq Nat /\ \A s \in Enough(mb) : Gigabytes(mb) <= s
  BY DEF Enough, SizeArray
<1>3. CASE Enough(mb) = {}
  <2>1. GetSoftLayerDiskSize(mb) = 12000
    BY <1>3 DEF GetSoftLayerDiskSize
  <2> QED BY <1>1, <2>1 DEF Least
<1>4. CASE Enough(mb) # {}
  <2>1. GetSoftLayerDiskSize(mb) \in Enough(mb)
    BY <1>2, <1>4, LeastOf DEF GetSoftLayerDiskSize
  <2> HIDE DEF Enough, GetSoftLayerDiskSize
  <2> QED BY <1>1, <1>2, <2>1 DEF Least
<1> QED BY <1>3, <1>4

\* The order for a volume, complete as it has to be, fits.
LEMMA VolumeOrderFits ==
  ASSUME NEW k \in Catalogues, NEW r, {r.size, r.iops, r.space} \subseteq Nat,
         NEW prices \in CreateVolumePrices(k.performance, k.saas,
                            GetSoftLayerDiskSize(r.size), r.iops, r.space),
         Complete(prices), NEW o, o.prices = ToSet(prices)
  PROVE  VolumeFits(o, r)
<1> DEFINE size == GetSoftLayerDiskSize(r.size)
<1>1. IsPackage(k.performance) /\ IsPackage(k.saas)
  BY PackageOf
<1>2. /\ size \in Nat /\ Least(r.size) \in Nat /\ Least(r.size) <= size
      /\ r.iops \in Nat /\ r.space \in Nat
  BY SizeSuffices
<1> HIDE DEF size
<1>3. \A p \in o.prices : p # NoPrice
  BY DEF Complete, ToSet
<1>4. CASE r.space = 0
  <2>1. PICK p \in IF r.iops = 0 THEN SelectMaximumIops(k.performance, size)
                   ELSE {FindPerformanceIOPSPrice(k.performance, size, r.iops)} :
          prices = <<FindPerformancePrice(k.performance, "performance_storage_iscsi"),
                     FindPerformanceSpacePrice(k.performance, size), p>>
    BY <1>4 DEF CreateVolumePrices, OrderBlockVolume, size
  <2> DEFINE a == FindPerformancePrice(k.performance, "performance_storage_iscsi")
             b == FindPerformanceSpacePrice(k.performance, size)
  <2>2. o.prices = {a, b, p}
    BY <2>1 DEF ToSet
  <2>3. a # NoPrice /\ b # NoPrice /\ p # NoPrice
    BY <1>3, <2>2
  <2>4. a.group = None
    BY <1>1, <2>3, CategoryPrice DEF FindPerformancePrice
  <2>5. b.group = None /\ "performance_storage_space" \in b.cats /\ b.capacity >= Least(r.size)
    <3>1. /\ b.group = None /\ "performance_storage_space" \in b.cats
          /\ b.capacity \in Nat /\ b.capacity >= size
      <4> HIDE DEF b
      <4> QED BY <1>1, <1>2, <2>3, SpacePrice DEF b
    <3> HIDE DEF b
    <3> QED BY <1>2, <3>1
  <2>6. p.group = None /\ (r.iops # 0 => /\ "performance_storage_iops" \in p.cats
                                         /\ p.capacity >= r.iops /\ Least(r.size) <= p.hi)
    <3>1. CASE r.iops = 0
      BY <2>1, <2>3, <3>1, MaximumPrice
    <3>2. CASE r.iops # 0
      <4>1. p = FindPerformanceIOPSPrice(k.performance, size, r.iops)
        BY <2>1, <3>2
      <4>2. /\ p.group = None /\ "performance_storage_iops" \in p.cats /\ p.capacity >= r.iops
            /\ p.hi \in Nat /\ size <= p.hi
        BY <1>1, <1>2, <2>3, <4>1, IopsPrice
      <4> QED BY <1>2, <4>2
    <3> QED BY <3>1, <3>2
  <2> HIDE DEF a, b
  <2> QED BY <1>4, <2>2, <2>4, <2>5, <2>6 DEF VolumeFits
<1>5. CASE r.space # 0
  <2>1. PICK p \in IF r.iops = 0 THEN SelectMaximumIops(k.performance, size)
                   ELSE {FindSaaSPerformIopsPrice(k.saas, size, r.iops)} :
          prices = <<FindSaaSPriceByCategory(k.saas, "storage_as_a_service"),
                     FindSaaSPriceByCategory(k.saas, "storage_block"),
                     FindSaaSPerformSpacePrice(k.saas, size), p,
                     FindSaaSSnapshotSpacePrice(k.saas, r.space, r.iops)>>
    BY <1>5 DEF CreateVolumePrices, OrderBlockVolume2, size
  <2> DEFINE a == FindSaaSPriceByCategory(k.saas, "storage_as_a_service")
             b == FindSaaSPriceByCategory(k.saas, "storage_block")
             c == FindSaaSPerformSpacePrice(k.saas, size)
             d == FindSaaSSnapshotSpacePrice(k.saas, r.space, r.iops)
  <2>2. o.prices = {a, b, c, p, d}
    BY <2>1 DEF ToSet
  <2>3. a # NoPrice /\ b # NoPrice /\ c # NoPrice /\ p # NoPrice /\ d # NoPrice
    BY <1>3, <2>2
  <2>4. a.group = None /\ b.group = None
    BY <1>1, <2>3, CategoryPrice DEF FindSaaSPriceByCategory
  <2>5. c.group = None /\ "performance_storage_space" \in c.cats /\ c.capacity >= Least(r.size)
    <3>1. /\ c.group = None /\ "performance_storage_space" \in c.cats
          /\ c.capacity \in Nat /\ c.capacity >= size
      <4> HIDE DEF c
      <4> QED BY <1>1, <1>2, <2>3, SpacePrice DEF c
    <3> HIDE DEF c
    <3> QED BY <1>2, <3>1
  <2>6. p.group = None /\ (r.iops # 0 => /\ "performance_storage_iops" \in p.cats
                                         /\ p.capacity >= r.iops /\ Least(r.size) <= p.hi)
    <3>1. CASE r.iops = 0
      BY <2>1, <2>3, <3>1, MaximumPrice
    <3>2. CASE r.iops # 0
      <4>1. p = FindSaaSPerformIopsPrice(k.saas, size, r.iops)
        BY <2>1, <3>2
      <4>2. /\ p.group = None /\ "performance_storage_iops" \in p.cats /\ p.capacity >= r.iops
            /\ p.hi \in Nat /\ size <= p.hi
        BY <1>1, <1>2, <2>3, <4>1, IopsPrice
      <4> QED BY <1>2, <4>2
    <3> QED BY <3>1, <3>2
  <2>7. d.group = None /\ "storage_snapshot_space" \in d.cats /\ d.capacity = r.space
    <3> HIDE DEF d
    <3> QED BY <1>1, <2>3, SnapshotPrice DEF d
  <2> HIDE DEF a, b, c, d
  <2> QED BY <1>5, <2>2, <2>4, <2>5, <2>6, <2>7 DEF VolumeFits
<1> QED BY <1>4, <1>5

\* The order for a second disk fits.
LEMMA DiskOrderFits ==
  ASSUME NEW k \in Catalogues, NEW r, NEW o,
         o.prices = {UpgradeItemPriceForSecondDisk(k.upgrade, r.size, r.local)} \ {NoPrice}
  PROVE  DiskFits(o, r, ToSet(k.upgrade))
<1> DEFINE prices     == k.upgrade
           disks      == SecondDisks(prices, r.size, r.local)
           capacities == {prices[i].capacity : i \in disks}
           smallest   == Min(capacities)
           equal      == {i \in disks : prices[i].capacity = smallest}
           p          == UpgradeItemPriceForSecondDisk(prices, r.size, r.local)
<1>1. /\ Len(prices) \in Nat /\ DOMAIN prices = 1..Len(prices)
      /\ \A i \in DOMAIN prices : prices[i].capacity \in Nat
  BY CatalogueAssumption DEF ToSet
<1>2. \A i \in disks : /\ i \in DOMAIN prices /\ "guest_disk1" \in prices[i].cats
                       /\ prices[i].local = r.local /\ prices[i].capacity >= r.size
  BY DEF SecondDisks
<1>3. CASE disks = {}
  <2>1. p = NoPrice
    BY <1>3 DEF UpgradeItemPriceForSecondDisk
  <2>2. o.prices \ {NoPrice} = {}
    BY <2>1
  <2> HIDE DEF p, disks, prices
  <2> QED BY <2>2 DEF DiskFits
<1>4. CASE disks # {}
  <2>1. p = prices[Max(equal)]
    BY <1>4 DEF UpgradeItemPriceForSecondDisk
  <2>2. capacities \subseteq Nat /\ capacities # {}
    BY <1>1, <1>2, <1>4
  <2>3. smallest \in capacities /\ \A n \in capacities : smallest <= n
    <3> HIDE DEF capacities
    <3> QED BY <2>2, LeastOf
  <2>4. equal \subseteq 0..Len(prices) /\ equal # {}
    <3>1. \A i \in DOMAIN prices : i \in 0..Len(prices)
      BY <1>1
    <3>2. \A i \in equal : i \in disks
      OBVIOUS
    <3>3. PICK i \in disks : smallest = prices[i].capacity
      BY <2>3
    <3>4. i \in equal
      BY <3>3
    <3> HIDE DEF equal, disks, smallest
    <3> QED BY <1>2, <3>1, <3>2, <3>4
  <2>5. Max(equal) \in equal
    <3> HIDE DEF equal
    <3> QED BY <1>1, <2>4, GreatestOf
  <2>6. Max(equal) \in disks /\ p.capacity = smallest
    BY <2>1, <2>5
  <2>7. \A q \in ToSet(prices) :
          "guest_disk1" \in q.cats /\ q.local = r.local /\ q.capacity >= r.size
             => q.capacity \in capacities
    BY DEF ToSet, SecondDisks
  <2>8. o.prices \subseteq {p}
    OBVIOUS
  <2> HIDE DEF p, capacities, smallest, equal, disks
  <2> QED BY <1>2, <2>1, <2>3, <2>6, <2>7, <2>8 DEF DiskFits
<1> QED BY <1>3, <1>4

\* What an upgrade chooses for an option is one price, offered, and right
\* for it.
LEMMA ChosenPrice ==
  ASSUME NEW k \in Catalogues, NEW options, NEW privateCPU, NEW dedicated,
         NEW c \in DOMAIN options
  PROVE  LET chosen     == SelectProductPrices(k.upgrade, options, privateCPU, dedicated)
             Right(p)   == /\ c \in p.cats /\ p.capacity = options[c]
                           /\ RightKind(p, c, privateCPU, dedicated)
         IN  /\ DOMAIN chosen \subseteq DOMAIN options
             /\ c \in DOMAIN chosen => chosen[c] \in ToSet(k.upgrade) /\ Right(chosen[c])
             /\ (\E p \in ToSet(k.upgrade) : Right(p)) => c \in DOMAIN chosen
<1> DEFINE prices  == k.upgrade
           offered == Offers(prices, c, options[c], privateCPU, dedicated)
           chosen  == SelectProductPrices(prices, options, privateCPU, dedicated)
<1>1. /\ DOMAIN chosen \subseteq DOMAIN options
      /\ c \in DOMAIN chosen <=> offered # {}
      /\ c \in DOMAIN chosen => chosen[c] = prices[Min(offered)]
  BY DEF SelectProductPrices
<1>2. offered \subseteq DOMAIN prices /\ DOMAIN prices \subseteq Nat
  BY CatalogueAssumption DEF Offers
<1>3. offered # {} => Min(offered) \in offered
  <2> HIDE DEF offered, prices
  <2> QED BY <1>2, LeastOf
<1>4. \A i \in offered : /\ prices[i] \in ToSet(prices)
                         /\ c \in prices[i].cats /\ prices[i].capacity = options[c]
                         /\ RightKind(prices[i], c, privateCPU, dedicated)
  BY DEF Offers, ToSet
<1>5. ASSUME NEW p \in ToSet(prices), c \in p.cats, p.capacity = options[c],
             RightKind(p, c, privateCPU, dedicated)
      PROVE  offered # {}
  BY <1>5 DEF Offers, ToSet
<1> HIDE DEF offered, chosen, prices
<1> QED BY <1>1, <1>3, <1>4, <1>5 DEF chosen, prices

\* The order for another configuration fits.
LEMMA ConfigOrderFits ==
  ASSUME NEW k \in Catalogues, NEW r, r.memory \in Nat, NEW o,
         LET chosen == SelectProductPrices(k.upgrade, UpgradeOptions(r.cpu, r.memory, 0),
                                           r.private, r.dedicated)
         IN  o.prices = {chosen[c] : c \in DOMAIN chosen}
  PROVE  ConfigFits(o, r, ToSet(k.upgrade))
<1> DEFINE options == UpgradeOptions(r.cpu, r.memory, 0)
           chosen  == SelectProductPrices(k.upgrade, options, r.private, r.dedicated)
           Option(c)  == IF c = "ram" THEN r.memory \div 1024 ELSE r.cpu
           Amount(c)  == IF c = "ram" THEN r.memory ELSE r.cpu
           Chosen(c, p) == /\ c \in p.cats /\ p.capacity = Option(c) /\ p.dedicated = r.dedicated
                           /\ (c = "guest_core" => p.private = r.private)
           Fits(c, p) == /\ c \in p.cats /\ p.capacity * Unit(c) = Amount(c)
                         /\ p.dedicated = r.dedicated
                         /\ (c = "guest_core" => p.private = r.private)
<1>1. /\ DOMAIN options \subseteq {"guest_core", "ram"}
      /\ \A c \in DOMAIN options : options[c] = Option(c)
      /\ "guest_core" \in DOMAIN options <=> r.cpu # 0
      /\ "ram" \in DOMAIN options <=> r.memory # 0
  BY DEF UpgradeOptions
<1>2. \A p : \A c \in {"guest_core", "ram"} :
        c \in p.cats /\ p.capacity = Option(c) /\ RightKind(p, c, r.private, r.dedicated)
          <=> Chosen(c, p)
  <2> SUFFICES ASSUME NEW p, NEW c \in {"guest_core", "ram"}
      PROVE  RightKind(p, c, r.private, r.dedicated) <=>
               p.dedicated = r.dedicated /\ (c = "guest_core" => p.private = r.private)
    OBVIOUS
  <2>1. CASE c = "guest_core"
    BY <2>1 DEF RightKind
  <2>2. CASE c = "ram"
    BY <2>2 DEF RightKind
  <2> QED BY <2>1, <2>2
<1>3. \A c \in {"guest_core", "ram"} : Amount(c) # 0 => c \in DOMAIN options
  BY <1>1
<1>4. \A c \in DOMAIN options :
        /\ c \in DOMAIN chosen => chosen[c] \in ToSet(k.upgrade) /\ Chosen(c, chosen[c])
        /\ (\E p \in ToSet(k.upgrade) : Chosen(c, p)) => c \in DOMAIN chosen
        /\ DOMAIN chosen \subseteq DOMAIN options
  <2> SUFFICES ASSUME NEW c \in DOMAIN options
      PROVE  /\ c \in DOMAIN chosen => chosen[c] \in ToSet(k.upgrade) /\ Chosen(c, chosen[c])
             /\ (\E p \in ToSet(k.upgrade) : Chosen(c, p)) => c \in DOMAIN chosen
             /\ DOMAIN chosen \subseteq DOMAIN options
    OBVIOUS
  <2>1. c \in {"guest_core", "ram"} /\ options[c] = Option(c)
    BY <1>1
  <2> HIDE DEF options, Option, Chosen
  <2> QED BY <1>2, <2>1, ChosenPrice
<1>5. DOMAIN chosen \subseteq DOMAIN options
  <2> HIDE DEF options
  <2> QED BY DEF SelectProductPrices
<1>6. \A p \in ToSet(k.upgrade) :
        p.capacity \in Nat \ {0} /\ ~({"guest_core", "ram"} \subseteq p.cats)
  BY CatalogueAssumption
<1>7. o.prices = {chosen[c] : c \in DOMAIN chosen}
  OBVIOUS
<1> SUFFICES ASSUME NEW c \in {"guest_core", "ram"}, Amount(c) % Unit(c) = 0
    PROVE  /\ \A p \in o.prices : c \in p.cats => Amount(c) # 0 /\ Fits(c, p)
           /\ Amount(c) # 0 /\ (\E p \in ToSet(k.upgrade) : Fits(c, p)) =>
                 Cardinality({p \in o.prices : c \in p.cats}) = 1
  BY DEF ConfigFits
\* Of whole gigabytes, the option is what was asked for.
<1>a. ASSUME NEW p \in ToSet(k.upgrade) PROVE Chosen(c, p) <=> Fits(c, p)
  <2>1. p.capacity \in Nat
    BY <1>6
  <2>2. CASE c = "ram"
    <3>1. r.memory % 1024 = 0
      BY <2>2 DEF Unit
    <3>2. p.capacity = r.memory \div 1024 <=> p.capacity * 1024 = r.memory
      BY <2>1, <3>1
    <3> QED BY <2>2, <3>2 DEF Unit
  <2>3. CASE c = "guest_core"
    <3>1. p.capacity * 1 = p.capacity
      BY <2>1
    <3> QED BY <2>3, <3>1 DEF Unit
  <2> QED BY <2>2, <2>3
<1> HIDE DEF options, chosen
\* A price for c was chosen for c, because it is for nothing else.
<1>8. ASSUME NEW p \in o.prices, c \in p.cats
      PROVE  c \in DOMAIN chosen /\ p = chosen[c] /\ Fits(c, p) /\ Amount(c) # 0
  <2>1. PICK b \in DOMAIN chosen : p = chosen[b]
    BY <1>7
  <2>2. b \in DOMAIN options /\ p \in ToSet(k.upgrade) /\ Chosen(b, p)
    BY <1>4, <1>5, <2>1
  <2>3. b \in {"guest_core", "ram"}
    BY <1>1, <2>2
  <2>4. b = c
    BY <1>6, <1>8, <2>2, <2>3
  <2>5. Fits(c, p)
    BY <1>a, <2>2, <2>4
  <2>6. Amount(c) # 0
    <3>1. p.capacity = Option(c) /\ p.capacity # 0
      BY <1>6, <2>2, <2>4
    <3>2. r.memory = 0 => r.memory \div 1024 = 0
      OBVIOUS
    <3> QED BY <3>1, <3>2
  <2> QED BY <2>1, <2>2, <2>4, <2>5, <2>6
<1>9. ASSUME Amount(c) # 0, \E p \in ToSet(k.upgrade) : Fits(c, p)
      PROVE  Cardinality({p \in o.prices : c \in p.cats}) = 1
  <2>1. c \in DOMAIN options
    BY <1>3, <1>9
  <2>2. c \in DOMAIN chosen /\ c \in chosen[c].cats
    BY <1>4, <1>9, <1>a, <2>1
  <2>3. {p \in o.prices : c \in p.cats} = {chosen[c]}
    BY <1>7, <1>8, <2>2
  <2> QED BY <2>3, FS_Singleton
<1> QED BY <1>8, <1>9

-----------------------------------------------------------------------------
(* Every order fits.                                                       *)

\* Only two steps have an order, each in the programs of its own calls.
LEMMA WhoseOrder ==
  ASSUME GuestInv, Active
  PROVE  /\ step = "upgrade" => asked.op \in {"disk", "config"}
         /\ step = "placeVolume" => asked.op = "volume"
<1>1. PICK k \in DOMAIN Program(asked.op) : step = Program(asked.op)[k]
  BY DEF GuestInv, Stage
<1>2. asked.op \in Ops
  BY AskedOp DEF GuestInv
<1>3. CASE asked.op \in {"create", "reload", "edit", "cancel"}
  BY <1>1, <1>3 DEF Program
<1>4. CASE asked.op \in {"disk", "config", "volume", "snapshot", "authorize", "deauthorize"}
  BY <1>1, <1>4 DEF Program
<1> QED BY <1>2, <1>3, <1>4 DEF Ops

\* What an upgrade orders fits the request it is for.
LEMMA UpgradeOrderFits ==
  ASSUME NEW k \in Catalogues, NEW r, r.op \in {"disk", "config"},
         r.op = "config" => r.memory \in Nat,
         NEW o, o.prices = UpgradePrices(r, k.upgrade)
  PROVE  /\ r.op = "disk" => DiskFits(o, r, ToSet(k.upgrade))
         /\ r.op = "config" => ConfigFits(o, r, ToSet(k.upgrade))
<1>1. CASE r.op = "disk"
  <2>1. o.prices = {UpgradeItemPriceForSecondDisk(k.upgrade, r.size, r.local)} \ {NoPrice}
    BY <1>1 DEF UpgradePrices
  <2> QED BY <1>1, <2>1, DiskOrderFits
<1>2. CASE r.op = "config"
  <2> DEFINE chosen == SelectProductPrices(k.upgrade, UpgradeOptions(r.cpu, r.memory, 0),
                                           r.private, r.dedicated)
  <2>1. o.prices = {chosen[c] : c \in DOMAIN chosen}
    BY <1>2 DEF UpgradePrices
  <2> QED BY <1>2, <2>1, ConfigOrderFits
<1> QED BY <1>1, <1>2

\* UpgradePrices itself never answers an empty price.
LEMMA NoPriceChosen ==
  ASSUME NEW k \in Catalogues, NEW r, r.op \in {"disk", "config"}
  PROVE  NoPrice \notin UpgradePrices(r, k.upgrade)
<1>1. CASE r.op = "disk"
  BY <1>1 DEF UpgradePrices
<1>2. CASE r.op = "config"
  <2> DEFINE options == UpgradeOptions(r.cpu, r.memory, 0)
             chosen  == SelectProductPrices(k.upgrade, options, r.private, r.dedicated)
  <2>1. UpgradePrices(r, k.upgrade) = {chosen[c] : c \in DOMAIN chosen}
    BY <1>2 DEF UpgradePrices
  <2>2. DOMAIN chosen \subseteq DOMAIN options
    <3> HIDE DEF options
    <3> QED BY DEF SelectProductPrices
  <2>3. \A c \in DOMAIN chosen : chosen[c] \in ToSet(k.upgrade)
    <3> HIDE DEF options
    <3> QED BY <2>2, ChosenPrice
  <2>4. NoPrice \notin ToSet(k.upgrade)
    BY CatalogueAssumption
  <2> HIDE DEF chosen
  <2> QED BY <2>1, <2>3, <2>4
<1> QED BY <1>1, <1>2

\* The prices and the plan are given.
Given == plan \in Plans /\ catalogue \in Catalogues
Fits  == Given /\ OrdersFit

\* An order fits by its prices alone.
LEMMA SamePricesFit ==
  ASSUME NEW o, NEW q, q.prices = o.prices, NEW r, NEW offered
  PROVE  /\ VolumeFits(o, r) => VolumeFits(q, r)
         /\ DiskFits(o, r, offered) => DiskFits(q, r, offered)
         /\ ConfigFits(o, r, offered) => ConfigFits(q, r, offered)
<1>1. VolumeFits(o, r) => VolumeFits(q, r)
  BY DEF VolumeFits
<1>2. DiskFits(o, r, offered) => DiskFits(q, r, offered)
  BY DEF DiskFits
<1>3. ConfigFits(o, r, offered) => ConfigFits(q, r, offered)
  <2> SUFFICES ASSUME ConfigFits(o, r, offered), NEW c \in {"guest_core", "ram"}
               PROVE  ConfigFits(q, r, offered)!(c)
    BY Zenon DEF ConfigFits
  <2> DEFINE amount  == IF c = "ram" THEN r.memory ELSE r.cpu
             fits(p) == c \in p.cats /\ p.capacity * Unit(c) = amount /\ p.dedicated = r.dedicated
                        /\ (c = "guest_core" => p.private = r.private)
             whole   == amount % Unit(c) = 0
  <2>1. whole => \A p \in o.prices : c \in p.cats => amount # 0 /\ fits(p)
    BY ZenonT(60) DEF ConfigFits
  <2>2. whole => (amount # 0 /\ (\E p \in offered : fits(p)) =>
           Cardinality({p \in o.prices : c \in p.cats}) = 1)
    BY ZenonT(60) DEF ConfigFits
  <2> HIDE DEF amount, whole
  <2>3. whole => \A p \in q.prices : c \in p.cats => amount # 0 /\ fits(p)
    BY <2>1
  <2>4. {p \in o.prices : c \in p.cats} = {p \in q.prices : c \in p.cats}
    OBVIOUS
  <2> HIDE DEF fits
  <2>5. whole => (amount # 0 /\ (\E p \in offered : fits(p)) =>
           Cardinality({p \in q.prices : c \in p.cats}) = 1)
    BY <2>2, <2>4, Zenon
  <2> USE DEF amount, fits, whole
  <2> QED BY <2>3, <2>5, Zenon
<1> QED BY <1>1, <1>2, <1>3

\* A step that leaves the requests and the prices of all orders as they are.
LEMMA SameOrdersFit ==
  ASSUME Fits, UNCHANGED <<plan, catalogue>>, DOMAIN orders' = DOMAIN orders,
         \A i \in DOMAIN orders : /\ orders'[i].by = orders[i].by
                                  /\ orders'[i].prices = orders[i].prices
                                  /\ orders'[i].gone = orders[i].gone
  PROVE  Fits'
<1>1. ASSUME NEW i \in DOMAIN orders PROVE OrderFits(orders[i])'
  <2>1. OrderFits(orders[i])
    BY DEF Fits, OrdersFit
  <2>2. /\ orders'[i].by = orders[i].by /\ orders'[i].prices = orders[i].prices
        /\ orders'[i].gone = orders[i].gone
    OBVIOUS
  <2>3. plan' = plan /\ catalogue' = catalogue
    OBVIOUS
  <2> QED BY <2>1, <2>2, <2>3, SamePricesFit DEF OrderFits
<1> QED BY <1>1 DEF Fits, Given, OrdersFit

\* A step that places an order that fits.
LEMMA NextOrderFits ==
  ASSUME GuestInv, Fits, UNCHANGED <<plan, catalogue, call>>, NEW prices, orders' = Taken(prices),
         LET o == [by |-> call, prices |-> prices, status |-> "open", work |-> "waiting",
               gone |-> ~guest.exists]
         IN  OrderFits(o)
  PROVE  Fits'
<1> DEFINE o == [by |-> call, prices |-> prices, status |-> "open", work |-> "waiting",
               gone |-> ~guest.exists]
<1>1. /\ Len(orders) \in Nat
      /\ DOMAIN orders = 1..Len(orders) /\ DOMAIN orders' = 1..(Len(orders) + 1)
      /\ \A i \in 1..Len(orders) : orders'[i] = orders[i]
      /\ orders'[Len(orders) + 1] = o
  BY OrderAdded
<1>2. OrderFits(o)
  OBVIOUS
<1>3. ASSUME NEW i \in DOMAIN orders' PROVE OrderFits(orders[i])'
  <2>1. i \in DOMAIN orders \/ i = Len(orders) + 1
    BY <1>1
  <2>2. OrderFits(orders'[i])
    BY <1>1, <1>2, <2>1 DEF Fits, OrdersFit
  <2>3. orders'[i] = orders[i]' /\ plan' = plan /\ catalogue' = catalogue
    OBVIOUS
  <2> QED BY <2>2, <2>3 DEF OrderFits, VolumeFits, DiskFits, ConfigFits
<1> QED BY <1>3 DEF Fits, Given, OrdersFit

\* UpgradeInstance orders what UpgradePrices chose for the call's request.
LEMMA UpgradeFits == ASSUME GuestInv, Fits, UpgradeInstance PROVE Fits'
<1>1. Active /\ step = "upgrade" /\ UNCHANGED <<plan, catalogue, call>>
  BY DEF UpgradeInstance, PlaceUpgrade, Advance, Fail, Goto, Active, Ended
<1>2. UNCHANGED orders
        \/ \E prices \in UpgradeChoices(asked, catalogue.upgrade) : orders' = Taken(prices)
  BY DEF UpgradeInstance, PlaceUpgrade
<1>3. /\ asked.op \in {"disk", "config"} /\ asked = plan[call]
      /\ asked.op = "config" => asked.memory \in Nat
  <2>1. asked.op \in {"disk", "config"} /\ asked = plan[call] /\ call \in DOMAIN plan
    BY <1>1, WhoseOrder, AskedOp DEF asked, GuestInv
  <2> QED BY <2>1, TransactionAssumption DEF Fits, Given
<1>4. CASE UNCHANGED orders
  BY <1>1, <1>4, SameOrdersFit
<1>5. ASSUME NEW prices \in UpgradeChoices(asked, catalogue.upgrade), orders' = Taken(prices)
      PROVE  Fits'
  <2> DEFINE o == [by |-> call, prices |-> prices, status |-> "open", work |-> "waiting",
                   gone |-> ~guest.exists]
  <2>1. o.prices = prices /\ o.by = call /\ o.gone = ~guest.exists
    OBVIOUS
  <2>2. OrderFits(o)
    <3> HIDE DEF o
    <3>1. CASE prices = UpgradePrices(asked, catalogue.upgrade)
      <4>1. NoPrice \notin prices
        BY <1>3, <3>1, NoPriceChosen DEF Fits, Given
      <4> QED BY <1>3, <2>1, <3>1, <4>1, UpgradeOrderFits DEF OrderFits, Fits, Given
    <3>2. CASE prices = {NoPrice} /\ asked.op = "disk" /\ ~guest.exists
      BY <1>3, <2>1, <3>2 DEF OrderFits, DiskFits
    <3> QED BY <1>5, <3>1, <3>2 DEF UpgradeChoices
  <2> HIDE DEF o
  <2> QED BY <1>1, <1>5, <2>2, NextOrderFits DEF o
<1> QED BY <1>2, <1>4, <1>5

\* CreateVolume orders the prices it found, when none is missing.
LEMMA PlaceVolumeFits == ASSUME GuestInv, Fits, PlaceVolumeOrder PROVE Fits'
<1>1. Active /\ step = "placeVolume" /\ UNCHANGED <<plan, catalogue, call>>
  BY DEF PlaceVolumeOrder, Advance, Fail, Goto, Active, Ended
<1>2. asked.op = "volume" /\ asked = plan[call] /\ {asked.size, asked.iops, asked.space} \subseteq Nat
  <2>1. asked.op = "volume" /\ asked = plan[call] /\ call \in DOMAIN plan
    BY <1>1, WhoseOrder, AskedOp DEF asked, GuestInv
  <2> QED BY <2>1, TransactionAssumption DEF Fits, Given
<1>3. PICK prices \in CreateVolumePrices(catalogue.performance, catalogue.saas,
                          GetSoftLayerDiskSize(asked.size), asked.iops, asked.space) :
         UNCHANGED orders \/ (Complete(prices) /\ orders' = Taken(ToSet(prices)))
  BY DEF PlaceVolumeOrder
<1>4. CASE UNCHANGED orders
  BY <1>1, <1>4, SameOrdersFit
<1>5. CASE Complete(prices) /\ orders' = Taken(ToSet(prices))
  <2> DEFINE o == [by |-> call, prices |-> ToSet(prices), status |-> "open", work |-> "waiting",
               gone |-> ~guest.exists]
  <2>1. OrderFits(o)
    <3>1. o.prices = ToSet(prices) /\ o.by = call
      OBVIOUS
    <3> HIDE DEF o
    <3>2. VolumeFits(o, asked)
      BY <1>2, <1>5, <3>1, VolumeOrderFits DEF Fits, Given
    <3>3. NoPrice \notin o.prices
      BY <1>5, <3>1 DEF Complete, ToSet
    <3> QED BY <1>2, <3>1, <3>2, <3>3 DEF OrderFits
  <2> QED BY <1>1, <1>5, <2>1, NextOrderFits
<1> QED BY <1>3, <1>4, <1>5

\* What SoftLayer does with an order leaves its request and its prices.
LEMMA OtherStepsFit ==
  ASSUME GuestInv, Fits, [Next]_vars, ~UpgradeInstance, ~PlaceVolumeOrder
  PROVE  Fits'
<1> USE DEF Advance, Fail, Goto, Sleep, SleepOrTimeOut, cloud, quiet, process
<1>1. CASE UNCHANGED <<plan, catalogue, orders>>
  BY <1>1, SameOrdersFit
<1>2. CASE EndTransaction
  <2>1. /\ UNCHANGED <<plan, catalogue>> /\ DOMAIN orders' = DOMAIN orders
        /\ \A i \in DOMAIN orders : /\ orders'[i].by = orders[i].by
                                    /\ orders'[i].prices = orders[i].prices
                                    /\ orders'[i].gone = orders[i].gone
    <3>1. UNCHANGED <<plan, catalogue>> /\ DOMAIN orders' = DOMAIN orders
      BY <1>2 DEF EndTransaction
    <3>2. ASSUME NEW i \in DOMAIN orders
          PROVE  /\ orders'[i].by = orders[i].by /\ orders'[i].prices = orders[i].prices
                 /\ orders'[i].gone = orders[i].gone
      <4>1. orders'[i] = orders[i] \/ orders'[i] = [orders[i] EXCEPT !.work = "done"]
        BY <1>2 DEF EndTransaction
      <4>2. IsOrder(orders[i])
        BY DEF GuestInv, Orders
      <4> QED BY <4>1, <4>2 DEF IsOrder
    <3> QED BY <3>1, <3>2
  <2> QED BY <2>1, SameOrdersFit
<1>3. ASSUME NEW n \in DOMAIN orders, CompleteOrder(n) \/ ProvisionVolume(n) PROVE Fits'
  <2>1. UNCHANGED <<plan, catalogue>> /\ DOMAIN orders' = DOMAIN orders
    BY <1>3 DEF CompleteOrder, ProvisionVolume
  <2>2. ASSUME NEW i \in DOMAIN orders
        PROVE  /\ orders'[i].by = orders[i].by /\ orders'[i].prices = orders[i].prices
               /\ orders'[i].gone = orders[i].gone
    <3>1. \/ orders'[i] = orders[i]
          \/ orders'[i] = [orders[i] EXCEPT !.work = "done"]
          \/ orders'[i] = [orders[i] EXCEPT !.status = "COMPLETED"]
      BY <1>3 DEF CompleteOrder, ProvisionVolume
    <3>2. IsOrder(orders[i])
      BY DEF GuestInv, Orders
    <3> QED BY <3>1, <3>2 DEF IsOrder
  <2> QED BY <2>1, <2>2, SameOrdersFit
<1>4. CASE Begin \/ Crash \/ AllDone \/ UNCHANGED vars
  <2>1. UNCHANGED <<plan, catalogue, orders>>
    BY <1>4 DEF Begin, Crash, AllDone, vars
  <2> QED BY <1>1, <2>1
<1>5. CASE \/ BeginReload \/ ShowReload \/ BeginUpgrade \/ BeginOther \/ Vanish
           \/ BlockVolume \/ UnblockVolume
  <2>1. UNCHANGED <<plan, catalogue, orders>>
    BY <1>5 DEF BeginReload, ShowReload, BeginUpgrade, BeginOther, Vanish, BlockVolume,
         UnblockVolume
  <2> QED BY <1>1, <2>1
<1>6. CASE CreateObject \/ SetUserData \/ ReloadOS \/ EditObject \/ DeleteObject
  <2>1. UNCHANGED <<plan, catalogue, orders>>
    BY <1>6 DEF CreateObject, SetUserData, ReloadOS, EditObject, DeleteObject
  <2> QED BY <1>1, <2>1
<1>7. CASE \/ WaitInstanceUntilReady \/ WaitInstanceUntilReadyWithTicket
           \/ WaitInstanceHasActiveTransaction \/ WaitInstanceHasNoneActiveTransaction
           \/ WaitToCancel \/ WaitOrderCompleted \/ WaitVolumeProvisioning
  <2>1. UNCHANGED <<plan, catalogue, orders>>
    BY <1>7 DEF WaitInstanceUntilReady, WaitInstanceUntilReadyWithTicket,
         WaitInstanceHasActiveTransaction, WaitInstanceHasNoneActiveTransaction,
         WaitToCancel, WaitOrderCompleted, WaitVolumeProvisioning, Poll
  <2> QED BY <1>1, <2>1
<1>8. CASE CreateSnapshot \/ AuthorizeHost \/ ReadAllowedGuests \/ DeauthorizeHost
  <2>1. UNCHANGED <<plan, catalogue, orders>>
    BY <1>8 DEF CreateSnapshot, AuthorizeHost, ReadAllowedGuests, DeauthorizeHost, SetAccess
  <2> QED BY <1>1, <2>1
<1> QED BY <1>2, <1>3, <1>4, <1>5, <1>6, <1>7, <1>8 DEF Next, CallStep

\* Whatever the plan, and whatever SoftLayer lists within CatalogueAssumption,
\* every order that is placed fits the request it was placed for.
THEOREM OrdersFitRequests == Spec => []OrdersFit
<1>1. Init => Fits
  BY DEF Init, Fits, Given, OrdersFit
<1>2. GuestInv /\ Fits /\ [Next]_vars => Fits'
  BY UpgradeFits, PlaceVolumeFits, OtherStepsFit
<1>3. Fits => OrdersFit
  BY DEF Fits
<1> QED BY <1>1, <1>2, <1>3, GuestInductive, PTL DEF Spec
=============================================================================

------------------------- MODULE GuestTransactions --------------------------
(***************************************************************************)
(* The client manager's calls that work on one guest or order something:   *)
(* each is a program of requests and of waits that poll SoftLayer up to a  *)
(* deadline, while SoftLayer runs transactions of its own on the guest.    *)
(* The calls come one after the other, as the director makes them.         *)
(***************************************************************************)
EXTENDS Prices, FiniteSets

CONSTANTS
    Plans,       \* what is asked: sequences of requests, records with the field op
    Catalogues,  \* [upgrade, performance, saas]: the prices SoftLayer may list
    Polls,       \* Polls[step]: the sleeps that fit before the step's deadline
    MaxOther,    \* bound: what SoftLayer does on its own account
    PlaceAttempts,
    MayFail      \* steps whose request may err, with or without its effect

Ops == {"create", "reload", "edit", "cancel", "disk", "config", "volume", "snapshot",
        "authorize", "deauthorize"}

ASSUME TransactionAssumption ==
    /\ MaxOther \in Nat /\ PlaceAttempts \in Nat \ {0}
    /\ None \notin {"provision", "reload", "upgrade", "other", "RECLAIM_WAIT"}
    /\ {None, Garbled} \cap Nat = {}
    /\ "reloadOS" \in DOMAIN Polls /\ \A s \in DOMAIN Polls : Polls[s] \in Nat
    /\ \A p \in Plans : /\ Len(p) \in Nat /\ DOMAIN p = 1..Len(p)
                        /\ \A i \in DOMAIN p :
                              /\ p[i].op \in Ops
                              /\ p[i].op = "volume" =>
                                    {p[i].size, p[i].iops, p[i].space} \subseteq Nat
                              /\ p[i].op = "config" => p[i].memory \in Nat

\* What the code takes for granted of SoftLayer's prices: a price has the
\* capacity of its item, a range of capacities ends with it, and a price of
\* an upgrade is for something, and not for cpu and memory at once.
ASSUME CatalogueAssumption ==
    \A k \in Catalogues :
        /\ Len(k.upgrade) \in Nat /\ DOMAIN k.upgrade = 1..Len(k.upgrade)
        /\ \A p \in ToSet(k.upgrade) :
              /\ p # NoPrice /\ p.capacity \in Nat \ {0}
              /\ ~({"guest_core", "ram"} \subseteq p.cats)
        /\ \A package \in {k.performance, k.saas} : \A i \in DOMAIN package :
              /\ i \in Nat /\ DOMAIN package[i].prices \subseteq Nat
              /\ package[i].capacity \in Nat
              /\ package[i].hi \in {None, Garbled} \cup 0..package[i].capacity
              /\ \A p \in ToSet(package[i].prices) :
                    p.capacity = package[i].capacity /\ p.hi \in Nat \cup {Garbled}

VARIABLES
    guest,      \* the guest at SoftLayer
    volume,     \* the volume at SoftLayer
    orders,     \* the orders SoftLayer took
    others,     \* how often SoftLayer acted on its own account
    catalogue,  \* the prices SoftLayer lists
    plan,       \* the calls to make, one after the other
    call,       \* the one under way or ended last, 0 before the first
    step,       \* where it is, or how it ended
    left,       \* sleeps left before the deadline of its wait
    reloadLeft, \* the same for the ten seconds of ReloadInstance
    order,      \* the order the call waits for, 0 for none
    idless,     \* receipts without an order id it got
    alone       \* only its own transactions ran meanwhile, and no edit was declined

cloud == <<guest, volume, orders, others, catalogue, plan>>
vars  == <<guest, volume, orders, others, catalogue, plan, call, step, left,
           reloadLeft, order, idless, alone>>

Program(op) ==
    CASE op = "create"   -> <<"createObject", "userData", "ready", "idleAfter">>
      [] op = "reload"   -> <<"userData", "idle", "reloadOS", "begun", "readyHalf",
                              "readyRest", "edit", "ready">>
      [] op = "edit"     -> <<"edit", "ready">>
      [] op = "cancel"   -> <<"idleToCancel", "delete">>
      [] op \in {"disk", "config"} -> <<"idle", "upgrade", "completed", "ready">>
      [] op = "volume"   -> <<"placeVolume", "awaitVolume">>
      [] op = "snapshot" -> <<"snapshot">>
      [] op = "authorize"   -> <<"authorize">>
      [] op = "deauthorize" -> <<"readAllowed", "deauthorize">>

Ended  == {"idle?", "finished", "failed", "crashed"}
Active == step \notin Ended
asked  == plan[call]

\* Waits that go on under the deadline of the wait before them.
Carried == {"readyRest", "idleAfter"}

StepAfter ==
    LET prog == Program(asked.op)
        i    == CHOOSE i \in DOMAIN prog : prog[i] = step
    IN  IF i = Len(prog) THEN "finished" ELSE prog[i + 1]

Goto(s) ==
    /\ step' = s
    /\ left' = CASE s \in Carried -> left
                 [] s = "reloadOS" -> reloadLeft
                 [] s \in DOMAIN Polls \ (Carried \cup {"reloadOS"}) -> Polls[s]
                 [] OTHER -> 0
    /\ UNCHANGED call
Advance == Goto(StepAfter) /\ UNCHANGED reloadLeft
Fail    == Goto("failed") /\ UNCHANGED reloadLeft
Refuses == step \in MayFail
Disturb == alone' = FALSE

\* Not yet: sleep, unless "now" is past the deadline.  A sleep also uses up
\* the ten seconds that ReloadInstance set aside when it began.
SleepForever == UNCHANGED <<call, step, left, reloadLeft>>    \* no deadline kept
Sleep ==
    /\ left > 0
    /\ left' = left - 1
    /\ reloadLeft' = IF step = "userData" \/ reloadLeft = 0 THEN 0 ELSE reloadLeft - 1
    /\ UNCHANGED <<call, step>>
SleepOrTimeOut == Sleep \/ (left = 0 /\ Fail)

\* A guest of an earlier call, or none yet.
NewGuest(image) ==
    [exists |-> image # None, provisioned |-> image # None, hung |-> FALSE, shown |-> FALSE,
     active |-> None, pending |-> None, image |-> image, host |-> 0, data |-> 0]

Init ==
    /\ plan \in Plans
    /\ guest = NewGuest(IF plan[1].op = "create" THEN None ELSE "first")
    /\ volume = [busy |-> FALSE, allowed |-> FALSE]
    /\ orders = <<>>
    /\ others = 0
    /\ catalogue \in Catalogues
    /\ call = 0
    /\ step = "idle?"
    /\ left = 0 /\ reloadLeft = 0 /\ order = 0 /\ idless = 0
    /\ alone = TRUE

\* The next call begins when the one before ended or died.
Begin ==
    /\ ~Active /\ call < Len(plan)
    /\ call' = call + 1
    /\ LET first == Program(plan[call'].op)[1] IN
          /\ step' = first
          /\ left' = IF first \in DOMAIN Polls THEN Polls[first] ELSE 0
    /\ reloadLeft' = IF plan[call'].op = "reload" THEN Polls["reloadOS"] ELSE 0
    /\ order' = 0 /\ idless' = 0
    /\ alone' = (guest.active = None /\ guest.pending = None
                   /\ \A i \in DOMAIN orders : orders[i].work = "done")
    /\ UNCHANGED cloud

-----------------------------------------------------------------------------
(* Requests.  One that errs may have had its effect.                       *)

CreateObject ==
    /\ step = "createObject"
    /\ \/ /\ guest' = [guest EXCEPT !.exists = TRUE, !.provisioned = FALSE, !.hung = FALSE,
                                    !.active = "provision", !.image = asked.image]
          /\ Advance \/ (Refuses /\ Fail)
       \/ Refuses /\ Fail /\ UNCHANGED guest
    /\ UNCHANGED <<volume, orders, others, catalogue, plan, order, idless, alone>>

\* SetUserDataWithID: a guest not found, or metadata "not implemented", is
\* tried again every 30 s; every other error ends it.
SetUserData ==
    /\ step = "userData"
    /\ \/ guest.exists /\ guest' = [guest EXCEPT !.data = call] /\ Advance
       \/ (~guest.exists \/ Refuses) /\ SleepOrTimeOut /\ UNCHANGED guest
       \/ Refuses /\ Fail /\ UNCHANGED guest
    /\ UNCHANGED <<volume, orders, others, catalogue, plan, order, idless, alone>>

\* reloadOperatingSystemWithConfig: an "Internal Error" in the answer is
\* tried again, until ten seconds after ReloadInstance was called.
ReloadOS ==
    /\ step = "reloadOS"
    /\ \/ /\ guest.exists
          /\ guest' = [guest EXCEPT !.pending = asked.image]
          /\ Advance \/ (Refuses /\ Fail)
       \/ Refuses /\ SleepOrTimeOut /\ UNCHANGED guest
       \/ (~guest.exists \/ Refuses) /\ Fail /\ UNCHANGED guest
    /\ UNCHANGED <<volume, orders, others, catalogue, plan, order, idless, alone>>

\* EditInstance, without its wait.  An answer FALSE is taken for TRUE.
EditObject ==
    /\ step = "edit"
    /\ \/ guest.exists /\ guest' = [guest EXCEPT !.host = call] /\ Advance /\ UNCHANGED alone
       \/ guest.exists /\ Refuses /\ Advance /\ UNCHANGED guest /\ Disturb
       \/ (~guest.exists \/ Refuses) /\ Fail /\ UNCHANGED <<guest, alone>>
    /\ UNCHANGED <<volume, orders, others, catalogue, plan, order, idless>>

\* DeleteObject answers TRUE, FALSE or an error.
DeleteObjectUnchecked ==    \* FALSE taken for TRUE
    /\ step = "delete" /\ Advance
    /\ UNCHANGED <<cloud, order, idless, alone>>
DeleteObject ==
    /\ step = "delete"
    /\ \/ /\ guest.exists
          /\ guest' = [guest EXCEPT !.active = "RECLAIM_WAIT"]
          /\ Advance \/ (Refuses /\ Fail)
       \/ (~guest.exists \/ Refuses) /\ Fail /\ UNCHANGED guest
    /\ UNCHANGED <<volume, orders, others, catalogue, plan, order, idless, alone>>

-----------------------------------------------------------------------------
(* Waits.                                                                  *)

\* Each poll reads the guest anew; one that is not found, or an error, ends
\* the wait.
Poll(there, NotFound) ==
    /\ \/ guest.exists /\ there /\ Advance
       \/ guest.exists /\ ~there /\ SleepOrTimeOut
       \/ ~guest.exists /\ NotFound
       \/ Refuses /\ Fail
    /\ UNCHANGED <<cloud, order, idless, alone>>

NoReload  == FALSE    \* the reload not looked at
Reloading == guest.active = "reload" /\ guest.shown

\* RUNNING, as far as a read can tell while a transaction works on it.
Powered(running) ==
    /\ guest.hung => ~running
    /\ ~guest.hung /\ guest.active = None => running

WaitInstanceUntilReady ==
    /\ step \in {"ready", "readyRest"}
    /\ \E running \in {b \in BOOLEAN : Powered(b)} :
          Poll(guest.provisioned /\ ~Reloading /\ running, Fail)

\* Half the time, then a ticket, which may fail, then the other half.
WaitInstanceUntilReadyWithTicket ==
    /\ step = "readyHalf"
    /\ \E running \in {b \in BOOLEAN : Powered(b)} :
          LET ready == guest.provisioned /\ ~Reloading /\ running IN
          IF guest.exists /\ ~ready /\ left <= Polls["readyHalf"] \div 2
          THEN Advance /\ UNCHANGED <<cloud, order, idless, alone>>
          ELSE Poll(ready, Fail)

\* Any transaction will do, also one that was there before.
WaitInstanceHasActiveTransaction ==
    step = "begun" /\ Poll(guest.active # None, Fail)

WaitInstanceHasNoneActiveTransaction ==
    /\ step \in {"idle", "idleAfter"}
    /\ IF guest.exists /\ guest.active = "RECLAIM_WAIT"
       THEN Fail /\ UNCHANGED <<cloud, order, idless, alone>>
       ELSE Poll(guest.active = None, Fail)

\* CancelInstance: no guest, or one being reclaimed, needs no cancelling.
WaitToCancel ==
    /\ step = "idleToCancel"
    /\ IF guest.active = "RECLAIM_WAIT" /\ guest.exists
       THEN /\ Goto("finished") \/ (Refuses /\ Goto("failed"))
            /\ UNCHANGED <<cloud, order, idless, alone, reloadLeft>>
       ELSE Poll(guest.active = None, Goto("finished") /\ UNCHANGED reloadLeft)

-----------------------------------------------------------------------------
(* Orders.                                                                 *)

UpgradePrices(r, offered) ==
    IF r.op = "disk"
    THEN {UpgradeItemPriceForSecondDisk(offered, r.size, r.local)} \ {NoPrice}
    ELSE LET chosen == SelectProductPrices(offered,
                           UpgradeOptions(r.cpu, r.memory, 0), r.private, r.dedicated)
         IN  {chosen[o] : o \in DOMAIN chosen}

\* getUpgradeItemPriceForSecondDisk reads the prices and then the guest: one
\* that is gone by then makes it answer an empty price and no error.
UpgradeChoices(r, offered) ==
    {UpgradePrices(r, offered)} \cup
        (IF r.op = "disk" /\ ~guest.exists THEN {{NoPrice}} ELSE {})

\* gone: the guest was not there any more.
Taken(prices) ==
    Append(orders, [by |-> call, prices |-> prices, status |-> "open", work |-> "waiting",
                    gone |-> ~guest.exists])

PlaceUpgradeRetryingErrors(prices) ==    \* also after an error
    /\ orders' = Taken(prices) /\ Len(orders) < 3
    /\ \/ order' = Len(orders') /\ Advance
       \/ Refuses /\ UNCHANGED <<order, call, step, left, reloadLeft>>
    /\ UNCHANGED idless

\* PlaceOrder is tried again only after a receipt without an order id; that
\* "a current price was provided" leaves no order to wait for.
PlaceUpgrade(prices) ==
    \/ /\ orders' = Taken(prices)
       /\ \/ order' = Len(orders') /\ Advance
          \/ Refuses /\ Fail /\ UNCHANGED order
       /\ UNCHANGED idless
    \/ Advance /\ UNCHANGED <<orders, order, idless>>
    \/ /\ Refuses /\ idless' = idless + 1
       /\ orders' \in {orders, Taken(prices)}
       /\ IF idless' = PlaceAttempts THEN Fail ELSE UNCHANGED <<call, step, left, reloadLeft>>
       /\ UNCHANGED order

UpgradeInstance ==
    /\ step = "upgrade"
    /\ \/ \E prices \in UpgradeChoices(asked, catalogue.upgrade) :
             IF prices = {} THEN Fail /\ UNCHANGED <<orders, order, idless>>
             ELSE PlaceUpgrade(prices)
       \/ (~guest.exists \/ Refuses) /\ Fail /\ UNCHANGED <<orders, order, idless>>
    /\ UNCHANGED <<guest, volume, others, catalogue, plan, alone>>

WaitOrderCompleted ==
    /\ step = "completed"
    /\ \/ order = 0 /\ Advance
       \/ order # 0 /\ orders[order].status = "COMPLETED" /\ Advance
       \/ order # 0 /\ orders[order].status # "COMPLETED" /\ SleepOrTimeOut
       \/ Refuses /\ Fail
    /\ UNCHANGED <<cloud, order, idless, alone>>

\* CreateVolume: no order when a price is missing, an error without an id.
PlaceVolumeOrder ==
    /\ step = "placeVolume"
    /\ \E prices \in CreateVolumePrices(catalogue.performance, catalogue.saas,
               GetSoftLayerDiskSize(asked.size), asked.iops, asked.space) :
          \/ /\ Complete(prices) /\ orders' = Taken(ToSet(prices))
             /\ \/ order' = Len(orders') /\ Advance
                \/ Refuses /\ Fail /\ UNCHANGED order
          \/ (~Complete(prices) \/ Refuses) /\ Fail /\ UNCHANGED <<orders, order>>
    /\ UNCHANGED <<guest, volume, others, catalogue, plan, idless, alone>>

WaitVolumeProvisioning ==
    /\ step = "awaitVolume"
    /\ \/ orders[order].work = "done" /\ Advance
       \/ orders[order].work # "done" /\ SleepOrTimeOut
       \/ Refuses /\ Fail
    /\ UNCHANGED <<cloud, order, idless, alone>>

-----------------------------------------------------------------------------
(* The volume.  While SoftLayer works on it the loops of CreateSnapshot,   *)
(* AuthorizeHostToVolume and DeauthorizeHostToVolume start over (continue) *)
(* before they look at the deadline: until the volume is free no step of   *)
(* theirs changes anything.                                                *)

CreateSnapshot ==
    /\ step = "snapshot" /\ ~volume.busy
    /\ Advance \/ (Refuses /\ Fail)
    /\ UNCHANGED <<cloud, order, idless, alone>>

\* An answer FALSE is asked again, until the deadline.
SetAccess(allowed) ==
    /\ ~volume.busy
    /\ \/ volume' = [volume EXCEPT !.allowed = allowed] /\ Advance
       \/ Refuses /\ (Fail \/ SleepOrTimeOut) /\ UNCHANGED volume
    /\ UNCHANGED <<guest, orders, others, catalogue, plan, order, idless, alone>>

AuthorizeHost   == step = "authorize" /\ SetAccess(TRUE)
DeauthorizeHost == step = "deauthorize" /\ SetAccess(FALSE)

\* A guest that is not among the allowed ones needs no deauthorization.
ReadAllowedGuests ==
    /\ step = "readAllowed"
    /\ \/ volume.allowed /\ Advance
       \/ ~volume.allowed /\ Goto("finished") /\ UNCHANGED reloadLeft
       \/ Refuses /\ Fail
    /\ UNCHANGED <<cloud, order, idless, alone>>

-----------------------------------------------------------------------------
(* SoftLayer.                                                              *)

process == <<call, step, left, reloadLeft, order, idless>>
quiet   == <<volume, catalogue, plan, process>>
Waiting == {i \in DOMAIN orders : orders[i].work = "waiting" /\ plan[orders[i].by].op # "volume"}

\* A reload begins; lastOperatingSystemReload shows it at once or later.
BeginReload ==
    /\ guest.exists /\ guest.active = None /\ guest.pending # None
    /\ \E shown \in BOOLEAN :
          /\ guest' = [guest EXCEPT !.active = "reload", !.shown = shown]
          /\ IF shown THEN UNCHANGED alone ELSE Disturb
    /\ UNCHANGED <<orders, others, quiet>>

ShowReload ==
    /\ guest.active = "reload" /\ ~guest.shown
    /\ guest' = [guest EXCEPT !.shown = TRUE]
    /\ UNCHANGED <<orders, others, alone, quiet>>

BeginUpgrade ==
    /\ guest.exists /\ guest.active = None /\ Waiting # {}
    /\ guest' = [guest EXCEPT !.active = "upgrade"]
    /\ UNCHANGED <<orders, others, alone, quiet>>

BeginOther ==
    /\ guest.exists /\ guest.active = None /\ others < MaxOther
    /\ others' = others + 1
    /\ guest' = [guest EXCEPT !.active = "other"]
    /\ Disturb
    /\ UNCHANGED <<orders, quiet>>

\* The guest is taken away by somebody else.
Vanish ==
    /\ guest.exists /\ others < MaxOther
    /\ others' = others + 1
    /\ guest' = [guest EXCEPT !.exists = FALSE, !.active = None, !.pending = None]
    /\ Disturb
    /\ UNCHANGED <<orders, quiet>>

\* A transaction ends; a reload may leave the guest halted for good.
EndTransaction ==
    /\ guest.active # None
    /\ \E hung \in {FALSE, guest.active = "reload"} :
          guest' = CASE guest.active = "reload" ->
                          [guest EXCEPT !.active = None, !.shown = FALSE, !.hung = hung,
                                        !.image = guest.pending, !.pending = None]
                     [] guest.active = "provision" ->
                          [guest EXCEPT !.active = None, !.provisioned = TRUE]
                     [] guest.active = "RECLAIM_WAIT" ->
                          [guest EXCEPT !.active = None, !.exists = FALSE, !.pending = None]
                     [] OTHER -> [guest EXCEPT !.active = None]
    /\ orders' = [i \in DOMAIN orders |->
                    IF guest.active = "upgrade" /\ i \in Waiting
                    THEN [orders[i] EXCEPT !.work = "done"] ELSE orders[i]]
    /\ UNCHANGED <<others, alone, quiet>>

CompleteOrder(i) ==
    /\ i \in DOMAIN orders /\ orders[i].status = "open"
    /\ orders' = [orders EXCEPT ![i].status = "COMPLETED"]
    /\ UNCHANGED <<guest, others, alone, quiet>>

ProvisionVolume(i) ==
    /\ i \in DOMAIN orders /\ orders[i].work = "waiting" /\ i \notin Waiting
    /\ orders' = [orders EXCEPT ![i].work = "done"]
    /\ UNCHANGED <<guest, others, alone, quiet>>

\* A blocking operation on the volume begins and ends.
BlockVolume ==
    /\ ~volume.busy /\ others < MaxOther
    /\ volume' = [volume EXCEPT !.busy = TRUE]
    /\ others' = others + 1
    /\ UNCHANGED <<guest, orders, catalogue, plan, process, alone>>

UnblockVolume ==
    /\ volume.busy /\ volume' = [volume EXCEPT !.busy = FALSE]
    /\ UNCHANGED <<guest, orders, others, catalogue, plan, process, alone>>

-----------------------------------------------------------------------------
Crash ==
    /\ Active /\ Goto("crashed")
    /\ UNCHANGED <<cloud, reloadLeft, order, idless, alone>>

CallStep ==
    \/ CreateObject \/ SetUserData \/ ReloadOS \/ EditObject \/ DeleteObject
    \/ WaitInstanceUntilReady \/ WaitInstanceUntilReadyWithTicket
    \/ WaitInstanceHasActiveTransaction \/ WaitInstanceHasNoneActiveTransaction
    \/ WaitToCancel
    \/ UpgradeInstance \/ WaitOrderCompleted
    \/ PlaceVolumeOrder \/ WaitVolumeProvisioning
    \/ CreateSnapshot \/ AuthorizeHost \/ ReadAllowedGuests \/ DeauthorizeHost

AllDone == ~Active /\ call = Len(plan) /\ UNCHANGED vars

Next ==
    \/ Begin \/ CallStep \/ Crash
    \/ BeginReload \/ ShowReload \/ BeginUpgrade \/ BeginOther \/ Vanish \/ EndTransaction
    \/ \E i \in DOMAIN orders : CompleteOrder(i) \/ ProvisionVolume(i)
    \/ BlockVolume \/ UnblockVolume
    \/ AllDone

Spec == Init /\ [][Next]_vars

\* A running process goes on.  Nothing is asked of SoftLayer: transactions,
\* orders and what blocks a volume may hang for ever.
FairSpec == Spec /\ WF_vars(CallStep)

-----------------------------------------------------------------------------
(* Properties.                                                             *)

\* Types of the variables.
TypeOK ==
    /\ guest.active \in {None, "provision", "reload", "upgrade", "other", "RECLAIM_WAIT"}
    /\ {guest.exists, guest.provisioned, guest.hung, guest.shown} \subseteq BOOLEAN
    /\ {guest.host, guest.data, call} \subseteq 0..Len(plan)
    /\ volume \in [busy : BOOLEAN, allowed : BOOLEAN]
    /\ {left, reloadLeft} \subseteq {0} \cup UNION {0..Polls[s] : s \in DOMAIN Polls}
    /\ order \in 0..Len(orders)
    /\ idless \in 0..PlaceAttempts
    /\ alone \in BOOLEAN

\* ReloadInstance answers success only when the guest runs the image asked
\* for, under its new name and with its user data, unless SoftLayer ran
\* another transaction on the guest, showed the reload late or answered the
\* edit of the name with FALSE.
Finished(op) == call # 0 /\ asked.op = op /\ step = "finished"
ReloadedIsAsked ==
    Finished("reload") /\ alone =>
        guest.image = asked.image /\ guest.host = call /\ guest.data = call

\* CancelInstance answers success only for a guest that is gone or going.
CancelledIsGoing ==
    Finished("cancel") => ~guest.exists \/ guest.active = "RECLAIM_WAIT"

\* A call places one order, and one more only for each receipt that came
\* without an order id; never more than it has attempts.
OrdersAreCounted ==
    LET n == Cardinality({i \in DOMAIN orders : orders[i].by = call}) IN
        n <= 1 + idless /\ n <= PlaceAttempts

\* Every order fits what was asked for.  A volume has the size, up to the
\* largest one, the iops and the snapshot space asked for, of prices that are
\* no location's and admit that size; an upgrade has the smallest disk of the guest's
\* kind that is large enough, and for each option that SoftLayer offers one
\* price of its kind and of the amount asked for.  Of a memory that is not of
\* whole gigabytes nothing is said: the rest is dropped, and less is ordered.
\* No price is missing, except for a guest that is gone.
Least(mb) == IF Gigabytes(mb) <= 12000 THEN Gigabytes(mb) ELSE 12000
VolumeFits(o, r) ==
    /\ \A p \in o.prices : p.group = None
    /\ \E p \in o.prices :
          "performance_storage_space" \in p.cats /\ p.capacity >= Least(r.size)
    /\ r.iops # 0 => \E p \in o.prices :
          /\ "performance_storage_iops" \in p.cats /\ p.capacity >= r.iops
          /\ Least(r.size) <= p.hi
    /\ r.space # 0 => \E p \in o.prices :
          "storage_snapshot_space" \in p.cats /\ p.capacity = r.space
DiskFits(o, r, offered) ==
    \A p \in o.prices \ {NoPrice} :
        /\ p.local = r.local /\ p.capacity >= r.size
        /\ \A q \in offered : "guest_disk1" \in q.cats /\ q.local = r.local
                                /\ q.capacity >= r.size => p.capacity <= q.capacity
Unit(c) == IF c = "ram" THEN 1024 ELSE 1    \* memory is asked for in megabytes
ConfigFits(o, r, offered) ==
    \A c \in {"guest_core", "ram"} :
        LET amount  == IF c = "ram" THEN r.memory ELSE r.cpu
            fits(p) == c \in p.cats /\ p.capacity * Unit(c) = amount /\ p.dedicated = r.dedicated
                         /\ (c = "guest_core" => p.private = r.private)
        IN  amount % Unit(c) = 0 =>
              /\ \A p \in o.prices : c \in p.cats => amount # 0 /\ fits(p)
              /\ amount # 0 /\ (\E p \in offered : fits(p)) =>
                    Cardinality({p \in o.prices : c \in p.cats}) = 1
OrderFits(o) ==
    LET r == plan[o.by]  offered == ToSet(catalogue.upgrade) IN
        /\ NoPrice \in o.prices => o.gone
        /\ r.op = "volume" => VolumeFits(o, r)
        /\ r.op = "disk"   => DiskFits(o, r, offered)
        /\ r.op = "config" => ConfigFits(o, r, offered)
OrdersFit == \A i \in DOMAIN orders : OrderFits(orders[i])

\* Every call ends, whatever transactions and orders SoftLayer leaves
\* undone, unless it asks for a snapshot of a volume, or for access to one,
\* that stays blocked for ever: these loops pass over their deadline.
EndsUnlessBlocked ==
    Active ~> (~Active \/ [](volume.busy /\ step \in {"snapshot", "authorize", "deauthorize"}))
=============================================================================

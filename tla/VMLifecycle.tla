---------------------------- MODULE VMLifecycle ----------------------------
(***************************************************************************)
(* The life of a virtual guest under bosh-softlayer-cpi: the calls         *)
(* create_vm (with and without OS reload) and delete_vm, run by CPI        *)
(* processes that share nothing but the SoftLayer account, the VM pool     *)
(* server (VPS) and the agent registry.                                    *)
(*                                                                         *)
(* The director starts one operating system process per call; a process    *)
(* serves one request and exits (main.go).  Every action of a call below   *)
(* is one remote operation of the code with the local work around it; any  *)
(* number of steps of other calls, and the death of the process, can come  *)
(* between two of them.                                                    *)
(***************************************************************************)
EXTENDS Naturals, FiniteSets

CONSTANTS
    Guest,            \* ids of the virtual guests the account can ever hold
    Stock,            \* the guests that run before the first call is made
    Call,             \* the CPI calls the director makes
    None,             \* cid 0, no address, no owner
    EnableVps,        \* softlayer.enable_vps of cpi.json
    DisableOsReload,  \* softlayer.disable_os_reload of cpi.json
    DirectorRetries,  \* does the director repeat a delete_vm that failed?
    MayFail,          \* steps a remote side may refuse, or that may time out
    MayLose,          \* steps whose effect may happen and the answer be lost
    MayCrash,         \* may a CPI process die in the middle of a call?
    Healthy           \* calls that meet none of these failures

ASSUME ConfigAssumption ==
    /\ Stock \subseteq Guest
    /\ None \notin Guest \cup Call
    /\ {EnableVps, DisableOsReload, DirectorRetries, MayCrash} \subseteq BOOLEAN

ASSUME HealthyAssumption == Healthy \subseteq Call

VARIABLES
    guest,       \* guest[v]: what SoftLayer says of the guest
    booted,      \* booted[v]: the create_vm whose image and user data it runs
    pool,        \* pool[v]: the state of the guest on the VPS server
    registry,    \* registry[v]: the create_vm that wrote its agent settings
    pc,          \* pc[c]: the next step of the call, or how it ended
    ip,          \* ip[c]: the guest whose primary IP a dynamic network asks for
    vm,          \* vm[c]: the guest the call works on (vm.Id, cid, vmCID)
    osReloaded,  \* osReloaded[c]: the flag of create_vm
    lease        \* lease[c]: for a delete_vm, the create_vm that returned the cid

remote == <<guest, booted, pool, registry>>
local  == <<ip, vm, osReloaded, lease>>
vars   == <<guest, booted, pool, registry, pc, ip, vm, osReloaded, lease>>

-----------------------------------------------------------------------------
(* Steps of the two calls, in the order of the code.                       *)

CreateSteps ==
    {"prepare", "findByIp", "unregister", "upgrade", "orderPool", "order",
     "provision", "reload", "reloading", "commit", "configure", "ephemeral",
     "register", "cleanup"}
DeleteSteps == {"releaseGuest", "unregisterGuest"}
Outcomes    == {"returned", "deleted", "failed", "crashed", "panicked"}

GuestState  == {"unordered", "busy", "running", "reclaiming", "gone"}
PoolState   == {"absent", "free", "provisioning", "using"}

Active(c)   == pc[c] \in CreateSteps \cup DeleteSteps

\* GetInstance and the search by IP find a guest until it is really removed.
Visible(v)  == guest[v] \in {"busy", "running", "reclaiming"}

\* A guest that is waited for: WaitInstanceUntilReady and none active.
ReadyUnchecked(v) == Visible(v)    \* the waits dropped
Ready(v)          == guest[v] = "running"

\* The guests that FindByPrimaryIp and FindByPrimaryBackendIp may return:
\* they filter by the address, and take the first.
FoundByIpUnfiltered(a) == {v \in Guest : Visible(v)}
FoundByIp(a)           == {v \in Guest : v = a /\ Visible(v)}

\* The pool orders a guest by a filter that says State free.
OfferedInAnyState(v) == pool[v] # "absent"
Offered(v)           == pool[v] = "free"

\* What NewAgentSettings makes of the call's arguments, known by the call.
AgentSettings(c) == c

\* createByOsReload has a dynamic network with an address to work on.
ReloadsByIp(c) == ~DisableOsReload /\ ip[c] # None

\* A cid that create_vm returned and no delete_vm has released yet.
Leased(c)   == pc[c] = "returned" /\ \A d \in Call : lease[d] = c => pc[d] # "deleted"

\* A cid the director has and never asked to delete.
Held(c)     == pc[c] = "returned" /\ \A d \in Call : lease[d] # c

Refuses(c)    == pc[c] \in MayFail /\ c \notin Healthy
LosesReply(c) == pc[c] \in MayLose /\ c \notin Healthy
Goto(c, step) == pc' = [pc EXCEPT ![c] = step]

\* The deferred function of create_vm: clean up unless osReloaded is set.
UnwindAlwaysCleans(c) == "cleanup"
UnwindNeverCleans(c)  == "failed"
Unwind(c) == IF osReloaded[c] THEN "failed" ELSE "cleanup"

Init ==
    /\ guest = [v \in Guest |-> IF v \in Stock THEN "running" ELSE "unordered"]
    /\ booted = [v \in Guest |-> None]
    /\ pool \in [Guest -> {"absent", "free"}]
    /\ \A v \in Guest : pool[v] = "free" => EnableVps /\ v \in Stock
    /\ registry = [v \in Guest |-> None]
    /\ pc = [c \in Call |-> "idle"]
    /\ ip = [c \in Call |-> None]
    /\ vm = [c \in Call |-> None]
    /\ osReloaded = [c \in Call |-> FALSE]
    /\ lease = [c \in Call |-> None]

-----------------------------------------------------------------------------
(* The director.  It gives a dynamic network the address of a guest only   *)
(* when that guest is in no call of its own and in no lease: addresses are *)
(* assigned to one instance at a time.                                     *)

Assignable(v) ==
    /\ guest[v] # "unordered"
    /\ \A c \in Call : Active(c) \/ Leased(c) => v \notin {ip[c], vm[c]}

StartCreate(c) ==
    /\ pc[c] = "idle"
    /\ \E a \in {None} \cup {v \in Guest : Assignable(v)} : ip' = [ip EXCEPT ![c] = a]
    /\ Goto(c, "prepare")
    /\ UNCHANGED <<remote, vm, osReloaded, lease>>

StartDelete(d) ==
    /\ pc[d] = "idle"
    /\ \E c \in Call :
         /\ Leased(c)
         /\ \A e \in Call : lease[e] = c => DirectorRetries /\ ~Active(e)
         /\ lease' = [lease EXCEPT ![d] = c]
         /\ vm' = [vm EXCEPT ![d] = vm[c]]
    /\ Goto(d, "releaseGuest")
    /\ UNCHANGED <<remote, ip, osReloaded>>

-----------------------------------------------------------------------------
(* create_vm.                                                              *)

\* Validation, stemcell, ssh key, user data, network components, template.
\* Without an address createByOsReload answers (0, nil): osReloaded is set
\* although nothing was reloaded.
Prepare(c) ==
    /\ pc[c] = "prepare"
    /\ \/ /\ Goto(c, IF ReloadsByIp(c) THEN "findByIp"
                     ELSE IF EnableVps THEN "orderPool" ELSE "order")
          /\ osReloaded' = [osReloaded EXCEPT ![c] = ~DisableOsReload /\ ip[c] = None]
       \/ Refuses(c) /\ Goto(c, "failed") /\ UNCHANGED osReloaded
    /\ UNCHANGED <<remote, ip, vm, lease>>

FindByIp(c) ==
    /\ pc[c] = "findByIp"
    /\ \/ \E v \in FoundByIp(ip[c]) : vm' = [vm EXCEPT ![c] = v] /\ Goto(c, "unregister")
       \/ (FoundByIp(ip[c]) = {} \/ Refuses(c)) /\ Goto(c, "failed") /\ UNCHANGED vm
    /\ UNCHANGED <<remote, ip, osReloaded, lease>>

\* "Cleaning registry record before os_reload".
UnregisterForReload(c) ==
    /\ pc[c] = "unregister"
    /\ \/ /\ registry' = [registry EXCEPT ![vm[c]] = None]
          /\ Goto(c, "upgrade") \/ (LosesReply(c) /\ Goto(c, "failed"))
       \/ Refuses(c) /\ Goto(c, "failed") /\ UNCHANGED registry
    /\ UNCHANGED <<guest, booted, pool, local>>

\* UpgradeInstance, when cpu or memory differ from the template; it orders
\* and waits, and leaves nothing behind that the guest's life depends on.
UpgradeForReload(c) ==
    /\ pc[c] = "upgrade"
    /\ \/ Goto(c, "reload")
       \/ (Refuses(c) \/ ~Visible(vm[c])) /\ Goto(c, "failed")
    /\ UNCHANGED <<remote, local>>

\* CreateInstanceFromVPS: order a free guest from the pool, or on 404 go on
\* with CreateInstance.
OrderFromPool(c) ==
    /\ pc[c] = "orderPool"
    /\ \/ \E v \in Guest :
            /\ Offered(v)
            /\ pool' = [pool EXCEPT ![v] = "provisioning"]
            /\ \/ vm' = [vm EXCEPT ![c] = v] /\ Goto(c, "reload")
               \/ LosesReply(c) /\ Goto(c, "failed") /\ UNCHANGED vm
       \/ /\ \A v \in Guest : ~Offered(v)
          /\ Goto(c, "order") /\ UNCHANGED <<pool, vm>>
       \/ Refuses(c) /\ Goto(c, "failed") /\ UNCHANGED <<pool, vm>>
    /\ UNCHANGED <<guest, booted, registry, ip, osReloaded, lease>>

\* CreateInstance, first half: CreateObject.
OrderGuest(c) ==
    /\ pc[c] = "order"
    /\ \/ \E v \in Guest :
            /\ guest[v] = "unordered"
            /\ guest' = [guest EXCEPT ![v] = "busy"]
            /\ booted' = [booted EXCEPT ![v] = c]
            /\ \/ vm' = [vm EXCEPT ![c] = v] /\ Goto(c, "provision")
               \/ LosesReply(c) /\ Goto(c, "failed") /\ UNCHANGED vm
       \/ /\ Refuses(c) \/ \A v \in Guest : guest[v] # "unordered"
          /\ Goto(c, "failed") /\ UNCHANGED <<guest, booted, vm>>
    /\ UNCHANGED <<pool, registry, ip, osReloaded, lease>>

\* CreateInstance, second half: user data, ready, no transaction.  An error
\* here is returned without the id.  Behind the pool, the entry to add reads
\* template.PrimaryBackendIpAddress, which create_vm never sets: a nil
\* dereference ends the process.
AwaitProvisioned(c) ==
    /\ pc[c] = "provision"
    /\ \/ Ready(vm[c]) /\ Goto(c, IF EnableVps THEN "panicked" ELSE "configure")
       \/ (Refuses(c) \/ ~Visible(vm[c])) /\ Goto(c, "failed")
    /\ UNCHANGED <<remote, local>>

\* ReloadInstance up to ReloadOperatingSystem; a guest in RECLAIM_WAIT or
\* one that does not exist is an error.
StartReload(c) ==
    /\ pc[c] = "reload"
    /\ \/ /\ guest[vm[c]] = "running"
          /\ guest' = [guest EXCEPT ![vm[c]] = "busy"]
          /\ booted' = [booted EXCEPT ![vm[c]] = c]
          /\ Goto(c, "reloading") \/ (LosesReply(c) /\ Goto(c, "failed"))
       \/ /\ Refuses(c) \/ guest[vm[c]] \in {"reclaiming", "gone"}
          /\ Goto(c, "failed") /\ UNCHANGED <<guest, booted>>
    /\ UNCHANGED <<pool, registry, local>>

\* ReloadInstance from the first wait to EditInstance.
AwaitReloaded(c) ==
    /\ pc[c] = "reloading"
    /\ \/ /\ Ready(vm[c])
          /\ Goto(c, IF ReloadsByIp(c) THEN "configure" ELSE "commit")
          /\ osReloaded' = [osReloaded EXCEPT ![c] = @ \/ ReloadsByIp(c)]
       \/ /\ Refuses(c) \/ guest[vm[c]] \in {"reclaiming", "gone"}
          /\ Goto(c, "failed") /\ UNCHANGED osReloaded
    /\ UNCHANGED <<remote, ip, vm, lease>>

\* CreateInstanceFromVPS, last step: UpdateVM(using).
CommitToPool(c) ==
    /\ pc[c] = "commit"
    /\ \/ /\ Visible(vm[c])
          /\ pool' = [pool EXCEPT ![vm[c]] = "using"]
          /\ Goto(c, "configure") \/ (LosesReply(c) /\ Goto(c, "failed"))
       \/ (Refuses(c) \/ ~Visible(vm[c])) /\ Goto(c, "failed") /\ UNCHANGED pool
    /\ UNCHANGED <<guest, booted, registry, local>>

\* ConfigureNetworks, Find and updateHost.
Configure(c) ==
    /\ pc[c] = "configure"
    /\ \/ Visible(vm[c]) /\ Goto(c, "ephemeral")
       \/ (Refuses(c) \/ ~Visible(vm[c])) /\ Goto(c, Unwind(c))
    /\ UNCHANGED <<remote, local>>

\* AttachEphemeralDisk, when the cloud properties ask for one.
AttachEphemeral(c) ==
    /\ pc[c] = "ephemeral"
    /\ \/ Goto(c, "register")
       \/ (Refuses(c) \/ ~Visible(vm[c])) /\ Goto(c, Unwind(c))
    /\ UNCHANGED <<remote, local>>

RegisterUnheard(c) ==    \* the answer of the registry dropped
    /\ pc[c] = "register" /\ Goto(c, "returned")
    /\ \/ registry' = [registry EXCEPT ![vm[c]] = AgentSettings(c)]
       \/ Refuses(c) /\ UNCHANGED registry
    /\ UNCHANGED <<guest, booted, pool, local>>
Register(c) ==
    /\ pc[c] = "register"
    /\ \/ /\ registry' = [registry EXCEPT ![vm[c]] = AgentSettings(c)]
          /\ Goto(c, "returned") \/ (LosesReply(c) /\ Goto(c, Unwind(c)))
       \/ Refuses(c) /\ Goto(c, Unwind(c)) /\ UNCHANGED registry
    /\ UNCHANGED <<guest, booted, pool, local>>

\* CancelInstance: nothing to do for a guest in RECLAIM_WAIT, or gone.
CancelGuestUnheard(v) ==    \* the answer of DeleteObject dropped
    \/ guest[v] = "running" /\ guest' = [guest EXCEPT ![v] = "reclaiming"]
    \/ guest[v] # "busy" /\ UNCHANGED guest
CancelGuest(v) ==
    \/ guest[v] = "running" /\ guest' = [guest EXCEPT ![v] = "reclaiming"]
    \/ guest[v] \in {"reclaiming", "gone"} /\ UNCHANGED guest

\* CleanUp is Delete(cid, FALSE): it cancels also a guest of the pool, and
\* create_vm drops its error.
CleanUpIntoPool(c) ==    \* the pool told that the guest is free
    /\ pc[c] = "cleanup" /\ Goto(c, "failed")
    /\ CancelGuest(vm[c]) /\ pool' = [pool EXCEPT ![vm[c]] = "free"]
    /\ UNCHANGED <<booted, registry, local>>
CleanUp(c) ==
    /\ pc[c] = "cleanup"
    /\ Goto(c, "failed")
    /\ CancelGuest(vm[c]) \/ (Refuses(c) /\ UNCHANGED guest)
    /\ UNCHANGED <<booted, pool, registry, local>>

-----------------------------------------------------------------------------
(* delete_vm.                                                              *)

\* DeleteInstanceFromVPS: the pool's entry is made or set free.
FreeInPool(v) == pool' = [pool EXCEPT ![v] = "free"] /\ UNCHANGED guest

\* vmService.Delete: a guest that is not found counts as deleted.
ReleaseGuestFound(d) ==    \* not found is an error
    /\ pc[d] = "releaseGuest"
    /\ \/ /\ \/ EnableVps /\ Visible(vm[d]) /\ FreeInPool(vm[d])
             \/ ~EnableVps /\ Visible(vm[d]) /\ CancelGuest(vm[d]) /\ UNCHANGED pool
          /\ Goto(d, "unregisterGuest") \/ (LosesReply(d) /\ Goto(d, "failed"))
       \/ (Refuses(d) \/ ~Visible(vm[d])) /\ Goto(d, "failed") /\ UNCHANGED <<guest, pool>>
    /\ UNCHANGED <<booted, registry, local>>
ReleaseGuest(d) ==
    /\ pc[d] = "releaseGuest"
    /\ \/ /\ \/ EnableVps /\ guest[vm[d]] = "gone" /\ UNCHANGED <<guest, pool>>
             \/ EnableVps /\ Visible(vm[d]) /\ FreeInPool(vm[d])
             \/ ~EnableVps /\ CancelGuest(vm[d]) /\ UNCHANGED pool
          /\ Goto(d, "unregisterGuest") \/ (LosesReply(d) /\ Goto(d, "failed"))
       \/ Refuses(d) /\ Goto(d, "failed") /\ UNCHANGED <<guest, pool>>
    /\ UNCHANGED <<booted, registry, local>>

UnregisterGuest(d) ==
    /\ pc[d] = "unregisterGuest"
    /\ \/ /\ registry' = [registry EXCEPT ![vm[d]] = None]
          /\ Goto(d, "deleted") \/ (LosesReply(d) /\ Goto(d, "failed"))
       \/ Refuses(d) /\ Goto(d, "failed") /\ UNCHANGED registry
    /\ UNCHANGED <<guest, booted, pool, local>>

-----------------------------------------------------------------------------
(* The process dies; SoftLayer finishes a transaction or a reclaim.        *)

Crash(c) ==
    /\ MayCrash /\ Active(c) /\ c \notin Healthy
    /\ Goto(c, "crashed")
    /\ UNCHANGED <<remote, local>>

Settle(v) ==
    /\ guest[v] = "busy"
    /\ guest' = [guest EXCEPT ![v] = "running"]
    /\ UNCHANGED <<booted, pool, registry, pc, local>>

Reclaim(v) ==
    /\ guest[v] = "reclaiming"
    /\ guest' = [guest EXCEPT ![v] = "gone"]
    /\ UNCHANGED <<booted, pool, registry, pc, local>>

CreateStep(c) ==
    \/ Prepare(c) \/ FindByIp(c) \/ UnregisterForReload(c) \/ UpgradeForReload(c)
    \/ OrderFromPool(c) \/ OrderGuest(c) \/ AwaitProvisioned(c)
    \/ StartReload(c) \/ AwaitReloaded(c) \/ CommitToPool(c)
    \/ Configure(c) \/ AttachEphemeral(c) \/ Register(c) \/ CleanUp(c)

DeleteStep(c) == ReleaseGuest(c) \/ UnregisterGuest(c)

\* Every call has been made and has ended.
AllDone == (\A c \in Call : pc[c] \in Outcomes) /\ UNCHANGED vars

Next ==
    \/ \E c \in Call : StartCreate(c) \/ StartDelete(c)
    \/ \E c \in Call : CreateStep(c)
    \/ \E c \in Call : DeleteStep(c)
    \/ \E c \in Call : Crash(c)
    \/ \E v \in Guest : Settle(v) \/ Reclaim(v)
    \/ AllDone

Spec == Init /\ [][Next]_vars

\* The operating system keeps running a process that was started, and
\* SoftLayer completes the transactions it accepted.
FairSpec ==
    /\ Spec
    /\ \A c \in Call : WF_vars(CreateStep(c)) /\ WF_vars(DeleteStep(c))
    /\ \A v \in Guest : WF_vars(Settle(v))

-----------------------------------------------------------------------------
(* Properties.                                                             *)

\* Types of all variables.
TypeOK ==
    /\ guest \in [Guest -> GuestState]
    /\ booted \in [Guest -> Call \cup {None}]
    /\ pool \in [Guest -> PoolState]
    /\ registry \in [Guest -> Call \cup {None}]
    /\ pc \in [Call -> {"idle"} \cup CreateSteps \cup DeleteSteps \cup Outcomes]
    /\ ip \in [Call -> Guest \cup {None}]
    /\ vm \in [Call -> Guest \cup {None}]
    /\ osReloaded \in [Call -> BOOLEAN]
    /\ lease \in [Call -> Call \cup {None}]

\* A create_vm that has picked its guest, until the guest is given up.
Works(c) ==
    \/ pc[c] \in {"unregister", "upgrade", "provision", "reload", "reloading",
                  "commit", "configure", "ephemeral", "register", "cleanup"}
    \/ Held(c)

\* No two create_vm calls ever work on, or hand to the director, the same
\* guest: neither the pool order, nor the search by IP, nor a leftover of a
\* call that failed gives a guest to a second call.
ExclusiveGuest ==
    \A c1, c2 \in Call : c1 # c2 /\ Works(c1) /\ Works(c2) => vm[c1] # vm[c2]

\* Until the director asks to delete it, a guest whose cid create_vm
\* returned runs, runs the image and the user data of that very call, and
\* the registry has that call's agent settings: nothing a concurrent,
\* failing, dying or repeated call does takes any of these away.
HeldGuestServes ==
    \A c \in Call : Held(c) =>
        /\ guest[vm[c]] = "running"
        /\ booted[vm[c]] = c
        /\ registry[vm[c]] = c

\* The same in pool mode, without the registry: the guest runs what its
\* create_vm installed and the pool counts it as in use.
HeldGuestInPool ==
    \A c \in Call : Held(c) =>
        /\ guest[vm[c]] = "running"
        /\ booted[vm[c]] = c
        /\ pool[vm[c]] = "using"

\* A delete_vm that answers success has cancelled the guest and left no
\* agent settings behind, and none come back, whatever failed before it.
DeletedIsGone ==
    \A d \in Call : pc[d] = "deleted" =>
        /\ registry[vm[d]] = None
        /\ guest[vm[d]] \in {"reclaiming", "gone"}

\* A guest that no create_vm ordered is only ever cancelled after the
\* director asked for it with delete_vm; a create_vm that reloaded it and
\* then failed leaves it alone.
PreexistingGuestKept ==
    \A v \in Stock : guest[v] \in {"reclaiming", "gone"} =>
        \E d \in Call : lease[d] # None /\ vm[d] = v

\* The calls keep what VMContract promises the director: they look atomic,
\* and a call works on no guest that another one has handed over.
Answers ==
    [c \in Call |-> IF Active(c) THEN "open"
                    ELSE IF pc[c] \in {"crashed", "panicked"} THEN "failed" ELSE pc[c]]
Cids == [c \in Call |-> IF pc[c] = "returned" \/ lease[c] # None THEN vm[c] ELSE None]
Runs == [v \in Guest |-> IF guest[v] = "running" THEN booted[v] ELSE None]
Cancelled == [v \in Guest |-> guest[v] \in {"reclaiming", "gone"}]
Contract == INSTANCE VMContract WITH
    answer <- Answers, asks <- lease, cid <- Cids,
    runs <- Runs, settings <- registry, cancelled <- Cancelled
KeepsVMContract == Contract!Spec

\* The pool never offers a guest that has been cancelled.
PoolOffersLiveGuests ==
    \A v \in Guest : pool[v] = "free" => guest[v] \in {"busy", "running"}

\* "If any of the below code fails, we must delete the created VM": when a
\* create_vm has failed, no guest it ordered is left in the account.
FailedCreateDeletesItsGuest ==
    \A c \in Call, v \in Guest \ Stock :
        pc[c] = "failed" /\ booted[v] = c => guest[v] \in {"reclaiming", "gone"}

\* Every call ends, and a delete_vm that meets no failure itself ends in
\* success, also when earlier ones of the same cid failed or died half way and
\* the guest is being reclaimed, or gone.
EveryCallEnds ==
    /\ \A c \in Call : Active(c) ~> ~Active(c)
    /\ \A d \in Healthy : pc[d] \in DeleteSteps ~> pc[d] = "deleted"
=============================================================================

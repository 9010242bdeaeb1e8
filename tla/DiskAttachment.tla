--------------------------- MODULE DiskAttachment ---------------------------
(***************************************************************************)
(* Persistent disks: create_disk, attach_disk, detach_disk and             *)
(* delete_disk, each run by a CPI process of its own.  A disk is usable by *)
(* a guest when two remote systems agree: the iSCSI volume lists the guest *)
(* among its allowedVirtualGuests, and the agent settings in the registry  *)
(* list the disk.  The calls change the two one after the other, and the   *)
(* settings by fetching, editing and putting back the whole document.      *)
(***************************************************************************)
EXTENDS Naturals, FiniteSets

CONSTANTS
    Disk,          \* ids of the volumes the account can ever hold
    Stock,         \* the volumes a create_disk returned before the first call
    Vm,            \* guests, each with agent settings to begin with
    Call,          \* the CPI calls the director makes
    None,
    MayFail,       \* steps that may be refused or time out
    MayLose,       \* steps whose effect may happen and the answer be lost
    MayCrash,      \* may a CPI process die in the middle of a call?
    Registry500,   \* may the registry answer 500 for settings that exist?
    CancelDeclined,\* may CancelItem answer FALSE, with no error?
    Unreadable     \* guests whose iSCSI settings do not unmarshal

ASSUME DiskConfigAssumption ==
    /\ Stock \subseteq Disk /\ Unreadable \subseteq Vm
    /\ None \notin Disk \cup Vm \cup Call
    /\ {MayCrash, Registry500, CancelDeclined} \subseteq BOOLEAN

VARIABLES
    volume,      \* volume[d]: the state of the volume at SoftLayer
    access,      \* access[d]: its allowedVirtualGuests
    settings,    \* settings[v]: the persistent disks in the agent settings
    registered,  \* registered[v]: the registry has agent settings for v
    present,     \* present[v]: SoftLayer still finds the guest
    pc, vm, disk,\* per call: the next step, and the arguments
    fetched,     \* fetched[c]: the persistent disks of the settings fetched
    view,        \* view[v][d]: what the director knows of disk d at guest v
    latest       \* latest[v]: the disk attached last, while nothing undid it

cloud == <<volume, access, present>>
agent == <<settings, registered>>
args  == <<vm, disk>>
director == <<view, latest>>
vars  == <<volume, access, settings, registered, present,
           pc, vm, disk, fetched, view, latest>>

AttachSteps == {"findDisk", "readVolume", "authorize", "credential",
                "fetchToAttach", "putAttached"}
DetachSteps == {"readAllowed", "deauthorize", "exists", "fetchToDetach", "putDetached"}
CreateSteps == {"orderVolume", "awaitVolume"}
DeleteSteps == {"findToDelete", "cancelVolume"}
Outcomes    == {"created", "attached", "detached", "deleted", "failed"}
Running     == AttachSteps \cup DetachSteps \cup CreateSteps \cup DeleteSteps

VolumeState == {"unordered", "ordered", "ready", "cancelled"}

Active(c)     == pc[c] \in Running
Refuses(c)    == pc[c] \in MayFail
LosesReply(c) == pc[c] \in MayLose
Goto(c, step) == pc' = [pc EXCEPT ![c] = step]
Fails(c)      == Goto(c, "failed")
\* A write that is applied; the call goes on, or never hears of it.
Applied(c, step) == Goto(c, step) \/ (LosesReply(c) /\ Fails(c))

Init ==
    /\ volume = [d \in Disk |-> IF d \in Stock THEN "ready" ELSE "unordered"]
    /\ access = [d \in Disk |-> {}]
    /\ settings = [v \in Vm |-> {}]
    /\ registered = [v \in Vm |-> TRUE]
    /\ present = [v \in Vm |-> TRUE]
    /\ pc = [c \in Call |-> "idle"]
    /\ vm = [c \in Call |-> None]
    /\ disk = [c \in Call |-> None]
    /\ fetched = [c \in Call |-> {}]
    /\ view = [v \in Vm |-> [d \in Disk |-> "detached"]]
    /\ latest = [v \in Vm |-> None]

-----------------------------------------------------------------------------
(* The director: it knows the disks create_disk returned, keeps a disk at  *)
(* one guest, and runs at most one call at a time on a guest or on a disk. *)

Known(d)    == d \in Stock \/ \E c \in Call : pc[c] = "created" /\ disk[c] = d
Deleted(d)  == \E c \in Call : pc[c] \in DeleteSteps \cup {"deleted"} /\ disk[c] = d
Free(v, d)  == \A c \in Call : Active(c) => vm[c] # v /\ disk[c] # d
Attached(v) == {d \in Disk : view[v][d] = "attached"}

Start(c, step, v, d) ==
    /\ pc[c] = "idle"
    /\ Goto(c, step)
    /\ vm' = [vm EXCEPT ![c] = v]
    /\ disk' = [disk EXCEPT ![c] = d]
    /\ UNCHANGED <<cloud, agent, fetched>>

StartCreate(c) == Start(c, "orderVolume", None, None) /\ UNCHANGED director

StartAttach(c, v, d) ==
    /\ Known(d) /\ ~Deleted(d) /\ Free(v, d)
    /\ \A w \in Vm \ {v} : view[w][d] = "detached"
    /\ Start(c, "findDisk", v, d)
    /\ view' = [view EXCEPT ![v][d] = "unknown"]
    /\ latest' = [latest EXCEPT ![v] = None]

StartDetach(c, v, d) ==
    /\ Known(d) /\ ~Deleted(d) /\ Free(v, d)
    /\ Start(c, "readAllowed", v, d)
    /\ view' = [view EXCEPT ![v][d] = "unknown"]
    /\ latest' = [latest EXCEPT ![v] = IF @ = d THEN None ELSE @]

StartDelete(c, d) ==
    /\ Known(d) /\ \A v \in Vm : view[v][d] = "detached"
    /\ \A e \in Call : Active(e) => disk[e] # d
    /\ Start(c, "findToDelete", None, d) /\ UNCHANGED director

-----------------------------------------------------------------------------
(* create_disk: place the order, wait an hour for the volume.  When the    *)
(* wait ends in an error the volume stays, unknown to the director.        *)

OrderVolume(c) ==
    /\ pc[c] = "orderVolume"
    /\ \/ \E d \in Disk :
            /\ volume[d] = "unordered"
            /\ volume' = [volume EXCEPT ![d] = "ordered"]
            /\ disk' = [disk EXCEPT ![c] = d]
            /\ Applied(c, "awaitVolume")
       \/ /\ Refuses(c) \/ \A d \in Disk : volume[d] # "unordered"
          /\ Fails(c) /\ UNCHANGED <<volume, disk>>
    /\ UNCHANGED <<access, present, agent, vm, fetched, director>>

AwaitVolume(c) ==
    /\ pc[c] = "awaitVolume"
    /\ \/ volume[disk[c]] = "ready" /\ Goto(c, "created")
       \/ Refuses(c) /\ Fails(c)
    /\ UNCHANGED <<cloud, agent, args, fetched, director>>

-----------------------------------------------------------------------------
(* attach_disk.                                                            *)

FindDisk(c) ==
    /\ pc[c] = "findDisk"
    /\ \/ volume[disk[c]] = "ready" /\ Goto(c, "readVolume")
       \/ (volume[disk[c]] # "ready" \/ Refuses(c)) /\ Fails(c)
    /\ UNCHANGED <<cloud, agent, args, fetched, director>>

\* "Inspect if Volume is already authorized for instance".
AuthorizedSomewhere(v, d) == \E e \in Disk : v \in access[e]    \* any volume
AlreadyAuthorized(v, d)   == v \in access[d]

\* GetBlockVolumeDetailsBySoftLayerAccount, then GetInstance.
ReadVolume(c) ==
    /\ pc[c] = "readVolume"
    /\ \/ /\ volume[disk[c]] = "ready" /\ present[vm[c]]
          /\ Goto(c, IF AlreadyAuthorized(vm[c], disk[c]) THEN "credential" ELSE "authorize")
       \/ (volume[disk[c]] # "ready" \/ ~present[vm[c]] \/ Refuses(c)) /\ Fails(c)
    /\ UNCHANGED <<cloud, agent, args, fetched, director>>

\* AuthorizeHostToVolume: one request, whose polling GuestTransactions models.
Authorize(c) ==
    /\ pc[c] = "authorize"
    /\ \/ /\ present[vm[c]]
          /\ access' = [access EXCEPT ![disk[c]] = @ \cup {vm[c]}]
          /\ Applied(c, "credential")
       \/ (~present[vm[c]] \/ Refuses(c)) /\ Fails(c) /\ UNCHANGED access
    /\ UNCHANGED <<volume, present, agent, args, fetched, director>>

\* GetAllowedHostCredential: a guest that no volume allows has none.
ReadCredential(c) ==
    /\ pc[c] = "credential"
    /\ \/ (\E d \in Disk : vm[c] \in access[d]) /\ Goto(c, "fetchToAttach")
       \/ ((\A d \in Disk : vm[c] \notin access[d]) \/ Refuses(c)) /\ Fails(c)
    /\ UNCHANGED <<cloud, agent, args, fetched, director>>

\* registryClient.Fetch, in attach_disk and in detach_disk.
Fetch(c, from, to) ==
    /\ pc[c] = from
    /\ \/ /\ registered[vm[c]]
          /\ fetched' = [fetched EXCEPT ![c] = settings[vm[c]]]
          /\ Goto(c, to)
       \/ (~registered[vm[c]] \/ Refuses(c)) /\ Fails(c) /\ UNCHANGED fetched
    /\ UNCHANGED <<cloud, agent, args, director>>

\* AgentSettings.AttachPersistentDisk makes a new map of the one disk, or
\* returns the settings as they were and an error: the iSCSI settings are put
\* together with Sprintf, so a user name or a password that JSON has to escape
\* may make them unreadable.  DetachPersistentDisk deletes the disk from the
\* map fetched.
AttachPersistentDisk(disks, v, d) == IF v \in Unreadable THEN disks ELSE {d}
DetachEveryDisk(disks, d)      == {}    \* a new map here too
DetachNoDisk(disks, d)         == disks    \* put back as fetched
DetachPersistentDisk(disks, d) == disks \ {d}

\* registryClient.Update puts the whole document, creating it if need be.
Update(c, disks, outcome) ==
    \/ /\ settings' = [settings EXCEPT ![vm[c]] = disks]
       /\ registered' = [registered EXCEPT ![vm[c]] = TRUE]
       /\ Applied(c, outcome)
    \/ Refuses(c) /\ Fails(c) /\ UNCHANGED agent

FetchToAttach(c) == Fetch(c, "fetchToAttach", "putAttached")

\* The error of AttachPersistentDisk is overwritten by that of Update: the
\* settings it returned are put in either case, and success is answered.
PutAttached(c) ==
    /\ pc[c] = "putAttached"
    /\ Update(c, AttachPersistentDisk(fetched[c], vm[c], disk[c]), "attached")
    /\ IF pc'[c] = "attached"
       THEN /\ view' = [view EXCEPT ![vm[c]][disk[c]] = "attached"]
            /\ latest' = [latest EXCEPT ![vm[c]] = disk[c]]
       ELSE UNCHANGED director
    /\ UNCHANGED <<cloud, args, fetched>>

-----------------------------------------------------------------------------
(* detach_disk.                                                            *)

\* GetInstance, then the allowed guests of the volume: a guest that is not
\* among them needs no deauthorization.
ReadAllowed(c) ==
    /\ pc[c] = "readAllowed"
    /\ \/ /\ present[vm[c]] /\ volume[disk[c]] = "ready"
          /\ Goto(c, IF vm[c] \in access[disk[c]] THEN "deauthorize" ELSE "exists")
       \/ (~present[vm[c]] \/ volume[disk[c]] # "ready" \/ Refuses(c)) /\ Fails(c)
    /\ UNCHANGED <<cloud, agent, args, fetched, director>>

Deauthorize(c) ==
    /\ pc[c] = "deauthorize"
    /\ \/ /\ present[vm[c]]
          /\ access' = [access EXCEPT ![disk[c]] = @ \ {vm[c]}]
          /\ Applied(c, "exists")
       \/ (~present[vm[c]] \/ Refuses(c)) /\ Fails(c) /\ UNCHANGED access
    /\ UNCHANGED <<volume, present, agent, args, fetched, director>>

\* What the director concludes of a detach_disk that answered success.
KnowDetached(c) ==
    /\ view' = IF pc'[c] = "detached"
               THEN [view EXCEPT ![vm[c]][disk[c]] = "detached"] ELSE view
    /\ UNCHANGED latest

\* IsExist takes every status 500 for "no settings": then detach_disk is
\* done, with success.
CheckExists(c) ==
    /\ pc[c] = "exists"
    /\ \/ registered[vm[c]] /\ Goto(c, "fetchToDetach")
       \/ (~registered[vm[c]] \/ Registry500) /\ Goto(c, "detached")
       \/ Refuses(c) /\ Fails(c)
    /\ KnowDetached(c)
    /\ UNCHANGED <<cloud, agent, args, fetched>>

FetchToDetach(c) == Fetch(c, "fetchToDetach", "putDetached")

PutDetached(c) ==
    /\ pc[c] = "putDetached"
    /\ Update(c, DetachPersistentDisk(fetched[c], disk[c]), "detached")
    /\ KnowDetached(c)
    /\ UNCHANGED <<cloud, args, fetched>>

-----------------------------------------------------------------------------
(* delete_disk: a disk that is not found, or has no billing item any more, *)
(* counts as deleted.                                                      *)

FindToDelete(c) ==
    /\ pc[c] = "findToDelete"
    /\ \/ volume[disk[c]] = "ready" /\ Goto(c, "cancelVolume")
       \/ volume[disk[c]] = "cancelled" /\ Goto(c, "deleted")
       \/ Refuses(c) /\ Fails(c)
    /\ UNCHANGED <<cloud, agent, args, fetched, director>>

\* The boolean that CancelItem answers is dropped.
CancelVolumeUnheard(c) ==    \* and its error too
    /\ pc[c] = "cancelVolume" /\ Goto(c, "deleted")
    /\ UNCHANGED <<cloud, agent, args, fetched, director>>
CancelVolume(c) ==
    /\ pc[c] = "cancelVolume"
    /\ \/ /\ volume' = [volume EXCEPT ![disk[c]] = "cancelled"]
          /\ access' = [access EXCEPT ![disk[c]] = {}]
          /\ Applied(c, "deleted")
       \/ CancelDeclined /\ Goto(c, "deleted") /\ UNCHANGED <<volume, access>>
       \/ Refuses(c) /\ Fails(c) /\ UNCHANGED <<volume, access>>
    /\ UNCHANGED <<present, agent, args, fetched, director>>

-----------------------------------------------------------------------------
(* The process dies; SoftLayer works on its volumes; a guest disappears    *)
(* behind the director's back.                                             *)

Crash(c) ==
    /\ MayCrash /\ Active(c) /\ Fails(c)    \* the director hears of no result
    /\ UNCHANGED <<cloud, agent, args, fetched, director>>

Provision(d) ==
    /\ volume[d] = "ordered" /\ volume' = [volume EXCEPT ![d] = "ready"]
    /\ UNCHANGED <<access, present, agent, pc, args, fetched, director>>

\* Only looked at while a call works on the guest.
Vanish(v) ==
    /\ present[v] /\ \E c \in Call : Active(c) /\ vm[c] = v
    /\ present' = [present EXCEPT ![v] = FALSE]
    /\ access' = [d \in Disk |-> access[d] \ {v}]
    /\ UNCHANGED <<volume, agent, pc, args, fetched, director>>

\* ... and its agent settings with it.
Unregister(v) ==
    /\ ~present[v] /\ registered[v]
    /\ registered' = [registered EXCEPT ![v] = FALSE]
    /\ settings' = [settings EXCEPT ![v] = {}]
    /\ UNCHANGED <<cloud, pc, args, fetched, director>>

CallStep(c) ==
    \/ OrderVolume(c) \/ AwaitVolume(c)
    \/ FindDisk(c) \/ ReadVolume(c) \/ Authorize(c) \/ ReadCredential(c)
    \/ FetchToAttach(c) \/ PutAttached(c)
    \/ ReadAllowed(c) \/ Deauthorize(c) \/ CheckExists(c)
    \/ FetchToDetach(c) \/ PutDetached(c)
    \/ FindToDelete(c) \/ CancelVolume(c)

Direct(c) ==
    \/ StartCreate(c)
    \/ \E d \in Disk : StartDelete(c, d)
    \/ \E v \in Vm, d \in Disk : StartAttach(c, v, d) \/ StartDetach(c, v, d)

AllDone == (\A c \in Call : pc[c] \in Outcomes) /\ UNCHANGED vars

Next ==
    \/ \E c \in Call : Direct(c)
    \/ \E c \in Call : CallStep(c)
    \/ \E c \in Call : Crash(c)
    \/ \E d \in Disk : Provision(d)
    \/ \E v \in Vm : Vanish(v) \/ Unregister(v)
    \/ AllDone

Spec == Init /\ [][Next]_vars

-----------------------------------------------------------------------------
(* Properties.                                                             *)

\* Types of all variables.
TypeOK ==
    /\ volume \in [Disk -> VolumeState]
    /\ access \in [Disk -> SUBSET Vm]
    /\ settings \in [Vm -> SUBSET Disk]
    /\ registered \in [Vm -> BOOLEAN]
    /\ present \in [Vm -> BOOLEAN]
    /\ pc \in [Call -> {"idle"} \cup Running \cup Outcomes]
    /\ vm \in [Call -> Vm \cup {None}]
    /\ disk \in [Call -> Disk \cup {None}]
    /\ fetched \in [Call -> SUBSET Disk]
    /\ view \in [Vm -> [Disk -> {"unknown", "attached", "detached"}]]
    /\ latest \in [Vm -> Disk \cup {None}]

\* A disk the director knows attached is authorized for its guest as long
\* as the guest is there, whatever failed, was repeated or was lost before.
AttachedIsAuthorized ==
    \A v \in Vm : present[v] => \A d \in Attached(v) : v \in access[d]

LatestNamed(v) == present[v] /\ latest[v] # None => latest[v] \in settings[v]

\* The disk attached last stays named in the agent settings while other
\* disks are detached from the guest, also by calls that fail half way.  The
\* disks attached before it do not: AttachPersistentDisk makes a new map.  Nor
\* is it promised of a guest whose iSCSI settings do not unmarshal: there
\* attach_disk answers success without it.
LatestInSettings == \A v \in Vm \ Unreadable : LatestNamed(v)

\* Once detach_disk has answered success, and until the disk is attached
\* again, neither the volume nor the agent settings connect the two.
DetachedIsGone ==
    \A v \in Vm, d \in Disk : view[v][d] = "detached" =>
        v \notin access[d] /\ d \notin settings[v]

\* delete_disk answers success only for a cancelled volume, and a volume
\* that the director knows attached is there.
DeletedIsCancelled ==
    /\ \A c \in Call : pc[c] = "deleted" => volume[disk[c]] = "cancelled"
    /\ \A v \in Vm : \A d \in Attached(v) : volume[d] = "ready"
=============================================================================

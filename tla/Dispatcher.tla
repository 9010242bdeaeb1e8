----------------------------- MODULE Dispatcher -----------------------------
(***************************************************************************)
(* One process of the CPI per call of the director: it loads its           *)
(* configuration, reads one request, dispatches it to an action, runs the  *)
(* action's requests to SoftLayer and writes one response.  Processes run  *)
(* side by side on the same guests, disks and snapshots.  Requests may     *)
(* err, with or without their effect, and softlayer-go sends one again     *)
(* that timed out, then without its body.                                  *)
(***************************************************************************)
EXTENDS Naturals, Sequences, FiniteSets

CONSTANTS
    Call, Guest, Disk, Snapshot, Image,
    Calls,       \* Calls[c]: what a process may be given, [config, form, method, args]
    Place,       \* Place[g]: the datacenter of a guest that is there at first
    Stock,       \* the disks that are there at first
    Taken,       \* the snapshots, pairs of a snapshot and its disk
    None,
    Attempts,    \* bound: attempts that fit in the minute of a retry strategy
    Sends,       \* how often softlayer-go sends a request, at most
    MayFail,     \* steps whose request may err, "read" and "write" too
    Declines     \* steps whose request SoftLayer may answer with FALSE

ASSUME DispatcherAssumption ==
    /\ Attempts \in Nat \ {0} /\ Sends \in Nat \ {0}
    /\ DOMAIN Place \subseteq Guest /\ Stock \subseteq Disk
    /\ Taken \subseteq Snapshot \X Stock
    /\ None \notin {"CloudError", "CpiError", "NotImplemented"}
    /\ Declines \subseteq {"reboot", "setTags", "setNotes", "cancel", "deleteSnapshot"}

VARIABLES
    call,      \* call[c]: what the process was given, None before it starts
    pc,        \* "idle", "dispatch", "act", "write", "exited"
    todo,      \* todo[c]: the steps of the action's program that are left
    tries,     \* attempts of the step that failed so far
    sends,     \* [n, body]: the sends of the request that timed out, its body left
    raised,    \* raised[c]: the error the action returned, None for no error
    response,  \* response[c]: what the dispatcher made of it
    exit,      \* exit[c]: how the process ended
    out,       \* out[c]: "nothing", "whole", or "cut" short: what was written
    guests,    \* the guests at SoftLayer
    disk,      \* disk[d]: [state, place]
    snaps,     \* the snapshots at SoftLayer
    did,       \* did[c]: what requests of the call changed, or were declined to
    seen,      \* seen[c]: guests and disks shown at some time of the call
    lost       \* lost[c]: disks not billed at some time of the call

world   == <<guests, disk, snaps, did, seen, lost>>
process == <<call, pc, todo, tries, sends, raised, response, exit, out>>
vars    == <<call, pc, todo, tries, sends, raised, response, exit, out,
             guests, disk, snaps, did, seen, lost>>

Running(c) == pc[c] \notin {"idle", "exited"}

\* A disk is kept while SoftLayer bills it; one cancelled is shown for a while.
Kept(d)  == disk[d].state \in {"provisioning", "ready"}
Shown(d) == Kept(d) \/ disk[d].state = "cancelled"

-----------------------------------------------------------------------------
(* Arguments: [kind, v], as the payload has them.                          *)

Arg(kind, v) == [kind |-> kind, v |-> v]
Wrong        == [ok |-> FALSE, v |-> None]
Right(v)     == [ok |-> TRUE, v |-> v]

\* CIDs are numbers, or strings of digits; null is neither.
UnmarshalCIDOrZero(a) == IF a.kind \in {"number", "digits"} THEN Right(a.v) ELSE Right(0)
UnmarshalCID(a)       == IF a.kind \in {"number", "digits"} THEN Right(a.v) ELSE Wrong

\* The other types: null leaves their zero value.
UnmarshalOther(kind, a) ==
    CASE a.kind = "null" -> Right("")
      [] a.kind = kind   -> Right(a.v)
      [] OTHER           -> Wrong

Unmarshal(kind, a) == IF kind = "cid" THEN UnmarshalCID(a) ELSE UnmarshalOther(kind, a)

\* What the actions' methods Run take.  The factory has these actions, no others.
Parameters ==
    [has_vm |-> <<"cid">>, reboot_vm |-> <<"cid">>, delete_vm |-> <<"cid">>,
     set_vm_metadata |-> <<"cid", "object">>, configure_networks |-> <<"cid", "object">>,
     create_vm |-> <<"string", "cid", "object">>,
     has_disk |-> <<"cid">>, create_disk |-> <<"number", "object", "cid">>,
     delete_disk |-> <<"cid">>, attach_disk |-> <<"cid", "cid">>,
     detach_disk |-> <<"cid", "cid">>, get_disks |-> <<"cid">>,
     set_disk_metadata |-> <<"cid", "object">>,
     snapshot_disk |-> <<"cid", "object">>, delete_snapshot |-> <<"cid">>,
     create_stemcell |-> <<"string", "object">>, delete_stemcell |-> <<"cid">>,
     info |-> <<>>, ping |-> <<>>]

AvailableActions == DOMAIN Parameters

\* Too few arguments are an error, arguments too many are passed over.
ExtractMethodArgs(m, given) ==
    LET params == Parameters[m] IN
    IF /\ Len(given) >= Len(params)
       /\ \A i \in DOMAIN params : Unmarshal(params[i], given[i]).ok
    THEN Right([i \in DOMAIN params |-> Unmarshal(params[i], given[i]).v])
    ELSE Wrong

\* A number given for a disk is one of Disk, which also has those not made yet.
DiskMethods == {"has_disk", "delete_disk", "set_disk_metadata", "snapshot_disk"}
ASSUME NumberAssumption ==
    \A c \in Call : \A given \in Calls[c] :
        given.form = "whole" /\ given.method \in DiskMethods
                /\ ExtractMethodArgs(given.method, given.args).ok
            => given.args[1].v \in Disk

args(c)   == ExtractMethodArgs(call[c].method, call[c].args).v
cid(c)    == args(c)[1]
object(c) == args(c)[2]

-----------------------------------------------------------------------------
(* The actions' programs: requests to SoftLayer, and steps of their own in *)
(* capitals.  Calls that other modules model are one step "elsewhere".     *)

HasVM           == <<"findVM">>
RebootVM        == <<"reboot">>
SetVMMetadata   == <<"EXTRACT TAGS", "setTags">>
HasDisk         == <<"findDisk">>
DeleteDisk      == <<"findDisk", "readBilling", "cancel">>
SetDiskMetadata == <<"GENERATE NOTES", "setNotes">>
SnapshotDisk    == <<"findDisk", "createSnapshot">>
DeleteSnapshotProgram == <<"deleteSnapshot">>
GetDisks        == <<"allowedStorage">>
DeleteStemcell  == <<>>
ConfigureNetworks == <<"NOT SUPPORTED">>
Info            == <<>>
Ping            == <<>>

\* The disk goes where the VM is, or else where its properties say.
CreateDisk(c) ==
    CASE args(c)[3] # 0  -> <<"findVM", "createVolume">>
      [] args(c)[3] = 0 /\ object(c) # "" -> <<"createVolume">>
      [] OTHER           -> <<"INVALID">>

CreateStemcell(c) ==
    CASE object(c) \in Image \cup {"no image"} -> <<"findImage">>
      [] object(c) = "raw"   -> <<"elsewhere">>
      [] OTHER               -> <<"INVALID">>

Program(c) ==
    LET m == call[c].method IN
    CASE m = "has_vm"             -> HasVM
      [] m = "reboot_vm"          -> RebootVM
      [] m = "set_vm_metadata"    -> SetVMMetadata
      [] m = "has_disk"           -> HasDisk
      [] m = "create_disk"        -> CreateDisk(c)
      [] m = "delete_disk"        -> DeleteDisk
      [] m = "set_disk_metadata"  -> SetDiskMetadata
      [] m = "snapshot_disk"      -> SnapshotDisk
      [] m = "delete_snapshot"    -> DeleteSnapshotProgram
      [] m = "get_disks"          -> GetDisks
      [] m = "create_stemcell"    -> CreateStemcell(c)
      [] m = "delete_stemcell"    -> DeleteStemcell
      [] m = "configure_networks" -> ConfigureNetworks
      [] m = "info"               -> Info
      [] m = "ping"               -> Ping
      [] OTHER                    -> <<"elsewhere">>    \* VMLifecycle, DiskAttachment

At(c, s) == pc[c] = "act" /\ Head(todo[c]) = s
Named(c) == IF call[c].method = "create_disk" THEN args(c)[3] ELSE cid(c)

-----------------------------------------------------------------------------
(* What the dispatcher makes of an action's result or error.               *)

Fresh == [n |-> 0, body |-> TRUE]

Error(type, retry) == [type |-> type, retry |-> retry]
Plain              == Error(None, FALSE)    \* bosherr: no CloudError, not retryable

Forget(c) == /\ todo' = [todo EXCEPT ![c] = <<>>]
             /\ tries' = [tries EXCEPT ![c] = 0]
             /\ sends' = [sends EXCEPT ![c] = Fresh]

Respond(c, r) == /\ response' = [response EXCEPT ![c] = r]
                 /\ pc' = [pc EXCEPT ![c] = "write"]
                 /\ Forget(c)

\* Any error becomes a plain one of the same text: its type is lost.
ExtractReturns(e) == Plain

BuildCloudError(e) ==
    [result |-> None, error |-> IF e.type = None THEN "CloudError" ELSE e.type,
     retry |-> e.retry]
BuildCpiError            == [result |-> None, error |-> "CpiError", retry |-> FALSE]
BuildNotImplementedError == [result |-> None, error |-> "NotImplemented", retry |-> FALSE]

Return(c, v) == /\ Respond(c, [result |-> v, error |-> None, retry |-> FALSE])
                /\ UNCHANGED raised

Raise(c, e) == /\ Respond(c, BuildCloudError(ExtractReturns(e)))
               /\ raised' = [raised EXCEPT ![c] = e]

Proceed(c, v) ==
    IF Len(todo[c]) = 1 THEN Return(c, v)
    ELSE /\ todo' = [todo EXCEPT ![c] = Tail(@)]
         /\ tries' = [tries EXCEPT ![c] = 0] /\ sends' = [sends EXCEPT ![c] = Fresh]
         /\ UNCHANGED <<pc, raised, response>>

Exit(c, how) == exit' = [exit EXCEPT ![c] = how] /\ pc' = [pc EXCEPT ![c] = "exited"]

\* HandlePanic logs and exits; nothing was written.
HandlePanic(c) == Exit(c, 2) /\ Forget(c) /\ UNCHANGED <<raised, response>>

-----------------------------------------------------------------------------
(* A process, up to its action and after it.                               *)

Visible == guests \cup {d \in Disk : Shown(d)}
Unkept  == {d \in Disk : ~Kept(d)}
Observe ==
    \E visible \in {Visible'}, unkept \in {Unkept'} :
        /\ seen' = [c \in Call |-> IF Running(c) THEN seen[c] \cup visible ELSE seen[c]]
        /\ lost' = [c \in Call |-> IF Running(c) THEN lost[c] \cup unkept ELSE lost[c]]

\* A configuration says what is wrong with it.  NewConfigFromPath reads a file
\* of JSON and validates it: the plugin, the SoftLayer user and key, the agent's
\* mbus and blobstore; what it says of the registry is not looked at.
SoftLayerValid(config) == config # "bad softlayer"
AgentValid(config)     == config # "bad agent"
Validate(config) == config # "bad plugin" /\ SoftLayerValid(config) /\ AgentValid(config)
NewConfigFromPath(config) == config \notin {"no file", "bad JSON"} /\ Validate(config)

\* The director starts a process, which loads its configuration.
Start(c, given) ==
    /\ pc[c] = "idle"
    /\ call' = [call EXCEPT ![c] = given]
    /\ IF NewConfigFromPath(given.config) THEN pc' = [pc EXCEPT ![c] = "dispatch"] /\ UNCHANGED exit
       ELSE Exit(c, 1)
    /\ seen' = [seen EXCEPT ![c] = Visible]
    /\ lost' = [lost EXCEPT ![c] = Unkept]
    /\ UNCHANGED <<todo, tries, sends, raised, response, out, guests, disk, snaps, did>>

ReadFails(c) ==
    /\ pc[c] = "dispatch" /\ "read" \in MayFail
    /\ Exit(c, 1)
    /\ UNCHANGED <<call, todo, tries, sends, raised, response, out, world>>

Dispatch(c) ==
    LET r == call[c] IN
    /\ pc[c] = "dispatch"
    /\ IF r.form # "whole"    \* no JSON, or without a method or arguments
       THEN Respond(c, BuildCpiError) /\ UNCHANGED raised
       ELSE IF r.method \notin AvailableActions
       THEN Respond(c, BuildNotImplementedError) /\ UNCHANGED raised
       ELSE IF ~ExtractMethodArgs(r.method, r.args).ok THEN Raise(c, Plain)
       ELSE IF Program(c) = <<>> THEN Return(c, "done")
       ELSE /\ pc' = [pc EXCEPT ![c] = "act"] /\ todo' = [todo EXCEPT ![c] = Program(c)]
            /\ UNCHANGED <<tries, sends, raised, response>>
    /\ UNCHANGED <<call, exit, out, world>>

WriteAnyway(c) ==    \* the error of the write is dropped
    /\ pc[c] = "write" /\ Exit(c, 0)
    /\ \/ out' = [out EXCEPT ![c] = "whole"]
       \/ "write" \in MayFail /\ out' = [out EXCEPT ![c] = "cut"]
    /\ UNCHANGED <<call, todo, tries, sends, raised, response, world>>

Write(c) ==
    /\ pc[c] = "write"
    /\ \/ Exit(c, 0) /\ out' = [out EXCEPT ![c] = "whole"]
       \/ /\ "write" \in MayFail
          /\ Exit(c, 1) /\ out' = [out EXCEPT ![c] = "cut"]
    /\ UNCHANGED <<call, todo, tries, sends, raised, response, world>>

-----------------------------------------------------------------------------
(* Requests.  A request finds its object or not, or errs; when it timed    *)
(* out, softlayer-go sends it again, without the body it has already sent, *)
(* and SoftLayer refuses a request that lacks its body.                    *)

HasBody     == {"setTags", "setNotes", "cancel", "createSnapshot", "createVolume"}
Whole(c, s) == s \in HasBody => sends[c].body

Resend(c, s, body) ==
    /\ sends[c].n + 1 < Sends
    /\ sends' = [sends EXCEPT ![c] = [n |-> @.n + 1, body |-> @.body /\ (s \in HasBody => body)]]
    /\ UNCHANGED <<pc, todo, tries, raised, response>>

Request(c, s, there, Values, Effect(_), missing, error) ==
    /\ At(c, s)
    /\ UNCHANGED <<call, exit, out>>
    /\ \/ there /\ Whole(c, s) /\ \E v \in Values : Effect(v) /\ Proceed(c, v)
       \/ ~there /\ missing /\ UNCHANGED world
       \/ (s \in MayFail \/ ~Whole(c, s)) /\ error /\ UNCHANGED world
       \/ /\ s \in MayFail /\ there /\ Whole(c, s)    \* its answer is lost
          /\ error \/ Resend(c, s, FALSE)
          /\ \E v \in Values : Effect(v)
       \/ /\ s \in MayFail /\ UNCHANGED world
          /\ \E body \in BOOLEAN : Resend(c, s, body)

Nothing(v) == UNCHANGED world
Does(c, x) == did' = [did EXCEPT ![c] = @ \cup {x}]
DoesOnly(c, x) == Does(c, x) /\ UNCHANGED <<guests, disk, snaps, seen, lost>>

\* SoftLayer answers FALSE and changes nothing.  The code drops the boolean
\* and goes on as if it was TRUE.
Declined(c, s) == s \in Declines /\ DoesOnly(c, <<"declined", cid(c)>>)

RetryForever(c) ==    \* no deadline
    /\ sends' = [sends EXCEPT ![c] = Fresh]
    /\ UNCHANGED <<pc, todo, tries, raised, response>>

\* A minute of attempts.  The error of the last one is returned.
RetryOrRaise(c) ==
    \/ /\ tries[c] + 1 < Attempts
       /\ tries' = [tries EXCEPT ![c] = @ + 1] /\ sends' = [sends EXCEPT ![c] = Fresh]
       /\ UNCHANGED <<pc, todo, raised, response>>
    \/ Raise(c, Plain)

FindVM(c) ==
    Request(c, "findVM", Named(c) \in guests, {"yes"}, Nothing,
            Raise(c, Error("VMNotFound", FALSE)), RetryOrRaise(c))

GetImage(id) == id \in Image
FindImage(c) ==
    Request(c, "findImage", GetImage(object(c)), {object(c)}, Nothing,
            Raise(c, Error("StemcellNotFound", FALSE)), RetryOrRaise(c))

Reboot(c) ==
    LET soft(v) == DoesOnly(c, <<"reboot", cid(c)>>) \/ Declined(c, "reboot") IN
    Request(c, "reboot", cid(c) \in guests, {"done"}, soft, Raise(c, Plain), Raise(c, Plain))

SetTags(c) ==
    LET tag(v) == DoesOnly(c, <<"tag", cid(c)>>) \/ Declined(c, "setTags") IN
    Request(c, "setTags", cid(c) \in guests, {"done"}, tag,
            Raise(c, Error("VMNotFound", FALSE)), RetryOrRaise(c))

AllowedStorage(c) ==
    Request(c, "allowedStorage", cid(c) \in guests, {"disks"}, Nothing,
            Raise(c, Error("VMNotFound", FALSE)), Raise(c, Plain))

FindDisk(c) ==
    LET gone == CASE call[c].method = "delete_disk"   -> Return(c, "done")
                  [] call[c].method = "snapshot_disk" -> Raise(c, Plain)
                  [] OTHER -> Raise(c, Error("DiskNotFound", FALSE))
    IN  Request(c, "findDisk", Shown(cid(c)), {"yes"}, Nothing, gone, Raise(c, Plain))

SetNotes(c) ==
    LET note(v) == DoesOnly(c, <<"note", cid(c)>>) \/ Declined(c, "setNotes") IN
    Request(c, "setNotes", Shown(cid(c)), {"done"}, note,
            Raise(c, Error("DiskNotFound", FALSE)), Raise(c, Plain))

\* The billing item, looked up once more.  That it is missing is no error.
ReadBilling(c) ==
    LET none == IF Shown(cid(c)) THEN Return(c, "done") ELSE Raise(c, Plain) IN
    Request(c, "readBilling", Kept(cid(c)), {"yes"}, Nothing, none, Raise(c, Plain))

CancelItem(c) ==
    /\ disk' = [disk EXCEPT ![cid(c)].state = "cancelled"]
    /\ Does(c, <<"cancel", cid(c)>>)
    /\ UNCHANGED <<guests, snaps>> /\ Observe

CancelRegardless(c) ==    \* Delete returns nil whatever the error
    LET item(v) == CancelItem(c) \/ Declined(c, "cancel") IN
    Request(c, "cancel", Kept(cid(c)), {"done"}, item, Return(c, "done"), Return(c, "done"))

Cancel(c) ==
    LET item(v) == CancelItem(c) \/ Declined(c, "cancel") IN
    Request(c, "cancel", Kept(cid(c)), {"done"}, item, Raise(c, Plain), Raise(c, Plain))

\* CreateVolume, which GuestTransactions models: an order and the wait for it.
CreateVolume(c) ==
    LET place == IF args(c)[3] = 0 THEN object(c) ELSE Place[args(c)[3]]
        next     == CHOOSE d \in Disk : disk[d].state = "unborn"
        order(d) == /\ disk' = [disk EXCEPT ![d] = [state |-> "ready", place |-> place]]
                    /\ Does(c, <<"create", d, place>>)
                    /\ UNCHANGED <<guests, snaps>> /\ Observe
    IN  Request(c, "createVolume", TRUE, {next}, order, FALSE, Raise(c, Plain))

\* While the volume is provisioned the request is repeated, without a pause.
CreateSnapshot(c) ==
    LET d       == cid(c)
        next    == CHOOSE p \in Snapshot : /\ \A t \in Taken : t[1] # p
                                           /\ \A b \in Call : <<"snapshot", p>> \notin did[b]
        take(p) == /\ snaps' = snaps \cup {<<p, d>>}
                   /\ Does(c, <<"snapshot", p>>)
                   /\ UNCHANGED <<guests, disk, seen, lost>>
    IN  /\ At(c, "createSnapshot")
        /\ IF disk[d].state = "provisioning" THEN UNCHANGED vars
           ELSE Request(c, "createSnapshot", disk[d].state = "ready", {next}, take,
                        Raise(c, Plain), Raise(c, Plain))

DeleteSnapshot(c) ==
    LET p == cid(c)
        drop(v) == \/ /\ snaps' = {s \in snaps : s[1] # p}
                      /\ Does(c, <<"drop", p>>)
                      /\ UNCHANGED <<guests, disk, seen, lost>>
                   \/ Declined(c, "deleteSnapshot")
    IN  Request(c, "deleteSnapshot", \E s \in snaps : s[1] = p, {"done"}, drop,
                Raise(c, Plain), Raise(c, Plain))

-----------------------------------------------------------------------------
(* Steps without a request, and the calls modelled elsewhere.              *)

Local(c, s) == At(c, s) /\ UNCHANGED <<call, out, world>>

\* No key or a value that is no string: the process panics.
ExtractTagsFromVMMetadata(c) ==
    /\ Local(c, "EXTRACT TAGS")
    /\ IF object(c) = "tags" THEN Proceed(c, "done") /\ UNCHANGED exit ELSE HandlePanic(c)

GenerateNotesFromDiskMetadata(c) ==
    /\ Local(c, "GENERATE NOTES")
    /\ IF object(c) = "tags" THEN Proceed(c, "done") /\ UNCHANGED exit ELSE HandlePanic(c)

Refuse(c) ==
    /\ UNCHANGED exit
    /\ \/ Local(c, "NOT SUPPORTED") /\ Raise(c, Error("NotSupported", FALSE))
       \/ Local(c, "INVALID") /\ Raise(c, Plain)

\* What the services raise: create_vm's time out may be retried.
Raised(m) ==
    CASE m = "create_vm" -> {Plain, Error("VMCreationFailed", TRUE), Error("VMCreationFailed", FALSE)}
      [] m = "create_stemcell" -> {Plain}
      [] OTHER -> {Plain, Error("VMNotFound", FALSE)}

Elsewhere(c) ==
    /\ Local(c, "elsewhere")
    /\ \/ UNCHANGED exit /\ Proceed(c, "done")
       \/ UNCHANGED exit /\ \E e \in Raised(call[c].method) : Raise(c, e)
       \/ HandlePanic(c)

-----------------------------------------------------------------------------
(* SoftLayer, and whoever else uses the account.                           *)

DeleteGuest(g) ==
    /\ g \in guests /\ guests' = guests \ {g}
    /\ UNCHANGED <<process, disk, snaps, did>> /\ Observe

Provision(d) ==
    /\ disk[d].state = "provisioning" /\ disk' = [disk EXCEPT ![d].state = "ready"]
    /\ UNCHANGED <<process, guests, snaps, did, seen, lost>>

Reclaim(d) ==
    /\ disk[d].state = "cancelled" /\ disk' = [disk EXCEPT ![d].state = "gone"]
    /\ UNCHANGED <<process, guests, snaps, did, seen, lost>>

-----------------------------------------------------------------------------
Init ==
    /\ call = [c \in Call |-> None] /\ pc = [c \in Call |-> "idle"]
    /\ todo = [c \in Call |-> <<>>] /\ tries = [c \in Call |-> 0]
    /\ sends = [c \in Call |-> Fresh]
    /\ raised = [c \in Call |-> None] /\ response = [c \in Call |-> None]
    /\ exit = [c \in Call |-> None] /\ out = [c \in Call |-> "nothing"]
    /\ guests = DOMAIN Place
    /\ \E first \in {"provisioning", "ready"} :
          disk = [d \in Disk |-> [place |-> None,
                                 state |-> IF d \in Stock THEN first ELSE "unborn"]]
    /\ snaps = Taken
    /\ did = [c \in Call |-> {}]
    /\ seen = [c \in Call |-> {}] /\ lost = [c \in Call |-> {}]

Act(c) ==
    \/ FindVM(c) \/ FindImage(c) \/ Reboot(c) \/ SetTags(c) \/ AllowedStorage(c)
    \/ FindDisk(c) \/ SetNotes(c) \/ ReadBilling(c) \/ Cancel(c) \/ CreateVolume(c)
    \/ CreateSnapshot(c) \/ DeleteSnapshot(c)
    \/ ExtractTagsFromVMMetadata(c) \/ GenerateNotesFromDiskMetadata(c)
    \/ Refuse(c) \/ Elsewhere(c)

Advances(c) == ReadFails(c) \/ Dispatch(c) \/ Act(c) \/ Write(c)

Next ==
    \/ \E c \in Call : Advances(c) \/ \E given \in Calls[c] : Start(c, given)
    \/ \E g \in Guest : DeleteGuest(g)
    \/ \E d \in Disk : Provision(d) \/ Reclaim(d)

Spec == Init /\ [][Next]_vars

\* The process runs on, and SoftLayer finishes what it provisions.
FairSpec ==
    /\ Spec
    /\ \A c \in Call : WF_vars(Advances(c))
    /\ \A d \in Disk : WF_vars(Provision(d))

-----------------------------------------------------------------------------
Answered(c) == out[c] = "whole" /\ response[c].error = None
Asked(c, i) == call[c].args[i]
IsNumber(a) == a.kind \in {"number", "digits"}

\* A result is the truth: what was to be changed was changed by a request of
\* this call, and what is said to exist, or no longer to cost anything, was so
\* at some time of the call, whatever other processes did meanwhile, however
\* often a request was sent and whichever answer was lost (the actions' Run).
\* Excepted are requests that SoftLayer answered with FALSE, without effect:
\* the code drops the boolean, and the call succeeds.
AnswersAreTrue ==
    \A c \in Call : Answered(c) =>
        LET m == call[c].method
            x == Asked(c, 1).v
            v == response[c].result
            declined == <<"declined", x>> \in did[c]
        IN  /\ m \in {"has_vm", "has_disk", "get_disks"} => x \in seen[c]
            /\ m = "delete_disk"       => x \in lost[c] \/ declined
            /\ m = "reboot_vm"         => <<"reboot", x>> \in did[c] \/ declined
            /\ m = "set_vm_metadata"   => <<"tag", x>> \in did[c] \/ declined
            /\ m = "set_disk_metadata" => <<"note", x>> \in did[c] \/ declined
            /\ m = "delete_snapshot"   => <<"drop", x>> \in did[c] \/ declined
            /\ m = "snapshot_disk"     => <<"snapshot", v>> \in did[c]
            /\ m = "create_disk"       => \E w \in did[c] : w[1] = "create" /\ w[2] = v

\* A process changes only what its request names, by its CIDs as numbers or
\* strings of digits: a request that is malformed, or of an unknown method, or
\* with a CID that is none, changes nothing, and a disk for a VM is never
\* ordered in another datacenter (json_caller.go, cids.go, create_disk.go).
EffectsAreAsked ==
    \A c \in Call : \A w \in did[c] :
        LET m == call[c].method
            named == IsNumber(Asked(c, 1)) /\ w[2] = Asked(c, 1).v
        IN  /\ call[c].form = "whole" /\ NewConfigFromPath(call[c].config)
            /\ CASE w[1] = "reboot" -> m = "reboot_vm" /\ named
                 [] w[1] = "tag"    -> m = "set_vm_metadata" /\ named
                 [] w[1] = "note"   -> m = "set_disk_metadata" /\ named
                 [] w[1] = "cancel" -> m = "delete_disk" /\ named
                 [] w[1] = "drop"   -> m = "delete_snapshot" /\ named
                 [] w[1] = "snapshot" -> m = "snapshot_disk" /\ IsNumber(Asked(c, 1))
                 [] w[1] = "declined" -> named
                 [] w[1] = "create" ->
                      /\ m = "create_disk" /\ IsNumber(Asked(c, 3))
                      /\ w[3] = IF Asked(c, 3).v = 0 THEN Asked(c, 2).v
                                ELSE Place[Asked(c, 3).v]

\* The director may trust the exit status: a process that exits with 0 has
\* written one whole response, and one that panicked, could not read or write,
\* or had no valid configuration exits with another (main.go, cli.go).
ExitTellsAnswer ==
    \A c \in Call : pc[c] = "exited" => ((exit[c] = 0) <=> (out[c] = "whole"))

\* Every process ends by itself: its attempts are limited, and the request for a
\* snapshot, which is repeated without limit, waits for a volume that SoftLayer
\* finishes (retry strategies, CreateSnapshot).
EveryCallEnds == \A c \in Call : (pc[c] = "dispatch") ~> (pc[c] = "exited")

\* An error that may be retried is answered as such, as json_test.go and
\* docs/highlight_of_cpi_ng.md have it.
RetryIsTold ==
    \A c \in Call :
        (out[c] = "whole" /\ raised[c] # None /\ response[c].error # None)
            => response[c].retry = raised[c].retry

=============================================================================

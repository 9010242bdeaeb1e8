# A formal model of bosh-softlayer-cpi

bosh-softlayer-cpi is the program by which a BOSH director drives SoftLayer
(IBM Cloud infrastructure). The director starts one operating system process
for each call (`create_vm`, `attach_disk`, ...); the process reads a request,
talks to remote services, answers and exits. The processes share nothing but
those services:

  * the SoftLayer account (guests, iSCSI volumes, orders, images),
  * the agent registry, an HTTP store of one settings document per guest,
  * the VM pool server (VPS), if `enable_vps` is set,
  * a Swift object store, through which stemcell images are imported.

No call is a transaction. A call is a sequence of remote operations, any of
which may be refused, time out, or be applied and its answer lost; the process
may die between two of them, and other calls run at the same time. What the
models ask is what is left behind then.

## Inventory

Paths are relative to `src/src/bosh-softlayer-cpi/`.

| component | state | operations | interacts with |
|---|---|---|---|
| main, transport, dispatcher (`main/`, `api/`, `config/`) | none that lasts | read the configuration and one request, dispatch it by reflection, answer, exit | actions |
| `create_vm`, `delete_vm` (`action/`) | `osReloaded`, the ids found so far | order or reload a guest, configure, register; deferred clean up | guest service, registry |
| disk actions (`action/*_disk.go`) | the settings fetched | create, attach, detach, delete | disk and guest service, registry |
| other actions | none | reboot, metadata, snapshots, stemcells, questions | services |
| virtual guest service | none | create, clean up, delete, find, reload, upgrade, disks | client manager |
| client manager (`softlayer/client/client.go`) | none | SoftLayer calls, polling waits with deadlines, orders and prices, the pool protocol | SoftLayer, VPS |
| agent registry client (`registry/`) | a settings document per guest | fetch, update, delete, is-exist, five attempts each | registry server |
| segmented upload (`swift_large_object.go`) | parts, buffers, wait group, `lo.err`; 12 goroutines | write, close, abort | Swift |
| VPS client (`softlayer/vps_service`, generated) | pool entries at the server | order by filter, get, add, update, set free | VPS server |
| network configuration (`softlayer_ubuntu_net_manager.go`, `networks.go`) | none (pure) | assign, normalise, finalise the networks | `create_vm` |
| disk, snapshot, stemcell service | none | thin layers over the client manager | client manager, Swift |
| logging, release jobs | none | | |

What is hard in each, and what makes it correct:

  * **create_vm / delete_vm**: two calls must never own one guest, whether it
    was ordered, found by its address, or taken from the pool; a failure must
    clean up exactly what was ordered; a repeated delete must converge.
  * **disks**: a volume's access list and the agent settings change one after
    the other, and the director's knowledge (answers) must not run ahead of
    either.
  * **upload**: parts are put concurrently and may fail; success must mean that
    all of them are there, failure that none is, and no goroutine may hang.
  * **waits and orders**: every loop around the remote side has a deadline and
    should obey it, and should not take the state before a transaction for the
    one after it; an order is placed once and for what was asked.
  * **registry and pool clients**: an answer that is lost, late, cut or somebody
    else's must not become a success, nor a request an effect twice.
  * **dispatcher**: a result must be true, a bad request must change nothing,
    and the director must be able to tell an answer from a dead process.
  * **networks**: the result must not depend on the order of a Go map.

`PROJECT.json` lists each hazard with its line and the properties that cover it.

## Modules

| module | models | status |
|---|---|---|
| `VMContract` | what the director may rely on when it keeps its guests | abstract specification |
| `VMLifecycle` | create_vm, delete_vm, guest service, pool, registry entry | checked, proved, implements `VMContract` without the pool |
| `VMLifecycleProofs` | theorems of `VMLifecycle`, with and without the pool, among them the refinement | proved |
| `DiskAttachment` | the four disk calls, volumes, settings | checked, proved |
| `DiskAttachmentProofs` | theorems of `DiskAttachment` | proved |
| `LargeObject` | the segmented upload: writer, workers, buffer pool | checked in `StemcellImport`, proved |
| `StemcellImport` | the import of a tarball; extends `LargeObject` | checked, proved |
| `StemcellImportProofs` | theorems of `StemcellImport` and of the upload in it | proved |
| `NetworkSettings` | the networks of create_vm, from the manifest to the agent | checked, proved |
| `NetworkSettingsProofs` | theorems of `NetworkSettings` | proved |
| `RegistryContract` | what a caller of the registry client may rely on | abstract specification |
| `RegistryClient` | the registry client, attempt by attempt | checked, proved, implements `RegistryContract` |
| `RegistryClientProofs` | theorems of `RegistryClient`, among them the refinement | proved |
| `Prices` | the prices of a volume, of a second disk, of an upgrade | operators, checked and proved about in `GuestTransactions` |
| `GuestTransactions` | the waits and orders of the client manager, poll by poll; extends `Prices` | checked, proved |
| `GuestTransactionsProofs` | theorems of `GuestTransactions` | proved |
| `PoolContract` | what a caller of the pool client may rely on | abstract specification |
| `VpsClient` | the pool client and the two calls that use it, request by request | checked, proved, implements `PoolContract` |
| `VpsClientProofs` | theorems of `VpsClient`, among them the refinement | proved |
| `Dispatcher` | the process: configuration, request, dispatch, the other actions, answer, exit | checked, proved |
| `DispatcherProofs` | theorems of `Dispatcher` | proved |
| `MC*` | instances: symmetry sets, price lists, requests | |

The modules look at the same calls from different distances. `VMLifecycle` and
`DiskAttachment` have the calls side by side, each remote operation one step;
`GuestTransactions`, `RegistryClient` and `VpsClient` open that step and have
what is inside: polls, attempts, answers; `Dispatcher` has what is around it.
What the near modules establish is what the far ones assume of a step: a success
had its effect, a failure had it or not.

### VMContract and VMLifecycle

The contract has what the director sees of its calls and guests. A `create_vm`
that answers hands over, in that very step, a guest that nobody else has, that
runs its image and has its settings; until the director asks for its deletion
no step touches it; a `delete_vm` that answers leaves it cancelled and without
settings. What a call does before it answers, and what a failed one leaves, may
be done only to guests that nobody holds, and a guest of the stock is cancelled
only by a `delete_vm` of it. The mapping (`Answers`, `Cids`, `Runs`, `Cancelled`)
forgets the steps of a call: all of them are "open". In pool mode the contract is not
kept: a guest is given back to the pool before its settings are deleted
(`delete_vm.go:39`), so the call that takes it in between loses them.

`guest`, `pool` and `registry` are the remote state; `pc`, `vm`, `ip`,
`osReloaded` and `lease` belong to the calls. A step of a call is one remote
operation with the local work around it, guarded by what the code tests, and it
goes on to the step the code goes on to, to `failed`, or to `cleanup` (the
deferred function of `create_vm`). `MayFail` names the steps at which the remote
side may refuse or time out, `MayLose` those whose effect may happen without
the call hearing of it, `MayCrash` lets a process die anywhere. A call in
`Healthy` meets none of these: it asks whether a call that the cloud does not
refuse succeeds after what others left.

  * A guest is its own address: `ip[c] = v` says that a dynamic network of the
    call carries the address of guest `v`. `FindByIp` is the search for it.
  * The director is external. It starts calls, repeats a `delete_vm` that
    failed (`DirectorRetries`), never hands an address to two instances
    (`Assignable`), and does not repeat a `create_vm` with the same id.
  * `booted[v]` and `registry[v]` name the call whose image and settings the
    guest has, so that a property can say whose they are.
  * Polling waits are one step enabled when the state waited for has come.
    The polls, and what they may read before the transaction shows, are in
    `GuestTransactions`.
  * Prices, sizes, network components and the text of the template are
    abstracted to "succeeds or fails" (`Prepare`, `UpgradeForReload`,
    `Configure`); they are in `Prices` and `NetworkSettings`.

### DiskAttachment

`access[d]` is the volume's list of allowed guests, `settings[v]` the disks in
the agent settings. `fetched[c]` is the document a call has read and will put
back. `view` is what the director concludes from answers: a failed attach or
detach leaves it `unknown`, and the director then repeats either. `Free` says
that the director runs one call at a time on a guest and on a disk. `Vanish`
removes a guest behind everyone's back. An operation of SoftLayer that blocks a
volume is in `GuestTransactions`. `Unreadable` are the guests whose iSCSI
settings do not unmarshal, which `PutAttached` passes over: one of the two in the
run. Two constants switch on what no line of the
repository forbids, and are off in the run: `Registry500` (the registry answers
500 in trouble, which reads as "no settings") and `CancelDeclined` (a
cancellation answered with FALSE, which `Dispatcher` has in every run).

### LargeObject

The writer is the goroutine of `UploadSwiftLargeObject` (`io.Copy`, `Close`).
A channel send is a step taken together with its receiver: `Send(w)`,
`GetBuffer`, `GiveBuffer(w)`. `pending` is the wait group. A segment is absent,
stored whole, or stored damaged (its ETag differs, and it is put again). It is
known by the number of its part; `SegmentBefore` is the order of the names that
`putPart` makes of the numbers, in which Swift joins the segments. The
spare buffer that the pool makes ahead is not counted in `free`. `lo.err` is
read and written without a lock; the model gives each access its turn.

### StemcellImport

`CreateFromTarball` around the upload: its variables are added to those of
`LargeObject`, whose steps run while `import` is at `upload`; the workers and
the buffer pool are not tied to it, they go on until the process exits. So a
worker of an upload that failed may still put a segment next to the deferred
deletes, and one into a container that is gone is refused. A deferred function
is run when the step that follows its registration was reached: `Fails(step)`
goes to the first of them. Their errors are only logged (`logged`). External are
`ImageReady` (SoftLayer reads the object some time after it answered the image
id; the image has the segments that are there then) and `Empty` (Swift deletes
only empty containers). The deadline of 20 seconds in `setImageBootModeAsHVM` is
passed over while the image has no primary block device, so the model has no
timeout there; other errors and the timeout after them are one refusal.

### NetworkSettings

`requested` is the `networks` argument of `create_vm`; any manifest within the
bounds is an initial state. `getNetworkComponents` fills `private` and `public`,
`AsInstanceServiceNetworks` fills `networks`, and the stages of
`ConfigureNetworks` change it and end in `settings`. Each range over a map whose
result may depend on the order takes one network of `unvisited` after the other
(`AddComponents`, `ParseCloudProperties`) or chooses the numbering
(`NewIndexedNamer`); the others are one step. A pointer comparison is modelled by
what it does: `SecondPrivate` is true of any second one, and two public
components are never different. `subnet_ids` are modelled although the
repository does not support them; networks by subnet end in `failed` or
`panicked`. A network name is a sequence, so that the name derived for a second
id ("net_1") is `Append(net, 1)`; `NetworkAssumption` keeps names of the
manifest apart from derived ones, and both from the names of networks that
`NormalizeDynamics` makes up (`generated-private` and `generated-public`).

`Template` is the part of the virtual guest template that the networks decide,
`Supported` the network types that are accepted, and `AsRegistryNetwork` what of
a network goes to the registry.

### RegistryContract and RegistryClient

The contract takes the settings of one guest for a register. A put has its
effect at most once, while it is open or after it failed; a delete may have it
again and again; a success is never made up; a read returns what the document
was at some time of the call.

`RegistryClient` has what `http_client.go` does. An edit is one CPI call (a
create puts, an attach fetches and puts, a detach asks, fetches and puts, a
delete deletes), and each of its requests is one request object that `doRequest`
sends up to `MaxAttempts` times. `unread[e]` says whether the body of the object
has been read: a PUT whose connection broke after it was sent cannot be sent
again, because net/http refuses a body shorter than its length
(`CanTransmit`) - which is why it is never applied twice. A broken connection may
leave the request on its way (`late`), and `ServeLate` delivers it at any later
time or never. The server is external; a document that is not there is status
500, as the comment at `http_client.go:121` says, and `IsExist` reads every 500
so. `TroubleStatus` are answers of a server or gateway in trouble; 500 is not
among them in the run (see `Registry500` of `DiskAttachment` for what it does).
The refinement mapping gives each request of the contract the document fixed
when the client made it. `expected` is what the director has to reckon with,
and `settled` says that no edit began while anything else was on its way:
overlapping edits lose updates, by the design of fetch, edit and put.

### Prices and GuestTransactions

`Prices` translates the `Find*Price` and `Select*` functions of `client.go`: a
package is a sequence of items with a sequence of prices each, and the first
price that fits is taken, where an unreadable restriction (`Garbled`) ends the
search. A price is known by its place (item and number in it), a search is the
set of places at which its loops would return, and `FirstOf` is the first of
them; the number 0 is the range of an item, which is read before its prices.
Sizes are rounded by `GetSoftLayerDiskSize` (up, and above 12000 GB
down to it), memory is divided by 1024, options without a price are passed
over, and the largest iops for a size is looked up in the performance package
also for an order in the storage-as-a-service one: all as the code has it.

`GuestTransactions` runs one call after the other (`plan`), each a sequence of
requests and waits (`Program`). A wait reads the guest anew at each poll and
sleeps until its deadline; `left` is the number of sleeps that fit before it
(`Polls`), and `Carried` are waits that go on under the deadline of the one
before. `ReloadInstance` takes its ten seconds from before `SetUserData` and the
wait for an idle guest: `reloadLeft` counts them. SoftLayer runs the
transactions: it begins a reload some time after it was asked for, shows it at
once or late as the last reload, leaves a guest halted, completes orders or
never does. What it does on its own account (`others`) is a transaction of its
own, to take the guest away (`Vanish`), or to block the volume. `alone` says that
no transaction but the call's own ran, that the reload was shown at once and that
no edit was answered FALSE: `WaitInstanceHasActiveTransaction` takes any
transaction for the reload's, and `EditInstance` drops the boolean, so a success
means nothing without it. An upgrade for a second disk asks for the prices and
then for the guest; of one that is gone by then `UpgradeChoices` has the empty
price (`NoPrice`) that is ordered, and the order is marked `gone`.

### PoolContract and VpsClient

The contract takes the pool for a table: an order takes a free guest that fits
away from all others, an update puts an entry, and nothing is done twice or
after it was answered. `VpsClient` models the generated client where
`CreateInstanceFromVPS` and `DeleteInstanceFromVPS` use it: what each request
says (`OrderVMByFilterParams`, `UpdateVMParams`, ...), and how its answer is read
(`Read`: codes an operation does not list are errors, a missing body is passed
over, one that is cut is an error). A request is sent once. `Spoil` answers for
a gateway or spoils the answer, `GiveUp` is the timeout of the transport or the
death of the process, after which the request may still reach the server.
A missing body makes `create_vm` panic on a nil pointer, and so does a pool miss
after it ordered a guest (`client.go:544`). `users[g]` are the VMs that, for the
director, are on a guest. A delete that failed after the entry was to be freed
leaves the guest `Doubtful`: its repetition may free an entry that another call
has taken.

### Dispatcher

`Calls[c]` is what a process may be given: a configuration with something wrong,
a request with something missing, a method, and arguments with their JSON kinds.
`ExtractMethodArgs` decodes them as `json_caller.go` and `cids.go` do, with too many
arguments passed over and null as a zero value for all but CIDs. An action is a
sequence of requests to SoftLayer and of steps of its own (`Program`); the calls
that other modules model are one step, `Elsewhere`. A request finds its object,
misses it or errs; `RetryOrRaise` are the retry strategies of a minute, `Resend`
the repetitions of softlayer-go, whose request has lost its body by then: the
model assumes that SoftLayer refuses such a request. `Declines` are the requests
that SoftLayer may answer with FALSE and without effect; the code drops the
boolean of all of them, so `Declined` goes on as if the effect was there, and only
`did` tells them apart. `raised` is the error an
action returned, `response` what the dispatcher made of it, `exit` and `out` what
the director sees. `HandlePanic` is the deferred function of `main`. The answer of
`get_disks` begins with an empty CID (`client.go:297`), and `has_vm`, `has_disk`
return an error where BOSH expects false: a result is "yes" or an error. A
process that is killed leaves a prefix of its behaviour, so there is no action
for it. `seen` and `lost` remember what was there at some time of a call, since
an answer can only be true of the past.

## Runs

| run | instance | shows |
|---|---|---|
| `vm_plain` | 3 guests (1 in stock), 4 calls, all faults | ownership, service, deletion, stock; `VMLifecycle` implements `VMContract`; no pool |
| `vm_pool` | pool, 3 guests (2 in stock), 3 calls | ownership and liveness of pooled guests |
| `vm_cleanup` | OS reload off, faults after the order and in deletes, calls that may die, one that meets no fault | a failed create_vm cancels its guest; every call ends, and a delete_vm without a fault of its own ends in success whatever the ones before it left |
| `vm_reload_fallthrough` | OS reload on, no address | finding: the clean up is skipped |
| `disk_calls` | 3 volumes (2 there at first), 2 guests (one with iSCSI settings that do not unmarshal), 4 calls, all faults, crashes | agreement of volume, settings and director |
| `stemcell_import` | 2 workers, up to 3 parts, all faults but lost manifests | an imported image is whole and in order; a buffer has one user; after a Close nothing is left in Swift; the import ends |
| `networks` | 2 networks, 2 private and 2 public VLANs, ordered and reloaded guests | every interface has one dynamic network, aliases differ, one gateway, names are kept |
| `registry` | 2 edits, 3 attempts, 2 faults | `RegistryClient` implements `RegistryContract`; no edit is lost or made twice; every edit ends |
| `transactions` | 15 plans of up to 2 calls, 2 price lists, 1 act of SoftLayer's own | success means what was asked; orders are counted and fit; every call ends that does not wait for a blocked volume |
| `pool_client` | 3 calls, 2 guests, 2 faults | `VpsClient` implements `PoolContract`; no guest is shared or offered while held; the size is the one asked for |
| `dispatcher` | 2 processes, 39 requests for the one and 5 for the other, all faults | answers are true but for requests answered FALSE, effects are asked for, the exit status is that of the answer, every process ends |
| `dispatcher_retry` | the same | finding: an error that may be retried is answered as one that may not |

Deadlock is checked in every run but the two of `Dispatcher`, whose processes
exit: a model stops only when all its calls have ended (`AllDone`, `Over`), so a
goroutine or a call that waits for ever is an error also for runs that check
invariants. Of the type invariants one is checked by a run, that of the two modules
of the import (`ImportTypeOK` in `stemcell_import`). Those of `VMLifecycle`,
`DiskAttachment`, `RegistryClient`, `GuestTransactions`, `VpsClient` and
`NetworkSettings` are proved, and hold in the instances of their runs when they are
added there. The variables of `Dispatcher` have their types by the first part
(`Kinds`) of its proved invariant.

**Bounds.** The hazards are about pairs: two calls and one guest, a call and
what an earlier one left, a disk attached after another. Four calls allow
create, delete, repeated delete and a second create; three in pool mode,
where each create has twice the steps (four were run and hold, at ten times the
states). Two workers are enough for a part that fails while another is on its
way, and three parts for one worker to serve two. The code has 10 workers and 5
attempts (`MaxAttempts`): a third attempt already repeats one that was itself a
repetition, and two faults break two of three. Two edits of the registry are the
later and the earlier; three pool calls are two creates and a delete, or a delete
repeated next to a create. `Polls` are the sleeps that fit: one, so that a wait
can be in time or too late, and two where it is halved. The price lists have for
each search a price that fits, ones that almost do, and one that cannot be read; one
request is for a volume above the largest size. One act of SoftLayer's own
(`MaxOther`) is enough to take a guest away between two requests or to block a
volume for ever.
`Attempts` and `Sends` of `Dispatcher` are two, once and again.
Two networks of two ids each meet on an interface in every way, a third would
only repeat a pair.

**Fairness.** A process that was started keeps being scheduled (weak fairness
on the steps of each call and goroutine). In `VMLifecycle` SoftLayer completes the
transactions it accepted (`Settle`), and in `StemcellImport` the image imports it
began (`ImageReady`: without this the loop of `setImageBootModeAsHVM` does not
end). In `GuestTransactions` nothing at all is assumed of SoftLayer: transactions,
orders and what blocks a volume may hang for ever. The deadlines end the waits
(`EndsUnlessBlocked`), except in the loops of `CreateSnapshot`,
`AuthorizeHostToVolume` and `DeauthorizeHostToVolume`, which jump over theirs
while the volume is blocked. In `Dispatcher`
the volume of a snapshot is provisioned some time (`Provision`). In
`VMLifecycle` a success is asked of the calls in `Healthy` only. In `RegistryClient` the
server answers a request that reached it over a connection that holds: the HTTP
client has no timeout. No fairness is assumed of the director, of crashes or of
faults.

## Findings

  1. `osReloaded` is set for every `create_vm` on a CPI with OS reload enabled
     (`create_vm.go:124`), although `createByOsReload` reloads nothing for a
     call without an address; a later failure then leaves the ordered guest.
  2. The dispatcher makes a plain error of the text of every error an action
     returns (`json_caller.go:127`): the type of the error and `ok_to_retry` are
     lost, and the retries by the director that
     `docs/highlight_of_cpi_ng.md` describes never happen.

Also in the models, without a run of their own; the first six are the limits
of properties that hold, which name them, and TLC finds each when the limit is
taken away:

  * `attach_disk` drops the error of `AttachPersistentDisk` (`attach_disk.go:57`):
    if the iSCSI settings, put together with `Sprintf`, do not unmarshal, the
    settings are put unchanged and success is answered, although the comment says
    that the function adds the disk (`agent_settings.go:154`). `LatestInSettings`
    is about the guests that are not `Unreadable`.
  * Segment names are decimal numbers without padding
    (`swift_large_object.go:254`), other than the comment at line 131 has it: from
    ten parts on (a file above 180 MB) Swift joins the segments of an image in
    another order than that of the file. `ImportedImageIsWhole` has the parts in
    order for nine at most.
  * `CreateSnapshot`, `AuthorizeHostToVolume` and `DeauthorizeHostToVolume` wait for
    a blocked volume without a look at their deadline (`client.go:1234`, `1590`,
    `1635`), other than a test (`disk_handler_test.go:528`) and the error they have
    for it say. `EndsUnlessBlocked` excepts a call that waits there.
  * Memory is divided by 1024 and the rest dropped (`client.go:763`), although it
    is asked for in megabytes (`docs/softlayer-cpi.md:85`): 1536 MB become one
    gigabyte. `OrdersFit` compares memory of whole gigabytes.
  * A guest that disappears between two requests of an upgrade makes
    `getUpgradeItemPriceForSecondDisk` return an empty price and no error
    (`client.go:930`), which is then ordered. `OrdersFit` allows an empty price for
    a guest that is gone.
  * Booleans of SoftLayer are dropped: reboot_vm, set_vm_metadata, set_disk_metadata,
    delete_snapshot, delete_disk (`client.go:614`, `888`, `1015`, `1247`, `1578`) and
    `EditInstance` within a reload (`596`) succeed without their effect when the
    answer is FALSE. `AnswersAreTrue`, `DeletedIsCancelled` and `ReloadedIsAsked`
    except such answers.
  * `AttachPersistentDisk` replaces the disks in the agent settings
    (`agent_settings.go:156`): after a second attach only the second is there.
    `LatestInSettings` therefore speaks of the last one attached.
  * A second public VLAN is not refused: `create_vm.go:269` and `301` compare the
    public component with itself, and a private VLAN that is named twice is
    refused as if it were two (`create_vm.go:261`, `293`).
  * A derived network name may be that of another network (`networks.go:110`),
    and a network by subnet next to a public VLAN panics (`networks.go:59`).
  * A pool miss panics at `client.go:544`, which reads
    `template.PrimaryBackendIpAddress`.
  * A Write that aborts leaves segments (`swift_large_object.go:188`), and an
    image whose boot mode cannot be set stays (`client.go:1926`).
  * Metadata with no key or with a value that is no string end the process in a
    panic (`softlayer_disk_service_metadata.go:109`).

## Proofs

All theorems hold for any number of guests, disks, calls, edits, workers and
processes, any number of faults and any deadlines; where one needs a hypothesis on
the configuration, it is named below. Each has the same shape: an inductive
invariant holds initially, each action preserves it (one lemma per action or per
part of the invariant), and the property follows. Each inductive invariant was
checked by TLC on the instance of its module's run before it was proved.

### VMLifecycle

`TypeCorrect` holds in every configuration. The others need to know who can
touch a guest, and `ExclusiveGuest` is not inductive: that two calls do not
share a guest now says nothing about a guest that is found by its address next.

  * Without the pool (`~EnableVps`) the invariant `AccountInv` adds: the pool is
    unused; a call has picked a guest only in the steps that use one
    (`ClaimInv`); an address asked for by a call that reloads belongs to no other
    call or lease (`AddressInv`); each lease names a call that returned and the
    guest it returned (`LeaseInv`); what a call ordered or reloaded and nobody
    else touched still runs it (`BootInv`); what was deleted stays cancelled
    (`GoneInv`); and stock is cancelled only through a lease (`StockInv`). From
    it follow `OneCallPerGuest`, `HeldGuestsServe`, `DeletedStaysGone`,
    `StockIsKept`.
  * In pool mode the same questions are proved from `PoolInv` under
    `PoolConfig`: OS reload by address off and no repeated `delete_vm`. Both
    assumptions are needed: with either removed TLC finds two calls with one
    guest (a reload picks a pooled guest by its address; a repeated delete frees
    an entry that another call has taken).
  * `FailedCreateCleansUp`, with or without the pool: when OS reload is off, the
    answer to an order is never lost, and neither provisioning nor the clean up
    fails, a `create_vm` that failed has cancelled the guest it ordered. Its
    invariants (`CleanInv`, `PooledInv`) follow a guest from its order: its call
    works on it, has cancelled it, or is over. Each hypothesis is needed; TLC
    finds a guest left behind when any one of them is dropped: a failure after
    `osReloaded` was set (the first finding above), an order whose id never came
    back, a provisioning error that is returned without the id (`client.go:501`), and a clean up that is refused.
  * `CallsKeepContract` is the refinement, without the pool: the initial states map
    to initial states of `VMContract`, and each step to one of its steps or a
    stutter, one lemma per kind of step (`RunIsPromised`, `SettingsIsPromised`,
    `CancelIsPromised`, ...). The heart is `ClaimedIsNotHeld`, from
    `ClaimInv` and `LeaseInv`: a guest a call works on is not one the director holds.
    It says more than the invariants together: they see states, it says that no
    step between an answer and the deletion writes to the guest.

### NetworkSettings

The theorems are for any number of networks, VLANs and ids. `NetTypeInv` has the
types at each stage. `NetInv` follows the networks through the stages: the numbers of the
`LinkNamer` are distinct, and every network that is not dynamic has one when the settings are made
(`IndexInv`); the names `NormalizeDynamics` makes up are free until it does
(`NameInv`); after `NormalizeNetworkDefinitions` a network is on an interface of
the guest (`NormalizedInv`), and after `NormalizeDynamics` each interface has exactly
one that is dynamic (`DynamicsInv`). The last makes `InterfacesConfigured`, and with
`IndexInv` also `AliasesDistinct` (a dynamic network is alone on its interface, so
its alias is nobody's); `OneGateway` needs it too, since only a dynamic network on
the public interface keeps a gateway. `RequestedNetworksKept` is proved from
`KeptInv`, what each network is by the stage it is in: it holds although a network is
parsed into several names because derived names are no names of the manifest
(`NetworkAssumption`).

### DiskAttachment

`DiskInv` says who else may touch what a call has read. `Exclusive`: the director
runs one call at a time on a guest and on a disk, so `fetched` cannot become
stale; `ViewInv`, `NoAccess`, `NoSettings`: what the director has concluded, and
what is then on the volume and in the settings while no call is at it; `AttachInv`,
`DetachInv`, `FetchInv`, `CancelInv`: how far a running call has come.
`AttachedDiskIsAuthorized` and `LatestDiskInSettings` need no hypothesis; the
second is about the guests that are not `Unreadable`, because for the others it is
false (see Findings).
`DetachedDiskIsGone` needs a registry whose 500 means "no settings"
(`~Registry500`), and `DeletedDiskIsCancelled` a `CancelItem` that does not answer
FALSE (`~CancelDeclined`): these are what the two constants are for.

### StemcellImport and LargeObject

`ImportInv` has the upload in `UploadInv`: each buffer is with one user
(`Buffers`), the wait group counts exactly the parts that are with a worker
(`Waiting`), a part that was read is stored, on its way or has set `lo.err`
(`Progress`, `Running`, `Segments`), a manifest was published only over a full
set of segments (`Published`), and an abort that follows a `Close` runs when no
worker is left (`Aborts`). `Stage`, `Imported` and `CleanedUp` tie the steps of the
import to it. Without the exact count of the wait group neither "the image is
whole" nor "nothing is left" is inductive: both rest on a wait that ended.
The theorems are for any number of workers and buffers, and up to 99 parts (the
limit that `UploadAssumption` names, for names of two digits). Up to that limit an image
is proved to have every part; that it has them in order is proved for nine at most
(`NineInOrder`), since from ten on it is false.

### RegistryClient

`ClientInv` keeps track of the requests and their sendings: their order in an edit
(`OrderInv`), what may still be on its way (`ConnInv`), that the body of a put
is read once (`PutInv`), and what a success means (`StatusInv`).
`ClientKeepsContract` is the refinement: under the mapping of `RegistryClient` the
initial states are initial states of `RegistryContract`, and each step is one of its
steps or a stutter (one lemma per kind of step). It needs `500 \notin
TroubleStatus`: a 500 of a server in trouble would be a read of a document that
was never there. `SettledEditsKept` is proved from `SettledInv`: of edits that do
not overlap one at most is live, and what it read, wrote and left is what the
director reckons with. It uses the assumption that a status of trouble is neither
200 nor 201, which is what makes it one of trouble.

### VpsClient

`VpsInv` has what each call may have open (`CallInv`: its course, its connection and
the effects it may have had), what a request says (`SpecInv`, `DeleteInv`), and
`ClaimInv`: a guest that is not `Doubtful` has at most one claim (a VM, a running
create, an order on its way to an answer), and none while the pool offers it.
`NoGuestIsShared` alone says nothing about an answer that is still coming.
`ClientKeepsPoolContract` is the refinement step by step; `PoolContract` has the
variables of the client, so its mapping is the identity on them.

### GuestTransactions

`GuestInv`: the call is at a step of its program and the wait it is in is one of that
step (`Kinds`, `Stage`); orders placed, open and answered add up (`Orders`,
`Counted`); a cancel that was accepted is never undone (`Cancelled`); and while no
transaction but the call's own ran, the guest is what the reload has made of it so
far (`Undisturbed`). The last is the core of `ReloadIsAsked`: a success is told by
a poll, which can only be trusted because nothing else could have produced what it
read. The plans and their deadlines are any (well formed, as
`TransactionAssumption` says, and with a deadline for the reload).

`OrdersFitRequests` is about all catalogues within `CatalogueAssumption`. A search
returns a price at one of its places or none, and it errs only by returning none
(`FirstOf` and `Admitting`); from that each order of the volume packages is shown to have its size,
iops and snapshot space (`VolumeOrderFits`), the second disk to be the smallest that is
large enough (`DiskOrderFits`), and an upgrade to have for each option that is
offered one price of the amount asked for, if the memory is of whole gigabytes
(`ConfigOrderFits`). An empty price is ordered only
for a guest that is gone. No induction over the catalogue is needed,
since a search is a set of places and not a recursion. `CatalogueAssumption` is what the
code takes for granted of SoftLayer: a price has the capacity of its item, a range of
capacities ends with it, and no upgrade price is for cpu and memory at once. The
proof corrected the property: a volume above 12000 GB falls to that size, and with
iops its price need admit only the size that is ordered. TLC had not met it, because no
plan asked for both; one does now.

### Dispatcher

`DispatcherInv` holds for each process by itself; what ties them is `Sees`: a
process that runs has seen whatever was there or was lost since it began. `Acting`
says that the steps left are a rest of its program, so what was done is known from
what is left; `Effects`, `Answers` and `Exits` are the three properties with the
running process included. A request answered FALSE is done for the code, and
`AnswersTrue` says no more than that of it. The requests may be any whose numbers name disks
(`NumberAssumption`: a number that names none is one of a volume that is not
there, and `Disk` has those as well).

### Only model-checked

  * Liveness (`EveryCallEnds` of `VMLifecycle` and `Dispatcher`,
    `EndsUnlessBlocked`, `EditsEnd`, `ImportEnds`) and
    everything under fairness, which is out of the prover's reach. The refinements
    are proved for the safety part, which is all that the contracts say.
  * `KeepsVMContract` in pool mode, which does not hold (see above).
  * The two findings, which are counterexamples.

Every invariant that a passing run checks is also stated by a theorem.

## Not modelled

  * The fakes of the tests (`*/fakes/`, generated by counterfeiter, about a third
    of the lines of the Go tree), `test_helpers/` and `integration/`: they are not
    part of the program.
  * Operations of the VPS client, of the client manager and of the snapshot
    service that nothing calls (delete, find and list of VMs; schedules of
    snapshots), and the text forms of generated models and answers.
  * ssh keys: looked up or created by their label before a guest, never changed.
  * The checks of cloud properties, user data, `/etc/hosts` and DNS records: each is
    one step that succeeds or fails; no property depends on their content.
  * Object masks, retry intervals, and the text of logs and errors.
  * Packaging, templates and pipelines.

## Plan

What is left, in this order:

  1. Wider pool mode: `PoolInv` with a repeated `delete_vm` that has not been
     answered, so that `PoolConfig` excludes less.
  2. A contract for pool mode: `VMContract` without the promise about the settings
     of a guest that was taken from the pool, kept by both modes.
  3. A contract of the disk calls, kept by `DiskAttachment`, from `DiskInv`.

------------------------- MODULE VMLifecycleProofs -------------------------
(* Proofs about VMLifecycle, for any number of guests and calls and any    *)
(* choice of the faults.                                                   *)
EXTENDS VMLifecycle, TLAPS

\* Every step of the director, of a call or of the cloud keeps the types.
LEMMA TypeStep == TypeOK /\ [Next]_vars => TypeOK'
<1> USE DEF Goto, CreateSteps, DeleteSteps, Outcomes, GuestState, PoolState
<1> SUFFICES ASSUME TypeOK, [Next]_vars PROVE TypeOK'
  OBVIOUS
<1> USE DEF TypeOK, remote, local
<1>1. ASSUME NEW c \in Call, StartCreate(c) PROVE TypeOK'
  BY <1>1 DEF StartCreate
<1>2. ASSUME NEW c \in Call, StartDelete(c) PROVE TypeOK'
  BY <1>2 DEF StartDelete
<1>3. ASSUME NEW c \in Call, CreateStep(c) PROVE TypeOK'
  <2>1. CASE Prepare(c) BY <2>1 DEF Prepare
  <2>2. CASE FindByIp(c) BY <2>2 DEF FindByIp, FoundByIp
  <2>3. CASE UnregisterForReload(c) BY <2>3 DEF UnregisterForReload
  <2>4. CASE UpgradeForReload(c) BY <2>4 DEF UpgradeForReload
  <2>5. CASE OrderFromPool(c) BY <2>5 DEF OrderFromPool
  <2>6. CASE OrderGuest(c) BY <2>6 DEF OrderGuest
  <2>7. CASE AwaitProvisioned(c) BY <2>7 DEF AwaitProvisioned
  <2>8. CASE StartReload(c) BY <2>8 DEF StartReload
  <2>9. CASE AwaitReloaded(c)
    <3>1. (osReloaded[c] \/ ReloadsByIp(c)) \in BOOLEAN
      BY DEF ReloadsByIp
    <3> QED BY <2>9, <3>1 DEF AwaitReloaded
  <2>10. CASE CommitToPool(c) BY <2>10 DEF CommitToPool
  <2>11. CASE Configure(c) BY <2>11 DEF Configure, Unwind
  <2>12. CASE AttachEphemeral(c) BY <2>12 DEF AttachEphemeral, Unwind
  <2>13. CASE Register(c) BY <2>13 DEF Register, Unwind, AgentSettings
  <2>14. CASE CleanUp(c) BY <2>14 DEF CleanUp, CancelGuest
  <2> QED BY <1>3, <2>1, <2>2, <2>3, <2>4, <2>5, <2>6, <2>7, <2>8, <2>9,
             <2>10, <2>11, <2>12, <2>13, <2>14 DEF CreateStep
<1>4. ASSUME NEW c \in Call, DeleteStep(c) PROVE TypeOK'
  <2>1. CASE ReleaseGuest(c) BY <2>1 DEF ReleaseGuest, CancelGuest, FreeInPool
  <2>2. CASE UnregisterGuest(c) BY <2>2 DEF UnregisterGuest
  <2> QED BY <1>4, <2>1, <2>2 DEF DeleteStep
<1>5. ASSUME NEW c \in Call, Crash(c) PROVE TypeOK'
  BY <1>5 DEF Crash
<1>6. ASSUME NEW v \in Guest, Settle(v) \/ Reclaim(v) PROVE TypeOK'
  BY <1>6 DEF Settle, Reclaim
<1>7. CASE UNCHANGED vars
  BY <1>7 DEF vars
<1> QED BY <1>1, <1>2, <1>3, <1>4, <1>5, <1>6, <1>7 DEF Next, AllDone

\* The variables always have the types the code gives them.
THEOREM TypeCorrect == Spec => []TypeOK
<1>1. Init => TypeOK
  BY ConfigAssumption
  DEF Init, TypeOK, CreateSteps, DeleteSteps, Outcomes, GuestState, PoolState
<1> QED BY <1>1, TypeStep, PTL DEF Spec

-----------------------------------------------------------------------------
(* The inductive invariant of the account without a VM pool.               *)

\* The steps at which a create_vm is tied to the guest vm[c], and the steps
\* at which it is tied to the address it was given.
ClaimSteps   == {"unregister", "upgrade", "provision", "reload", "reloading",
                 "configure", "ephemeral", "register", "cleanup"}
AddressSteps == {"prepare", "findByIp"}
\* The steps after CreateInstance or ReloadInstance has succeeded.
ReadySteps   == {"configure", "ephemeral", "register", "cleanup"}

Claims(c)    == pc[c] \in ClaimSteps \/ Leased(c)

PoolUnused == \A c \in Call : pc[c] \notin {"orderPool", "commit", "panicked"}

\* One claim per guest.
ClaimInv ==
    /\ \A c \in Call : Claims(c) => vm[c] \in Guest /\ guest[vm[c]] # "unordered"
    /\ \A c1, c2 \in Call : c1 # c2 /\ Claims(c1) /\ Claims(c2) => vm[c1] # vm[c2]

\* An address is given to one call, and to none while its guest is claimed.
AddressInv ==
    /\ \A c \in Call : ip[c] \in Guest => guest[ip[c]] # "unordered"
    /\ \A c \in Call : pc[c] = "findByIp" => ip[c] \in Guest
    /\ \A c1, c2 \in Call :
          c1 # c2 /\ ip[c1] # None /\ pc[c1] \in AddressSteps /\ pc[c2] \in AddressSteps
             => ip[c1] # ip[c2]
    /\ \A c1, c2 \in Call :
          c1 # c2 /\ ip[c1] # None /\ pc[c1] \in AddressSteps /\ Claims(c2)
             => ip[c1] # vm[c2]

\* A delete_vm works on the guest of its lease, one at a time.
LeaseInv ==
    /\ \A d \in Call : lease[d] # None =>
          /\ pc[lease[d]] = "returned"
          /\ vm[d] = vm[lease[d]] /\ vm[d] \in Guest
          /\ pc[d] \in DeleteSteps \cup {"deleted", "failed", "crashed"}
    /\ \A d \in Call : pc[d] \in DeleteSteps \cup {"deleted"} => lease[d] # None
    /\ \A d, e \in Call :
          d # e /\ lease[d] = lease[e] /\ pc[d] \in DeleteSteps
             => pc[e] \notin DeleteSteps \cup {"deleted"}

\* What a claimed guest runs, and what the registry says of it.
BootInv ==
    /\ \A c \in Call : pc[c] \in {"provision", "reloading"} \cup ReadySteps \/ Held(c)
          => booted[vm[c]] = c
    /\ \A c \in Call : pc[c] \in ReadySteps \/ Held(c) => guest[vm[c]] = "running"
    /\ \A c \in Call : Held(c) => registry[vm[c]] = c

\* What delete_vm leaves behind.
GoneInv ==
    /\ \A d \in Call : pc[d] \in {"unregisterGuest", "deleted"}
          => guest[vm[d]] \in {"reclaiming", "gone"}
    /\ \A d \in Call : pc[d] = "deleted" => registry[vm[d]] = None

\* A guest that was there before is cleaned up by no create_vm.
StockInv ==
    /\ \A v \in Stock : guest[v] # "unordered"
    /\ \A c \in Call : pc[c] \in {"findByIp", "unregister", "upgrade", "reload", "reloading"}
          => ReloadsByIp(c)
    /\ \A c \in Call :
          \/ pc[c] = "provision"
          \/ pc[c] \in ReadySteps /\ ~osReloaded[c]
          => vm[c] \notin Stock
    /\ \A c \in Call : pc[c] = "cleanup" => ~osReloaded[c]
    /\ PreexistingGuestKept

AccountInv ==
    TypeOK /\ PoolUnused /\ ClaimInv /\ AddressInv /\ LeaseInv /\ BootInv /\ GoneInv
    /\ StockInv

-----------------------------------------------------------------------------
(* Every action keeps the invariant: one lemma per action, one step per    *)
(* part of the invariant.                                                  *)

\* StartCreate: a director that starts a create_vm asks only for an address
\* nobody claims.
LEMMA StartCreateKeeps ==
  ASSUME AccountInv, ~EnableVps, TypeOK', NEW c \in Call, StartCreate(c)
  PROVE  AccountInv'
<1> USE ConfigAssumption DEF AccountInv, TypeOK, StartCreate, Goto, Active,
  CreateSteps, DeleteSteps, Assignable, remote, local
<1>1. PoolUnused'
  BY DEF PoolUnused
<1>2. ClaimInv'
  BY DEF ClaimInv, AddressInv, PoolUnused, AddressSteps, Claims, ClaimSteps,
    Leased
<1>3. AddressInv'
  BY DEF AddressInv, ClaimInv, AddressSteps, PoolUnused, Claims, ClaimSteps,
    Leased
<1>4. LeaseInv'
  BY DEF LeaseInv, ClaimInv, Claims, ClaimSteps, Leased
<1>5. BootInv'
  BY DEF BootInv, ClaimInv, LeaseInv, PoolUnused, Held, Claims, ClaimSteps,
    Leased, ReadySteps
<1>6. GoneInv'
  BY DEF GoneInv, LeaseInv, BootInv, ReadySteps
<1>7. StockInv'
  BY DEF StockInv, LeaseInv, PoolUnused, ReloadsByIp, PreexistingGuestKept,
    ReadySteps
<1> QED BY <1>1, <1>2, <1>3, <1>4, <1>5, <1>6, <1>7

\* StartDelete: asking for a delete_vm ends the holding of the guest and
\* touches nothing else.
LEMMA StartDeleteKeeps ==
  ASSUME AccountInv, ~EnableVps, TypeOK', NEW c \in Call, StartDelete(c)
  PROVE  AccountInv'
<1> USE ConfigAssumption DEF AccountInv, TypeOK, StartDelete, Goto, Active,
  CreateSteps, DeleteSteps, remote, local
<1>1. PoolUnused'
  BY DEF PoolUnused
<1>2. ClaimInv'
  BY SMTT(30) DEF ClaimInv, AddressInv, PoolUnused, AddressSteps, Claims, ClaimSteps,
    Leased
<1>3. AddressInv'
  BY DEF AddressInv, ClaimInv, AddressSteps, PoolUnused, Claims, ClaimSteps,
    Leased
<1>4. LeaseInv'
  BY DEF LeaseInv, ClaimInv, Claims, ClaimSteps, Leased
<1>5. BootInv'
  BY DEF BootInv, ClaimInv, LeaseInv, PoolUnused, Held, Claims, ClaimSteps,
    Leased, ReadySteps
<1>6. GoneInv'
  BY DEF GoneInv, LeaseInv, BootInv, ReadySteps
<1>7. StockInv'
  BY DEF StockInv, LeaseInv, PoolUnused, ReloadsByIp, PreexistingGuestKept,
    ReadySteps
<1> QED BY <1>1, <1>2, <1>3, <1>4, <1>5, <1>6, <1>7

\* Prepare: Prepare only looks at its arguments; the claim on the address
\* is not used yet.
LEMMA PrepareKeeps ==
  ASSUME AccountInv, ~EnableVps, TypeOK', NEW c \in Call, Prepare(c)
  PROVE  AccountInv'
<1> USE ConfigAssumption DEF AccountInv, TypeOK, Prepare, Goto, ReloadsByIp,
  remote, local
<1>1. PoolUnused'
  BY DEF PoolUnused
<1>2. ClaimInv'
  BY DEF ClaimInv, AddressInv, PoolUnused, AddressSteps, Claims, ClaimSteps,
    Leased
<1>3. AddressInv'
  BY SMTT(30) DEF AddressInv, ClaimInv, AddressSteps, PoolUnused, Claims, ClaimSteps,
    Leased
<1>4. LeaseInv'
  BY SMTT(30) DEF LeaseInv, ClaimInv, DeleteSteps, Claims, ClaimSteps, Leased
<1>5. BootInv'
  BY DEF BootInv, ClaimInv, LeaseInv, PoolUnused, Held, DeleteSteps, Claims,
    ClaimSteps, Leased, ReadySteps
<1>6. GoneInv'
  BY DEF GoneInv, LeaseInv, BootInv, DeleteSteps, ReadySteps
<1>7. StockInv'
  BY DEF StockInv, LeaseInv, PoolUnused, PreexistingGuestKept, DeleteSteps,
    ReadySteps
<1> QED BY <1>1, <1>2, <1>3, <1>4, <1>5, <1>6, <1>7

\* FindByIp: the guest found by address is the one the address was given
\* for, so nobody else works on it.
LEMMA FindByIpKeeps ==
  ASSUME AccountInv, ~EnableVps, TypeOK', NEW c \in Call, FindByIp(c)
  PROVE  AccountInv'
<1> USE ConfigAssumption DEF AccountInv, TypeOK, FindByIp, 
      FoundByIp, Goto, Visible,
  remote, local
<1>1. PoolUnused'
  BY DEF PoolUnused
<1>2. ClaimInv'
  BY DEF ClaimInv, AddressInv, PoolUnused, AddressSteps, Claims, ClaimSteps,
    Leased
<1>3. AddressInv'
  BY DEF AddressInv, ClaimInv, AddressSteps, PoolUnused, Claims, ClaimSteps,
    Leased
<1>4. LeaseInv'
  BY DEF LeaseInv, ClaimInv, DeleteSteps, Claims, ClaimSteps, Leased
<1>5. BootInv'
  BY DEF BootInv, ClaimInv, LeaseInv, PoolUnused, Held, DeleteSteps, Claims,
    ClaimSteps, Leased, ReadySteps
<1>6. GoneInv'
  BY DEF GoneInv, LeaseInv, BootInv, DeleteSteps, ReadySteps
<1>7. StockInv'
  BY DEF StockInv, LeaseInv, PoolUnused, ReloadsByIp, PreexistingGuestKept,
    DeleteSteps, ReadySteps
<1> QED BY <1>1, <1>2, <1>3, <1>4, <1>5, <1>6, <1>7

\* UnregisterForReload: only settings of a guest that is about to be
\* reloaded are dropped, and none of those is held.
LEMMA UnregisterForReloadKeeps ==
  ASSUME AccountInv, ~EnableVps, TypeOK', NEW c \in Call, UnregisterForReload(c)
  PROVE  AccountInv'
<1> USE ConfigAssumption DEF AccountInv, TypeOK, UnregisterForReload, Goto,
  remote, local
<1>1. PoolUnused'
  BY DEF PoolUnused
<1>2. ClaimInv'
  BY DEF ClaimInv, AddressInv, PoolUnused, AddressSteps, Claims, ClaimSteps,
    Leased
<1>3. AddressInv'
  BY DEF AddressInv, ClaimInv, AddressSteps, PoolUnused, Claims, ClaimSteps,
    Leased
<1>4. LeaseInv'
  BY DEF LeaseInv, ClaimInv, DeleteSteps, Claims, ClaimSteps, Leased
<1>5. BootInv'
  BY DEF BootInv, ClaimInv, LeaseInv, PoolUnused, Held, DeleteSteps, Claims,
    ClaimSteps, Leased, ReadySteps
<1>6. GoneInv'
  BY DEF GoneInv, LeaseInv, BootInv, DeleteSteps, ReadySteps
<1>7. StockInv'
  BY DEF StockInv, LeaseInv, PoolUnused, ReloadsByIp, PreexistingGuestKept,
    DeleteSteps, ReadySteps
<1> QED BY <1>1, <1>2, <1>3, <1>4, <1>5, <1>6, <1>7

\* UpgradeForReload: an upgrade keeps the claim on the guest and changes
\* nothing else.
LEMMA UpgradeForReloadKeeps ==
  ASSUME AccountInv, ~EnableVps, TypeOK', NEW c \in Call, UpgradeForReload(c)
  PROVE  AccountInv'
<1> USE ConfigAssumption DEF AccountInv, TypeOK, UpgradeForReload, Goto,
  Visible, remote, local
<1>1. PoolUnused'
  BY DEF PoolUnused
<1>2. ClaimInv'
  BY DEF ClaimInv, AddressInv, PoolUnused, AddressSteps, Claims, ClaimSteps,
    Leased
<1>3. AddressInv'
  BY DEF AddressInv, ClaimInv, AddressSteps, PoolUnused, Claims, ClaimSteps,
    Leased
<1>4. LeaseInv'
  BY DEF LeaseInv, ClaimInv, DeleteSteps, Claims, ClaimSteps, Leased
<1>5. BootInv'
  BY DEF BootInv, ClaimInv, LeaseInv, PoolUnused, Held, DeleteSteps, Claims,
    ClaimSteps, Leased, ReadySteps
<1>6. GoneInv'
  BY DEF GoneInv, LeaseInv, BootInv, DeleteSteps, ReadySteps
<1>7. StockInv'
  BY DEF StockInv, LeaseInv, PoolUnused, ReloadsByIp, PreexistingGuestKept,
    DeleteSteps, ReadySteps
<1> QED BY <1>1, <1>2, <1>3, <1>4, <1>5, <1>6, <1>7

\* OrderGuest: an ordered guest is new, hence claimed by nobody.
LEMMA OrderGuestKeeps ==
  ASSUME AccountInv, ~EnableVps, TypeOK', NEW c \in Call, OrderGuest(c)
  PROVE  AccountInv'
<1> USE ConfigAssumption DEF AccountInv, TypeOK, OrderGuest, Goto, remote,
  local
<1>1. PoolUnused'
  BY DEF PoolUnused
<1>2. ClaimInv'
  BY DEF ClaimInv, AddressInv, PoolUnused, AddressSteps, Claims, ClaimSteps,
    Leased
<1>3. AddressInv'
  BY DEF AddressInv, ClaimInv, AddressSteps, PoolUnused, Claims, ClaimSteps,
    Leased
<1>4. LeaseInv'
  BY DEF LeaseInv, ClaimInv, DeleteSteps, Claims, ClaimSteps, Leased
<1>5. BootInv'
  BY DEF BootInv, ClaimInv, LeaseInv, PoolUnused, Held, DeleteSteps, Claims,
    ClaimSteps, Leased, ReadySteps
<1>6. GoneInv'
  BY DEF GoneInv, LeaseInv, BootInv, DeleteSteps, ReadySteps
<1>7. StockInv'
  BY DEF StockInv, LeaseInv, PoolUnused, ReloadsByIp, PreexistingGuestKept,
    DeleteSteps, ReadySteps
<1> QED BY <1>1, <1>2, <1>3, <1>4, <1>5, <1>6, <1>7

\* AwaitProvisioned: a new guest goes on to be configured only when it
\* runs.
LEMMA AwaitProvisionedKeeps ==
  ASSUME AccountInv, ~EnableVps, TypeOK', NEW c \in Call, AwaitProvisioned(c)
  PROVE  AccountInv'
<1> USE ConfigAssumption DEF AccountInv, TypeOK, AwaitProvisioned, 
      Ready, Goto,
  Visible, remote, local
<1>1. PoolUnused'
  BY DEF PoolUnused
<1>2. ClaimInv'
  BY DEF ClaimInv, AddressInv, PoolUnused, AddressSteps, Claims, ClaimSteps,
    Leased
<1>3. AddressInv'
  BY DEF AddressInv, ClaimInv, AddressSteps, PoolUnused, Claims, ClaimSteps,
    Leased
<1>4. LeaseInv'
  BY DEF LeaseInv, ClaimInv, DeleteSteps, Claims, ClaimSteps, Leased
<1>5. BootInv'
  BY DEF BootInv, ClaimInv, LeaseInv, PoolUnused, Held, DeleteSteps, Claims,
    ClaimSteps, Leased, ReadySteps
<1>6. GoneInv'
  BY DEF GoneInv, LeaseInv, BootInv, DeleteSteps, ReadySteps
<1>7. StockInv'
  BY DEF StockInv, LeaseInv, PoolUnused, ReloadsByIp, PreexistingGuestKept,
    DeleteSteps, ReadySteps
<1> QED BY <1>1, <1>2, <1>3, <1>4, <1>5, <1>6, <1>7

\* StartReload: a reload takes down only the guest the call has claimed.
LEMMA StartReloadKeeps ==
  ASSUME AccountInv, ~EnableVps, TypeOK', NEW c \in Call, StartReload(c)
  PROVE  AccountInv'
<1> USE ConfigAssumption DEF AccountInv, TypeOK, StartReload, Goto, remote,
  local
<1>1. PoolUnused'
  BY DEF PoolUnused
<1>2. ClaimInv'
  BY DEF ClaimInv, AddressInv, PoolUnused, AddressSteps, Claims, ClaimSteps,
    Leased
<1>3. AddressInv'
  BY DEF AddressInv, ClaimInv, AddressSteps, PoolUnused, Claims, ClaimSteps,
    Leased
<1>4. LeaseInv'
  BY SMTT(30) DEF LeaseInv, ClaimInv, DeleteSteps, Claims, ClaimSteps, Leased
<1>5. BootInv'
  BY DEF BootInv, ClaimInv, LeaseInv, PoolUnused, Held, DeleteSteps, Claims,
    ClaimSteps, Leased, ReadySteps
<1>6. GoneInv'
  BY DEF GoneInv, LeaseInv, BootInv, DeleteSteps, ReadySteps
<1>7. StockInv'
  BY DEF StockInv, LeaseInv, PoolUnused, ReloadsByIp, PreexistingGuestKept,
    DeleteSteps, ReadySteps
<1> QED BY <1>1, <1>2, <1>3, <1>4, <1>5, <1>6, <1>7

\* AwaitReloaded: a reloaded guest goes on to be configured only when it
\* runs the image of this call.
LEMMA AwaitReloadedKeeps ==
  ASSUME AccountInv, ~EnableVps, TypeOK', NEW c \in Call, AwaitReloaded(c)
  PROVE  AccountInv'
<1> USE ConfigAssumption DEF AccountInv, TypeOK, AwaitReloaded, 
      Ready, Goto, remote,
  local
<1>1. PoolUnused'
  BY DEF PoolUnused, StockInv, ReloadsByIp
<1>2. ClaimInv'
  BY DEF ClaimInv, AddressInv, PoolUnused, AddressSteps, Claims, ClaimSteps,
    Leased
<1>3. AddressInv'
  BY DEF AddressInv, ClaimInv, AddressSteps, PoolUnused, Claims, ClaimSteps,
    Leased
<1>4. LeaseInv'
  BY DEF LeaseInv, ClaimInv, DeleteSteps, Claims, ClaimSteps, Leased
<1>5. BootInv'
  BY DEF BootInv, ClaimInv, LeaseInv, PoolUnused, Held, DeleteSteps, Claims,
    ClaimSteps, Leased, ReadySteps
<1>6. GoneInv'
  BY DEF GoneInv, LeaseInv, BootInv, DeleteSteps, ReadySteps
<1>7. StockInv'
  BY DEF StockInv, LeaseInv, PoolUnused, ReloadsByIp, PreexistingGuestKept,
    DeleteSteps, ReadySteps
<1> QED BY <1>1, <1>2, <1>3, <1>4, <1>5, <1>6, <1>7

\* Configure: configuring keeps the claim, and a failure gives up only a
\* guest this call ordered.
LEMMA ConfigureKeeps ==
  ASSUME AccountInv, ~EnableVps, TypeOK', NEW c \in Call, Configure(c)
  PROVE  AccountInv'
<1> USE ConfigAssumption DEF AccountInv, TypeOK, Configure, Goto, Visible,
  Unwind, remote, local
<1>1. PoolUnused'
  BY DEF PoolUnused
<1>2. ClaimInv'
  BY DEF ClaimInv, AddressInv, PoolUnused, AddressSteps, Claims, ClaimSteps,
    Leased
<1>3. AddressInv'
  BY DEF AddressInv, ClaimInv, AddressSteps, PoolUnused, Claims, ClaimSteps,
    Leased
<1>4. LeaseInv'
  BY DEF LeaseInv, ClaimInv, DeleteSteps, Claims, ClaimSteps, Leased
<1>5. BootInv'
  BY DEF BootInv, ClaimInv, LeaseInv, PoolUnused, Held, DeleteSteps, Claims,
    ClaimSteps, Leased, ReadySteps
<1>6. GoneInv'
  BY DEF GoneInv, LeaseInv, BootInv, DeleteSteps, ReadySteps
<1>7. StockInv'
  BY DEF StockInv, LeaseInv, PoolUnused, ReloadsByIp, PreexistingGuestKept,
    DeleteSteps, ReadySteps
<1> QED BY <1>1, <1>2, <1>3, <1>4, <1>5, <1>6, <1>7

\* AttachEphemeral: an ephemeral disk keeps the claim, and a failure gives
\* up only a guest this call ordered.
LEMMA AttachEphemeralKeeps ==
  ASSUME AccountInv, ~EnableVps, TypeOK', NEW c \in Call, AttachEphemeral(c)
  PROVE  AccountInv'
<1> USE ConfigAssumption DEF AccountInv, TypeOK, AttachEphemeral, Goto,
  Visible, Unwind, remote, local
<1>1. PoolUnused'
  BY DEF PoolUnused
<1>2. ClaimInv'
  BY DEF ClaimInv, AddressInv, PoolUnused, AddressSteps, Claims, ClaimSteps,
    Leased
<1>3. AddressInv'
  BY DEF AddressInv, ClaimInv, AddressSteps, PoolUnused, Claims, ClaimSteps,
    Leased
<1>4. LeaseInv'
  BY DEF LeaseInv, ClaimInv, DeleteSteps, Claims, ClaimSteps, Leased
<1>5. BootInv'
  BY DEF BootInv, ClaimInv, LeaseInv, PoolUnused, Held, DeleteSteps, Claims,
    ClaimSteps, Leased, ReadySteps
<1>6. GoneInv'
  BY DEF GoneInv, LeaseInv, BootInv, DeleteSteps, ReadySteps
<1>7. StockInv'
  BY DEF StockInv, LeaseInv, PoolUnused, ReloadsByIp, PreexistingGuestKept,
    DeleteSteps, ReadySteps
<1> QED BY <1>1, <1>2, <1>3, <1>4, <1>5, <1>6, <1>7

\* Register: the settings written are those of the one call that has
\* claimed the guest.
LEMMA RegisterKeeps ==
  ASSUME AccountInv, ~EnableVps, TypeOK', NEW c \in Call, Register(c)
  PROVE  AccountInv'
<1> USE ConfigAssumption DEF AccountInv, TypeOK, Register, 
      AgentSettings, Goto, Unwind,
  remote, local
<1>1. PoolUnused'
  BY DEF PoolUnused
<1>2. ClaimInv'
  BY DEF ClaimInv, AddressInv, PoolUnused, AddressSteps, Claims, ClaimSteps,
    Leased
<1>3. AddressInv'
  BY DEF AddressInv, ClaimInv, AddressSteps, PoolUnused, Claims, ClaimSteps,
    Leased
<1>4. LeaseInv'
  BY DEF LeaseInv, ClaimInv, DeleteSteps, Claims, ClaimSteps, Leased
<1>5. BootInv'
  BY DEF BootInv, ClaimInv, LeaseInv, PoolUnused, Held, DeleteSteps, Claims,
    ClaimSteps, Leased, ReadySteps
<1>6. GoneInv'
  BY DEF GoneInv, LeaseInv, BootInv, DeleteSteps, ReadySteps
<1>7. StockInv'
  BY DEF StockInv, LeaseInv, PoolUnused, ReloadsByIp, PreexistingGuestKept,
    DeleteSteps, ReadySteps
<1> QED BY <1>1, <1>2, <1>3, <1>4, <1>5, <1>6, <1>7

\* CleanUp: the guest cancelled is one that this call ordered and nobody
\* holds.
LEMMA CleanUpKeeps ==
  ASSUME AccountInv, ~EnableVps, TypeOK', NEW c \in Call, CleanUp(c)
  PROVE  AccountInv'
<1> USE ConfigAssumption DEF AccountInv, TypeOK, CleanUp, 
      CancelGuest, Goto, remote, local
<1>1. PoolUnused'
  BY DEF PoolUnused
<1>2. ClaimInv'
  BY DEF ClaimInv, AddressInv, PoolUnused, AddressSteps, Claims, ClaimSteps,
    Leased
<1>3. AddressInv'
  BY DEF AddressInv, ClaimInv, AddressSteps, PoolUnused, Claims, ClaimSteps,
    Leased
<1>4. LeaseInv'
  BY DEF LeaseInv, ClaimInv, DeleteSteps, Claims, ClaimSteps, Leased
<1>5. BootInv'
  BY DEF BootInv, ClaimInv, LeaseInv, PoolUnused, Held, DeleteSteps, Claims,
    ClaimSteps, Leased, ReadySteps
<1>6. GoneInv'
  BY DEF GoneInv, LeaseInv, BootInv, DeleteSteps, ReadySteps
<1>7. StockInv'
  BY DEF StockInv, LeaseInv, PoolUnused, ReloadsByIp, PreexistingGuestKept,
    DeleteSteps, ReadySteps
<1> QED BY <1>1, <1>2, <1>3, <1>4, <1>5, <1>6, <1>7

\* ReleaseGuest: the guest cancelled is one the director has stopped
\* holding.
LEMMA ReleaseGuestKeeps ==
  ASSUME AccountInv, ~EnableVps, TypeOK', NEW c \in Call, ReleaseGuest(c)
  PROVE  AccountInv'
<1> USE ConfigAssumption DEF AccountInv, TypeOK, ReleaseGuest, FreeInPool, Goto,
  CancelGuest, Visible, remote, local
<1>1. PoolUnused'
  BY DEF PoolUnused
<1>2. ClaimInv'
  BY SMTT(30) DEF ClaimInv, AddressInv, PoolUnused, AddressSteps, Claims, ClaimSteps,
    Leased
<1>3. AddressInv'
  BY SMTT(30) DEF AddressInv, ClaimInv, AddressSteps, PoolUnused, Claims, ClaimSteps,
    Leased
<1>4. LeaseInv'
  BY DEF LeaseInv, ClaimInv, DeleteSteps, Claims, ClaimSteps, Leased
<1>5. BootInv'
  BY DEF BootInv, ClaimInv, LeaseInv, PoolUnused, Held, DeleteSteps, Claims,
    ClaimSteps, Leased, ReadySteps
<1>6. GoneInv'
  BY DEF GoneInv, LeaseInv, BootInv, DeleteSteps, ReadySteps
<1>7. StockInv'
  BY DEF StockInv, LeaseInv, PoolUnused, ReloadsByIp, PreexistingGuestKept,
    DeleteSteps, ReadySteps
<1> QED BY <1>1, <1>2, <1>3, <1>4, <1>5, <1>6, <1>7

\* UnregisterGuest: the settings dropped are those of a guest that is
\* cancelled and held by nobody.
LEMMA UnregisterGuestKeeps ==
  ASSUME AccountInv, ~EnableVps, TypeOK', NEW c \in Call, UnregisterGuest(c)
  PROVE  AccountInv'
<1> USE ConfigAssumption DEF AccountInv, TypeOK, UnregisterGuest, Goto,
  remote, local
<1>1. PoolUnused'
  BY DEF PoolUnused
<1>2. ClaimInv'
  BY DEF ClaimInv, AddressInv, PoolUnused, AddressSteps, Claims, ClaimSteps,
    Leased
<1>3. AddressInv'
  BY DEF AddressInv, ClaimInv, AddressSteps, PoolUnused, Claims, ClaimSteps,
    Leased
<1>4. LeaseInv'
  BY DEF LeaseInv, ClaimInv, DeleteSteps, Claims, ClaimSteps, Leased
<1>5. BootInv'
  BY DEF BootInv, ClaimInv, LeaseInv, PoolUnused, Held, DeleteSteps, Claims,
    ClaimSteps, Leased, ReadySteps
<1>6. GoneInv'
  BY DEF GoneInv, LeaseInv, BootInv, DeleteSteps, ReadySteps
<1>7. StockInv'
  BY DEF StockInv, LeaseInv, PoolUnused, ReloadsByIp, PreexistingGuestKept,
    DeleteSteps, ReadySteps
<1> QED BY <1>1, <1>2, <1>3, <1>4, <1>5, <1>6, <1>7

\* Crash: a call that dies only gives up its claim.
LEMMA CrashKeeps ==
  ASSUME AccountInv, ~EnableVps, TypeOK', NEW c \in Call, Crash(c)
  PROVE  AccountInv'
<1> USE ConfigAssumption DEF AccountInv, TypeOK, Crash, Goto, Active,
  CreateSteps, DeleteSteps, remote, local
<1>1. PoolUnused'
  BY DEF PoolUnused
<1>2. ClaimInv'
  BY DEF ClaimInv, AddressInv, PoolUnused, AddressSteps, Claims, ClaimSteps,
    Leased
<1>3. AddressInv'
  BY DEF AddressInv, ClaimInv, AddressSteps, PoolUnused, Claims, ClaimSteps,
    Leased
<1>4. LeaseInv'
  BY DEF LeaseInv, ClaimInv, Claims, ClaimSteps, Leased
<1>5. BootInv'
  BY DEF BootInv, ClaimInv, LeaseInv, PoolUnused, Held, Claims, ClaimSteps,
    Leased, ReadySteps
<1>6. GoneInv'
  BY DEF GoneInv, LeaseInv, BootInv, ReadySteps
<1>7. StockInv'
  BY DEF StockInv, LeaseInv, PoolUnused, ReloadsByIp, PreexistingGuestKept,
    ReadySteps
<1> QED BY <1>1, <1>2, <1>3, <1>4, <1>5, <1>6, <1>7

\* Settle: a transaction that ends makes a busy guest run, and changes no
\* claim.
LEMMA SettleKeeps ==
  ASSUME AccountInv, ~EnableVps, TypeOK', NEW v \in Guest, Settle(v)
  PROVE  AccountInv'
<1> USE ConfigAssumption DEF AccountInv, TypeOK, Settle, remote, local
<1>1. PoolUnused'
  BY DEF PoolUnused
<1>2. ClaimInv'
  BY DEF ClaimInv, AddressInv, PoolUnused, AddressSteps, Claims, ClaimSteps,
    Leased
<1>3. AddressInv'
  BY DEF AddressInv, ClaimInv, AddressSteps, PoolUnused, Claims, ClaimSteps,
    Leased
<1>4. LeaseInv'
  BY DEF LeaseInv, ClaimInv, DeleteSteps, Claims, ClaimSteps, Leased
<1>5. BootInv'
  BY DEF BootInv, ClaimInv, LeaseInv, PoolUnused, Held, DeleteSteps, Claims,
    ClaimSteps, Leased, ReadySteps
<1>6. GoneInv'
  BY DEF GoneInv, LeaseInv, BootInv, DeleteSteps, ReadySteps
<1>7. StockInv'
  BY DEF StockInv, LeaseInv, PoolUnused, ReloadsByIp, PreexistingGuestKept,
    DeleteSteps, ReadySteps
<1> QED BY <1>1, <1>2, <1>3, <1>4, <1>5, <1>6, <1>7

\* Reclaim: a guest that is removed had been cancelled, so nobody held it.
LEMMA ReclaimKeeps ==
  ASSUME AccountInv, ~EnableVps, TypeOK', NEW v \in Guest, Reclaim(v)
  PROVE  AccountInv'
<1> USE ConfigAssumption DEF AccountInv, TypeOK, Reclaim, remote, local
<1>1. PoolUnused'
  BY DEF PoolUnused
<1>2. ClaimInv'
  BY DEF ClaimInv, AddressInv, PoolUnused, AddressSteps, Claims, ClaimSteps,
    Leased
<1>3. AddressInv'
  BY DEF AddressInv, ClaimInv, AddressSteps, PoolUnused, Claims, ClaimSteps,
    Leased
<1>4. LeaseInv'
  BY DEF LeaseInv, ClaimInv, DeleteSteps, Claims, ClaimSteps, Leased
<1>5. BootInv'
  BY DEF BootInv, ClaimInv, LeaseInv, PoolUnused, Held, DeleteSteps, Claims,
    ClaimSteps, Leased, ReadySteps
<1>6. GoneInv'
  BY DEF GoneInv, LeaseInv, BootInv, DeleteSteps, ReadySteps
<1>7. StockInv'
  BY DEF StockInv, LeaseInv, PoolUnused, ReloadsByIp, PreexistingGuestKept,
    DeleteSteps, ReadySteps
<1> QED BY <1>1, <1>2, <1>3, <1>4, <1>5, <1>6, <1>7

-----------------------------------------------------------------------------
(* The theorems.                                                           *)

\* The invariant holds at the start and every step keeps it.
LEMMA AccountInductive ==
  ASSUME ~EnableVps
  PROVE  Spec => []AccountInv
<1>1. Init => AccountInv
  <2> SUFFICES ASSUME Init PROVE AccountInv
    OBVIOUS
  <2> USE ConfigAssumption DEF Init, CreateSteps, DeleteSteps, Outcomes
  <2>1. TypeOK
    BY DEF TypeOK, GuestState, PoolState
  <2>2. PoolUnused /\ LeaseInv
    BY DEF PoolUnused, LeaseInv
  <2>3. ClaimInv /\ AddressInv
    BY DEF ClaimInv, AddressInv, Claims, ClaimSteps, Leased, AddressSteps
  <2>4. BootInv /\ GoneInv
    BY DEF BootInv, GoneInv, Held, ReadySteps
  <2>5. StockInv
    BY DEF StockInv, ReadySteps, PreexistingGuestKept
  <2> QED BY <2>1, <2>2, <2>3, <2>4, <2>5 DEF AccountInv
<1>2. AccountInv /\ [Next]_vars => AccountInv'
  <2> SUFFICES ASSUME AccountInv, [Next]_vars PROVE AccountInv'
    OBVIOUS
  <2>1. TypeOK'
    BY TypeStep DEF AccountInv
  <2>2. ASSUME NEW c \in Call, StartCreate(c) \/ StartDelete(c) PROVE AccountInv'
    BY <2>1, <2>2, StartCreateKeeps, StartDeleteKeeps
  <2>3. ASSUME NEW c \in Call, CreateStep(c) PROVE AccountInv'
    <3>1. ~OrderFromPool(c) /\ ~CommitToPool(c)
      BY DEF AccountInv, PoolUnused, OrderFromPool, CommitToPool
    <3> QED
      BY <2>1, <2>3, <3>1, PrepareKeeps, FindByIpKeeps, UnregisterForReloadKeeps,
         UpgradeForReloadKeeps, OrderGuestKeeps, AwaitProvisionedKeeps,
         StartReloadKeeps, AwaitReloadedKeeps, ConfigureKeeps,
         AttachEphemeralKeeps, RegisterKeeps, CleanUpKeeps DEF CreateStep
  <2>4. ASSUME NEW c \in Call, DeleteStep(c) PROVE AccountInv'
    BY <2>1, <2>4, ReleaseGuestKeeps, UnregisterGuestKeeps DEF DeleteStep
  <2>5. ASSUME NEW c \in Call, Crash(c) PROVE AccountInv'
    BY <2>1, <2>5, CrashKeeps
  <2>6. ASSUME NEW v \in Guest, Settle(v) \/ Reclaim(v) PROVE AccountInv'
    BY <2>1, <2>6, SettleKeeps, ReclaimKeeps
  <2>7. CASE UNCHANGED vars
    <3> USE <2>7 DEF vars
    <3>1. PoolUnused' /\ LeaseInv' /\ GoneInv' /\ StockInv'
      BY DEF AccountInv, PoolUnused, LeaseInv, GoneInv, StockInv, ReloadsByIp,
             PreexistingGuestKept
    <3>2. ClaimInv' /\ AddressInv' /\ BootInv'
      BY DEF AccountInv, ClaimInv, AddressInv, BootInv, Claims, Leased, Held
    <3> QED BY <2>1, <3>1, <3>2 DEF AccountInv
  <2> QED BY <2>2, <2>3, <2>4, <2>5, <2>6, <2>7 DEF Next, AllDone
<1> QED BY <1>1, <1>2, PTL DEF Spec

\* Without the pool, no two create_vm calls ever work on or return the same
\* guest, whatever is refused, lost or killed.
THEOREM OneCallPerGuest ==
  ASSUME ~EnableVps
  PROVE  Spec => []ExclusiveGuest
<1>1. AccountInv => ExclusiveGuest
  BY DEF AccountInv, PoolUnused, ClaimInv, Claims, ClaimSteps, Leased, Held,
         ExclusiveGuest, Works, LeaseInv
<1> QED BY <1>1, AccountInductive, PTL

\* Without the pool, a guest the director holds runs, runs what its own
\* create_vm installed and has that call's settings in the registry.
THEOREM HeldGuestsServe ==
  ASSUME ~EnableVps
  PROVE  Spec => []HeldGuestServes
<1>1. AccountInv => HeldGuestServes
  BY DEF AccountInv, BootInv, HeldGuestServes
<1> QED BY <1>1, AccountInductive, PTL

\* Without the pool, a delete_vm that answered success left neither a guest
\* nor agent settings, and nothing brings them back.
THEOREM DeletedStaysGone ==
  ASSUME ~EnableVps
  PROVE  Spec => []DeletedIsGone
<1>1. AccountInv => DeletedIsGone
  BY DEF AccountInv, GoneInv, DeletedIsGone
<1> QED BY <1>1, AccountInductive, PTL

\* Without the pool, no create_vm cancels a guest it did not order.
THEOREM StockIsKept ==
  ASSUME ~EnableVps
  PROVE  Spec => []PreexistingGuestKept
<1>1. AccountInv => PreexistingGuestKept
  BY DEF AccountInv, StockInv
<1> QED BY <1>1, AccountInductive, PTL

-----------------------------------------------------------------------------
(* What a create_vm that failed leaves in the account, without OS reload.  *)

\* A guest is made by a create_vm only, which then works on that guest, has
\* cancelled it, or is over; nothing is reloaded, so a failure cleans up.
CleanInv ==
    /\ \A c \in Call, v \in Guest : booted[v] = c =>
          /\ pc[c] \in {"provision", "returned", "failed", "crashed"} \cup ReadySteps
          /\ pc[c] \in {"provision"} \cup ReadySteps => v = vm[c]
          /\ pc[c] = "failed" => guest[v] \in {"reclaiming", "gone"}
    /\ \A c \in Call : ~osReloaded[c]

\* What is cancelled stays so, and what a call has booted is its own, as long as
\* no guest is ordered or reloaded.
LEMMA CancelledStays ==
  ASSUME TypeOK, CleanInv, NEW c \in Call, UNCHANGED booted,
         \A v \in Guest : guest[v] \in {"reclaiming", "gone"} => guest'[v] \in {"reclaiming", "gone"},
         osReloaded' = osReloaded, \A b \in Call : b # c => pc'[b] = pc[b] /\ vm'[b] = vm[b],
         \A v \in Guest : booted[v] = c =>
            /\ pc'[c] \in {"provision", "returned", "failed", "crashed"} \cup ReadySteps
            /\ pc'[c] \in {"provision"} \cup ReadySteps => v = vm'[c]
            /\ pc'[c] = "failed" => guest'[v] \in {"reclaiming", "gone"}
  PROVE  CleanInv'
BY DEF CleanInv

\* A step of create_vm keeps it: where the call fails after the order, it goes
\* through the clean up, and that is answered.
LEMMA CreateStepCleans ==
  ASSUME AccountInv, CleanInv, ~EnableVps, DisableOsReload, "order" \notin MayLose,
         {"provision", "cleanup"} \cap MayFail = {}, NEW c \in Call, CreateStep(c)
  PROVE  CleanInv'
<1> USE DEF Goto, remote, local
<1>1. TypeOK /\ osReloaded[c] = FALSE
  BY DEF AccountInv, CleanInv, TypeOK
<1>2. pc[c] \notin {"findByIp", "unregister", "upgrade", "reload", "reloading", "orderPool", "commit"}
  BY DEF AccountInv, StockInv, PoolUnused, ReloadsByIp
<1>3. CASE Prepare(c)
  <2>1. osReloaded' = osReloaded /\ pc'[c] \in {"order", "failed"}
    BY <1>1, <1>3 DEF Prepare, ReloadsByIp, TypeOK
  <2>2. \A v \in Guest : booted[v] # c
    BY <1>3 DEF Prepare, CleanInv, ReadySteps
  <2> QED BY <1>1, <1>3, <2>1, <2>2, CancelledStays DEF Prepare, TypeOK
<1>4. CASE OrderGuest(c)
  <2>1. \A v \in Guest : booted[v] # c
    BY <1>4 DEF OrderGuest, CleanInv, ReadySteps
  <2>2. CASE pc'[c] = "failed"
    <3>1. UNCHANGED <<guest, booted, vm>>
      BY <1>1, <1>4, <2>2 DEF OrderGuest, LosesReply, TypeOK
    <3> QED BY <1>1, <1>4, <2>1, <3>1, CancelledStays DEF OrderGuest, LosesReply, TypeOK
  <2>3. CASE pc'[c] # "failed"
    <3>1. PICK v \in Guest : /\ guest[v] = "unordered" /\ guest' = [guest EXCEPT ![v] = "busy"]
                             /\ booted' = [booted EXCEPT ![v] = c]
                             /\ vm' = [vm EXCEPT ![c] = v] /\ Goto(c, "provision")
      BY <1>1, <1>4, <2>3 DEF OrderGuest, TypeOK
    <3>2. pc'[c] = "provision" /\ vm'[c] = v /\ booted'[v] = c /\ osReloaded' = osReloaded
      BY <1>1, <1>4, <3>1 DEF OrderGuest, TypeOK
    <3>3. ASSUME NEW b \in Call, NEW u \in Guest, booted'[u] = b
          PROVE  /\ pc'[b] \in {"provision", "returned", "failed", "crashed"} \cup ReadySteps
                 /\ pc'[b] \in {"provision"} \cup ReadySteps => u = vm'[b]
                 /\ pc'[b] = "failed" => guest'[u] \in {"reclaiming", "gone"}
      <4>1. CASE b = c
        <5>1. u = v
          BY <1>1, <2>1, <3>1, <3>3, <4>1 DEF TypeOK
        <5> QED BY <3>2, <4>1, <5>1
      <4>2. CASE b # c
        <5>1. u # v /\ booted[u] = b /\ pc'[b] = pc[b] /\ vm'[b] = vm[b] /\ guest'[u] = guest[u]
          BY <1>1, <3>1, <3>3, <4>2 DEF TypeOK
        <5> QED BY <5>1 DEF CleanInv
      <4> QED BY <4>1, <4>2
    <3>4. \A b \in Call : ~osReloaded'[b]
      BY <3>2 DEF CleanInv
    <3> QED BY <3>3, <3>4 DEF CleanInv
  <2> QED BY <2>2, <2>3
<1>5. CASE AwaitProvisioned(c)
  <2>1. vm[c] \in Guest /\ guest[vm[c]] # "unordered"
    BY <1>5 DEF AwaitProvisioned, AccountInv, ClaimInv, Claims, ClaimSteps
  <2>2. pc'[c] = "configure" \/ (pc'[c] = "failed" /\ guest[vm[c]] = "gone")
    BY <1>1, <1>5, <2>1 DEF AwaitProvisioned, Refuses, Visible, TypeOK, GuestState
  <2>3. \A v \in Guest : booted[v] = c => v = vm[c]
    BY <1>5 DEF AwaitProvisioned, CleanInv
  <2> QED BY <1>1, <1>5, <2>2, <2>3, CancelledStays DEF AwaitProvisioned, TypeOK, ReadySteps
<1>6. CASE Configure(c) \/ AttachEphemeral(c) \/ Register(c)
  <2>1. pc[c] \in ReadySteps /\ pc'[c] \in {"ephemeral", "register", "returned", "cleanup"}
    BY <1>1, <1>6 DEF Configure, AttachEphemeral, Register, Unwind, ReadySteps, TypeOK
  <2>2. \A v \in Guest : booted[v] = c => v = vm[c]
    BY <2>1 DEF CleanInv
  <2>3. UNCHANGED <<guest, booted, vm, osReloaded>> /\ \A b \in Call : b # c => pc'[b] = pc[b]
    BY <1>1, <1>6 DEF Configure, AttachEphemeral, Register, TypeOK
  <2> QED BY <1>1, <2>1, <2>2, <2>3, CancelledStays DEF ReadySteps
<1>7. CASE CleanUp(c)
  <2>1. vm[c] \in Guest /\ \A v \in Guest : booted[v] = c => v = vm[c]
    BY <1>7 DEF CleanUp, CleanInv, ReadySteps, AccountInv, ClaimInv, Claims, ClaimSteps
  <2>2. pc'[c] = "failed" /\ CancelGuest(vm[c])
    BY <1>1, <1>7 DEF CleanUp, Refuses, TypeOK
  <2>3. /\ guest'[vm[c]] \in {"reclaiming", "gone"}
        /\ \A v \in Guest : guest'[v] = guest[v] \/ guest'[v] = "reclaiming"
    BY <1>1, <2>1, <2>2 DEF CancelGuest, TypeOK
  <2>4. UNCHANGED <<booted, vm, osReloaded>> /\ \A b \in Call : b # c => pc'[b] = pc[b]
    BY <1>1, <1>7 DEF CleanUp, TypeOK
  <2> QED BY <1>1, <2>1, <2>2, <2>3, <2>4, CancelledStays
<1>8. /\ ~FindByIp(c) /\ ~UnregisterForReload(c) /\ ~UpgradeForReload(c) /\ ~OrderFromPool(c)
      /\ ~StartReload(c) /\ ~AwaitReloaded(c) /\ ~CommitToPool(c)
  BY <1>2 DEF FindByIp, UnregisterForReload, UpgradeForReload, OrderFromPool, StartReload,
              AwaitReloaded, CommitToPool
<1> QED BY <1>3, <1>4, <1>5, <1>6, <1>7, <1>8 DEF CreateStep

\* The director, delete_vm, crashes and SoftLayer keep it.
LEMMA OthersClean ==
  ASSUME AccountInv, CleanInv, ~EnableVps, NEW c \in Call,
         StartCreate(c) \/ StartDelete(c) \/ DeleteStep(c) \/ Crash(c)
  PROVE  CleanInv'
<1> USE DEF Goto, remote, local
<1>1. TypeOK
  BY DEF AccountInv
<1>2. UNCHANGED <<booted, osReloaded>> /\ \A b \in Call : b # c => pc'[b] = pc[b] /\ vm'[b] = vm[b]
  BY <1>1 DEF StartCreate, StartDelete, DeleteStep, ReleaseGuest, UnregisterGuest, Crash, TypeOK
<1>3. \A v \in Guest : guest[v] \in {"reclaiming", "gone"} => guest'[v] \in {"reclaiming", "gone"}
  BY <1>1 DEF StartCreate, StartDelete, DeleteStep, ReleaseGuest, UnregisterGuest, Crash, TypeOK,
              CancelGuest, FreeInPool
<1>4. pc'[c] = "crashed" \/ pc[c] \in {"idle"} \cup DeleteSteps
  BY <1>1 DEF StartCreate, StartDelete, DeleteStep, ReleaseGuest, UnregisterGuest, Crash, TypeOK,
              DeleteSteps
<1>5. pc[c] \in {"idle"} \cup DeleteSteps => \A v \in Guest : booted[v] # c
  BY DEF CleanInv, ReadySteps, DeleteSteps
<1> QED BY <1>1, <1>2, <1>3, <1>4, <1>5, CancelledStays DEF ReadySteps

\* So it is without the pool.
LEMMA FailedOrderCleansUp ==
  ASSUME ~EnableVps, DisableOsReload, "order" \notin MayLose,
         {"provision", "cleanup"} \cap MayFail = {}
  PROVE  Spec => []FailedCreateDeletesItsGuest
<1>1. Init => CleanInv
  BY ConfigAssumption DEF Init, CleanInv
<1>2. AccountInv /\ CleanInv /\ [Next]_vars => CleanInv'
  <2> SUFFICES ASSUME AccountInv, CleanInv, [Next]_vars PROVE CleanInv'
    OBVIOUS
  <2>1. ASSUME NEW c \in Call, CreateStep(c) PROVE CleanInv'
    BY <2>1, CreateStepCleans
  <2>2. ASSUME NEW c \in Call, StartCreate(c) \/ StartDelete(c) \/ DeleteStep(c) \/ Crash(c)
        PROVE  CleanInv'
    BY <2>2, OthersClean
  <2>3. ASSUME NEW v \in Guest, Settle(v) \/ Reclaim(v) PROVE CleanInv'
    BY <2>3 DEF Settle, Reclaim, local, CleanInv, AccountInv, TypeOK
  <2>4. CASE UNCHANGED vars
    BY <2>4 DEF vars, CleanInv
  <2> QED BY <2>1, <2>2, <2>3, <2>4 DEF Next, AllDone
<1>3. CleanInv => FailedCreateDeletesItsGuest
  BY DEF CleanInv, FailedCreateDeletesItsGuest
<1> QED BY <1>1, <1>2, <1>3, AccountInductive, PTL DEF Spec

\* In pool mode a create_vm that ordered a guest itself ends in a panic; all other
\* steps are about guests of the pool, and these were there before.
PooledSteps == {"reload", "reloading", "commit", "configure", "ephemeral", "register", "cleanup",
                "returned"} \cup DeleteSteps
PooledInv ==
    /\ \A v \in Guest : pool[v] # "absent" => v \in Stock
    /\ \A c \in Call : pc[c] \in PooledSteps => vm[c] \in Stock
    /\ \A c \in Call : pc[c] \notin {"findByIp", "unregister", "upgrade"}
    /\ \A c \in Call : pc[c] = "provision" => vm[c] \in Guest \ Stock
    /\ \A v \in Stock : guest[v] # "unordered"
    /\ \A v \in Guest \ Stock : guest[v] \in {"unordered", "busy", "running"}
    /\ \A v \in Guest \ Stock : booted[v] # None => guest[v] # "unordered"
    /\ \A c \in Call : pc[c] = "provision" => guest[vm[c]] # "unordered"
    /\ \A c \in Call, v \in Guest \ Stock :
          booted[v] = c => pc[c] \in {"provision", "panicked", "crashed"}

\* A step of create_vm keeps it.
LEMMA CreateStepPooled ==
  ASSUME TypeOK, PooledInv, EnableVps, DisableOsReload, "order" \notin MayLose,
         "provision" \notin MayFail, NEW c \in Call, CreateStep(c)
  PROVE  PooledInv'
<1> USE ConfigAssumption DEF TypeOK, PooledInv, Goto, remote, local, PooledSteps, DeleteSteps
<1>1. CASE Prepare(c)
  BY <1>1 DEF Prepare, ReloadsByIp
<1>2. CASE OrderFromPool(c)
  BY <1>2 DEF OrderFromPool, Offered
<1>3. CASE OrderGuest(c)
  <2>1. \A v \in Guest \ Stock : booted[v] # c
    BY <1>3 DEF OrderGuest
  <2>2. CASE pc'[c] = "failed"
    <3>1. UNCHANGED <<guest, booted, vm>>
      BY <1>3, <2>2 DEF OrderGuest, LosesReply
    <3> QED BY <1>3, <2>1, <2>2, <3>1 DEF OrderGuest
  <2>3. CASE pc'[c] # "failed"
    <3>1. PICK v \in Guest : /\ guest[v] = "unordered" /\ guest' = [guest EXCEPT ![v] = "busy"]
                             /\ booted' = [booted EXCEPT ![v] = c]
                             /\ vm' = [vm EXCEPT ![c] = v] /\ Goto(c, "provision")
      BY <1>3, <2>3 DEF OrderGuest
    <3>2. v \in Guest \ Stock
      BY <3>1
    <3> QED BY <1>3, <3>1, <3>2 DEF OrderGuest
  <2> QED BY <2>2, <2>3
<1>4. CASE AwaitProvisioned(c)
  BY <1>4 DEF AwaitProvisioned, Refuses, Visible
<1>5. CASE StartReload(c)
  BY <1>5 DEF StartReload
<1>6. CASE AwaitReloaded(c)
  BY <1>6 DEF AwaitReloaded, ReloadsByIp
<1>7. CASE CommitToPool(c)
  BY <1>7 DEF CommitToPool
<1>8. CASE Configure(c) \/ AttachEphemeral(c) \/ Register(c)
  BY <1>8 DEF Configure, AttachEphemeral, Register, Unwind
<1>9. CASE CleanUp(c)
  BY <1>9 DEF CleanUp, CancelGuest
<1>10. ~FindByIp(c) /\ ~UnregisterForReload(c) /\ ~UpgradeForReload(c)
  BY DEF FindByIp, UnregisterForReload, UpgradeForReload
<1> QED BY <1>1, <1>2, <1>3, <1>4, <1>5, <1>6, <1>7, <1>8, <1>9, <1>10 DEF CreateStep

\* So it is in pool mode.
LEMMA FailedPoolCreateCleansUp ==
  ASSUME EnableVps, DisableOsReload, "order" \notin MayLose, "provision" \notin MayFail
  PROVE  Spec => []FailedCreateDeletesItsGuest
<1>1. Init => TypeOK /\ PooledInv
  <2> SUFFICES ASSUME Init PROVE TypeOK /\ PooledInv
    OBVIOUS
  <2>1. TypeOK
    BY ConfigAssumption
    DEF Init, TypeOK, CreateSteps, DeleteSteps, Outcomes, GuestState, PoolState
  <2>2. PooledInv
    BY ConfigAssumption DEF Init, PooledInv, PooledSteps, DeleteSteps
  <2> QED BY <2>1, <2>2
<1>2. TypeOK /\ PooledInv /\ [Next]_vars => TypeOK' /\ PooledInv'
  <2> SUFFICES ASSUME TypeOK, PooledInv, [Next]_vars PROVE PooledInv'
    BY TypeStep
  <2> USE DEF TypeOK, PooledInv, Goto, remote, local, PooledSteps, DeleteSteps
  <2>1. ASSUME NEW c \in Call, CreateStep(c) PROVE PooledInv'
    BY <2>1, CreateStepPooled
  <2>2. ASSUME NEW c \in Call, StartCreate(c) PROVE PooledInv'
    BY <2>2 DEF StartCreate
  <2>3. ASSUME NEW c \in Call, StartDelete(c) PROVE PooledInv'
    BY <2>3 DEF StartDelete, Leased
  <2>4. ASSUME NEW c \in Call, DeleteStep(c) PROVE PooledInv'
    BY <2>4, ConfigAssumption DEF DeleteStep, ReleaseGuest, UnregisterGuest, FreeInPool
  <2>5. ASSUME NEW c \in Call, Crash(c) PROVE PooledInv'
    BY <2>5 DEF Crash
  <2>6. ASSUME NEW v \in Guest, Settle(v) \/ Reclaim(v) PROVE PooledInv'
    <3>1. guest[v] = "reclaiming" => v \in Stock
      OBVIOUS
    <3>2. UNCHANGED <<booted, pool, pc, vm>>
      BY <2>6 DEF Settle, Reclaim
    <3>3. CASE Settle(v)
      BY <3>2, <3>3, ConfigAssumption DEF Settle
    <3>4. CASE Reclaim(v)
      BY <3>1, <3>2, <3>4, ConfigAssumption DEF Reclaim
    <3> QED BY <2>6, <3>3, <3>4
  <2>7. CASE UNCHANGED vars
    BY <2>7 DEF vars
  <2> QED BY <2>1, <2>2, <2>3, <2>4, <2>5, <2>6, <2>7 DEF Next, AllDone
<1>3. PooledInv => FailedCreateDeletesItsGuest
  BY DEF PooledInv, FailedCreateDeletesItsGuest
<1> QED BY <1>1, <1>2, <1>3, PTL DEF Spec

\* When OS reload is switched off, with or without the pool, a create_vm that
\* failed has left no guest that it ordered, if the wait for the guest does not
\* err, the order is answered, and the clean up is not refused: the deferred
\* function of create_vm.go runs for every error after CreateInstance.
THEOREM FailedCreateCleansUp ==
  ASSUME DisableOsReload, "order" \notin MayLose, {"provision", "cleanup"} \cap MayFail = {}
  PROVE  Spec => []FailedCreateDeletesItsGuest
BY FailedOrderCleansUp, FailedPoolCreateCleansUp

-----------------------------------------------------------------------------
(* With the VM pool server.  The pool keeps calls apart only when nothing  *)
(* goes around it: no OS reload by address, and no second delete_vm of a   *)
(* cid (the guest may be someone else's by then).                          *)

PoolConfig == EnableVps /\ DisableOsReload /\ ~DirectorRetries

\* The steps at which a create_vm is tied to the guest vm[c].
PoolClaimSteps == {"provision", "reload", "reloading", "commit"} \cup ReadySteps

\* A returned guest is claimed until its delete_vm has released it.
PoolClaims(c) ==
    \/ pc[c] \in PoolClaimSteps
    \/ pc[c] = "returned" /\ \A d \in Call : lease[d] = c => pc[d] = "releaseGuest"

NoReload == \A c \in Call : pc[c] \notin {"findByIp", "unregister", "upgrade"}

\* One claim per guest.
PoolClaimInv ==
    /\ \A c \in Call : PoolClaims(c) => vm[c] \in Guest /\ guest[vm[c]] # "unordered"
    /\ \A c1, c2 \in Call :
          c1 # c2 /\ PoolClaims(c1) /\ PoolClaims(c2) => vm[c1] # vm[c2]

\* One delete_vm per lease, on the guest of the lease.
SingleLease ==
    /\ \A d \in Call : lease[d] # None =>
          /\ pc[lease[d]] = "returned"
          /\ vm[d] = vm[lease[d]]
          /\ pc[d] \in DeleteSteps \cup {"deleted", "failed", "crashed"}
    /\ \A d \in Call : pc[d] \in DeleteSteps \cup {"deleted"} => lease[d] # None
    /\ \A d, e \in Call : lease[d] = lease[e] /\ lease[d] # None => d = e

\* The pool offers no guest that a call is tied to, and only live ones.
PoolStateInv ==
    /\ \A v \in Guest : guest[v] = "unordered" => pool[v] = "absent"
    /\ \A c \in Call : PoolClaims(c) => pool[vm[c]] # "free"
    /\ PoolOffersLiveGuests

\* What a claimed guest runs.  An AwaitProvisioned that succeeds ends in a
\* panic, so a ready call has its guest from the pool.
PoolBootInv ==
    /\ \A c \in Call : pc[c] \in {"provision", "reloading", "commit"} \cup ReadySteps
          => booted[vm[c]] = c
    /\ \A c \in Call : pc[c] = "returned" /\ PoolClaims(c) => booted[vm[c]] = c
    /\ \A c \in Call : pc[c] = "commit" => guest[vm[c]] = "running"
    /\ \A c \in Call : pc[c] \in ReadySteps \/ (pc[c] = "returned" /\ PoolClaims(c))
          => guest[vm[c]] = "running" /\ pool[vm[c]] = "using"

PoolInv ==
    TypeOK /\ NoReload /\ PoolClaimInv /\ SingleLease /\ PoolStateInv /\ PoolBootInv

-----------------------------------------------------------------------------
(* Every action keeps the invariant.                                       *)

\* StartCreate: a create_vm that has only been started claims no guest of
\* the pool.
LEMMA StartCreateInPool ==
  ASSUME PoolInv, PoolConfig, TypeOK', NEW c \in Call, StartCreate(c)
  PROVE  PoolInv'
<1> USE ConfigAssumption DEF PoolInv, TypeOK, StartCreate, Goto, Active,
  CreateSteps, DeleteSteps, Assignable, remote, local
<1>1. NoReload'
  BY DEF PoolConfig, NoReload, ReloadsByIp
<1>2. PoolClaimInv'
  BY DEF PoolClaimInv, PoolClaims, PoolClaimSteps, ReadySteps
<1>3. SingleLease'
  BY DEF PoolConfig, SingleLease, PoolClaimInv, Leased, PoolClaims,
    PoolClaimSteps
<1>4. PoolStateInv'
  BY DEF PoolConfig, PoolStateInv, PoolClaimInv, SingleLease, NoReload,
    ReloadsByIp, PoolBootInv, PoolOffersLiveGuests, PoolClaims,
    PoolClaimSteps, ReadySteps
<1>5. PoolBootInv'
  BY SMTT(30) DEF PoolConfig, PoolBootInv, PoolClaimInv, SingleLease, NoReload,
    ReloadsByIp, Held, PoolClaims, PoolClaimSteps, ReadySteps
<1> QED BY <1>1, <1>2, <1>3, <1>4, <1>5

\* StartDelete: asking for a delete_vm keeps the claim of the create_vm
\* until the guest is released.
LEMMA StartDeleteInPool ==
  ASSUME PoolInv, PoolConfig, TypeOK', NEW c \in Call, StartDelete(c)
  PROVE  PoolInv'
<1> USE ConfigAssumption DEF PoolInv, TypeOK, StartDelete, Goto, Active,
  CreateSteps, DeleteSteps, remote, local
<1>1. NoReload'
  BY DEF PoolConfig, NoReload, ReloadsByIp
<1>2. PoolClaimInv'
  BY SMTT(30) DEF PoolClaimInv, PoolClaims, PoolClaimSteps, ReadySteps, SingleLease,
    PoolConfig
<1>3. SingleLease'
  BY DEF PoolConfig, SingleLease, PoolClaimInv, Leased, PoolClaims,
    PoolClaimSteps
<1>4. PoolStateInv'
  BY DEF PoolConfig, PoolStateInv, PoolClaimInv, SingleLease, NoReload,
    ReloadsByIp, PoolBootInv, PoolOffersLiveGuests, PoolClaims,
    PoolClaimSteps, ReadySteps
<1>5. PoolBootInv'
  BY SMTT(30) DEF PoolConfig, PoolBootInv, PoolClaimInv, SingleLease, NoReload,
    ReloadsByIp, Held, PoolClaims, PoolClaimSteps, ReadySteps
<1> QED BY <1>1, <1>2, <1>3, <1>4, <1>5

\* Prepare: without OS reload Prepare goes to the pool, and claims nothing.
LEMMA PrepareInPool ==
  ASSUME PoolInv, PoolConfig, TypeOK', NEW c \in Call, Prepare(c)
  PROVE  PoolInv'
<1> USE ConfigAssumption DEF PoolInv, TypeOK, Prepare, Goto, ReloadsByIp,
  remote, local
<1>1. NoReload'
  BY DEF PoolConfig, NoReload
<1>2. PoolClaimInv'
  BY DEF PoolClaimInv, PoolClaims, PoolClaimSteps, ReadySteps
<1>3. SingleLease'
  BY SMTT(30) DEF PoolConfig, SingleLease, DeleteSteps, PoolClaimInv, Leased,
    PoolClaims, PoolClaimSteps
<1>4. PoolStateInv'
  BY DEF PoolConfig, PoolStateInv, PoolClaimInv, SingleLease, NoReload,
    PoolBootInv, PoolOffersLiveGuests, PoolClaims, PoolClaimSteps, ReadySteps
<1>5. PoolBootInv'
  BY SMTT(30) DEF PoolConfig, PoolBootInv, PoolClaimInv, SingleLease, NoReload, Held,
    PoolClaims, PoolClaimSteps, ReadySteps
<1> QED BY <1>1, <1>2, <1>3, <1>4, <1>5

\* OrderFromPool: a guest the pool orders was free, hence claimed by no
\* other call.
LEMMA OrderFromPoolInPool ==
  ASSUME PoolInv, PoolConfig, TypeOK', NEW c \in Call, OrderFromPool(c)
  PROVE  PoolInv'
<1> USE ConfigAssumption DEF PoolInv, TypeOK, OrderFromPool, 
      Offered, Goto, remote,
  local
<1>1. NoReload'
  BY DEF PoolConfig, NoReload, ReloadsByIp
<1>2. PoolClaimInv'
  BY DEF PoolClaimInv, PoolClaims, PoolClaimSteps, ReadySteps, PoolStateInv
<1>3. SingleLease'
  BY SMTT(30) DEF PoolConfig, SingleLease, DeleteSteps, PoolClaimInv, Leased,
    PoolClaims, PoolClaimSteps
<1>4. PoolStateInv'
  BY DEF PoolConfig, PoolStateInv, PoolClaimInv, SingleLease, NoReload,
    ReloadsByIp, PoolBootInv, PoolOffersLiveGuests, PoolClaims,
    PoolClaimSteps, ReadySteps
<1>5. PoolBootInv'
  BY SMTT(30) DEF PoolConfig, PoolBootInv, PoolClaimInv, SingleLease, NoReload,
    ReloadsByIp, Held, PoolClaims, PoolClaimSteps, ReadySteps
<1> QED BY <1>1, <1>2, <1>3, <1>4, <1>5

\* OrderGuest: an ordered guest is new, hence known to no call and absent
\* from the pool.
LEMMA OrderGuestInPool ==
  ASSUME PoolInv, PoolConfig, TypeOK', NEW c \in Call, OrderGuest(c)
  PROVE  PoolInv'
<1> USE ConfigAssumption DEF PoolInv, TypeOK, OrderGuest, Goto, remote, local
<1>1. NoReload'
  BY DEF PoolConfig, NoReload, ReloadsByIp
<1>2. PoolClaimInv'
  BY DEF PoolClaimInv, PoolClaims, PoolClaimSteps, ReadySteps
<1>3. SingleLease'
  BY SMTT(60) DEF PoolConfig, SingleLease, DeleteSteps, PoolClaimInv, Leased,
    PoolClaims, PoolClaimSteps
<1>4. PoolStateInv'
  BY SMTT(30) DEF PoolConfig, PoolStateInv, PoolClaimInv, SingleLease, NoReload,
    ReloadsByIp, PoolBootInv, PoolOffersLiveGuests, PoolClaims,
    PoolClaimSteps, ReadySteps
<1>5. PoolBootInv'
  BY SMTT(30) DEF PoolConfig, PoolBootInv, PoolClaimInv, SingleLease, NoReload,
    ReloadsByIp, Held, PoolClaims, PoolClaimSteps, ReadySteps
<1> QED BY <1>1, <1>2, <1>3, <1>4, <1>5

\* AwaitProvisioned: behind the pool the provisioning of an ordered guest
\* ends every call.
LEMMA AwaitProvisionedInPool ==
  ASSUME PoolInv, PoolConfig, TypeOK', NEW c \in Call, AwaitProvisioned(c)
  PROVE  PoolInv'
<1> USE ConfigAssumption DEF PoolInv, TypeOK, AwaitProvisioned, 
      Ready, Goto, Visible,
  remote, local
<1>1. NoReload'
  BY DEF PoolConfig, NoReload, ReloadsByIp
<1>2. PoolClaimInv'
  BY DEF PoolClaimInv, PoolClaims, PoolClaimSteps, ReadySteps
<1>3. SingleLease'
  BY DEF PoolConfig, SingleLease, DeleteSteps, PoolClaimInv, Leased,
    PoolClaims, PoolClaimSteps
<1>4. PoolStateInv'
  BY DEF PoolConfig, PoolStateInv, PoolClaimInv, SingleLease, NoReload,
    ReloadsByIp, PoolBootInv, PoolOffersLiveGuests, PoolClaims,
    PoolClaimSteps, ReadySteps
<1>5. PoolBootInv'
  BY SMTT(30) DEF PoolConfig, PoolBootInv, PoolClaimInv, SingleLease, NoReload,
    ReloadsByIp, Held, PoolClaims, PoolClaimSteps, ReadySteps
<1> QED BY <1>1, <1>2, <1>3, <1>4, <1>5

\* StartReload: a reload takes down only the guest the call has ordered
\* from the pool.
LEMMA StartReloadInPool ==
  ASSUME PoolInv, PoolConfig, TypeOK', NEW c \in Call, StartReload(c)
  PROVE  PoolInv'
<1> USE ConfigAssumption DEF PoolInv, TypeOK, StartReload, Goto, remote, local
<1>1. NoReload'
  BY DEF PoolConfig, NoReload, ReloadsByIp
<1>2. PoolClaimInv'
  BY DEF PoolClaimInv, PoolClaims, PoolClaimSteps, ReadySteps
<1>3. SingleLease'
  BY DEF PoolConfig, SingleLease, DeleteSteps, PoolClaimInv, Leased,
    PoolClaims, PoolClaimSteps
<1>4. PoolStateInv'
  BY SMTT(60) DEF PoolConfig, PoolStateInv, PoolClaimInv, SingleLease, NoReload,
    ReloadsByIp, PoolBootInv, PoolOffersLiveGuests, PoolClaims,
    PoolClaimSteps, ReadySteps
<1>5. PoolBootInv'
  BY SMTT(30) DEF PoolConfig, PoolBootInv, PoolClaimInv, SingleLease, NoReload,
    ReloadsByIp, Held, PoolClaims, PoolClaimSteps, ReadySteps
<1> QED BY <1>1, <1>2, <1>3, <1>4, <1>5

\* AwaitReloaded: a guest is committed to the pool only when it runs the
\* image of this call.
LEMMA AwaitReloadedInPool ==
  ASSUME PoolInv, PoolConfig, TypeOK', NEW c \in Call, AwaitReloaded(c)
  PROVE  PoolInv'
<1> USE ConfigAssumption DEF PoolInv, TypeOK, AwaitReloaded, 
      Ready, Goto, remote,
  local
<1>1. NoReload'
  BY DEF PoolConfig, NoReload, ReloadsByIp
<1>2. PoolClaimInv'
  BY DEF PoolClaimInv, PoolClaims, PoolClaimSteps, ReadySteps, PoolConfig,
    ReloadsByIp
<1>3. SingleLease'
  BY DEF PoolConfig, SingleLease, DeleteSteps, PoolClaimInv, Leased,
    PoolClaims, PoolClaimSteps
<1>4. PoolStateInv'
  BY DEF PoolConfig, PoolStateInv, PoolClaimInv, SingleLease, NoReload,
    ReloadsByIp, PoolBootInv, PoolOffersLiveGuests, PoolClaims,
    PoolClaimSteps, ReadySteps
<1>5. PoolBootInv'
  BY SMTT(30) DEF PoolConfig, PoolBootInv, PoolClaimInv, SingleLease, NoReload,
    ReloadsByIp, Held, PoolClaims, PoolClaimSteps, ReadySteps
<1> QED BY <1>1, <1>2, <1>3, <1>4, <1>5

\* CommitToPool: the guest committed is the one this call ordered; it is in
\* use from here on.
LEMMA CommitToPoolInPool ==
  ASSUME PoolInv, PoolConfig, TypeOK', NEW c \in Call, CommitToPool(c)
  PROVE  PoolInv'
<1> USE ConfigAssumption DEF PoolInv, TypeOK, CommitToPool, Goto, Visible,
  remote, local
<1>1. NoReload'
  BY DEF PoolConfig, NoReload, ReloadsByIp
<1>2. PoolClaimInv'
  BY DEF PoolClaimInv, PoolClaims, PoolClaimSteps, ReadySteps
<1>3. SingleLease'
  BY DEF PoolConfig, SingleLease, DeleteSteps, PoolClaimInv, Leased,
    PoolClaims, PoolClaimSteps
<1>4. PoolStateInv'
  BY DEF PoolConfig, PoolStateInv, PoolClaimInv, SingleLease, NoReload,
    ReloadsByIp, PoolBootInv, PoolOffersLiveGuests, PoolClaims,
    PoolClaimSteps, ReadySteps
<1>5. PoolBootInv'
  BY SMTT(30) DEF PoolConfig, PoolBootInv, PoolClaimInv, SingleLease, NoReload,
    ReloadsByIp, Held, PoolClaims, PoolClaimSteps, ReadySteps
<1> QED BY <1>1, <1>2, <1>3, <1>4, <1>5

\* Configure: configuring keeps the claim, and a failure leaves the guest
\* to be cancelled.
LEMMA ConfigureInPool ==
  ASSUME PoolInv, PoolConfig, TypeOK', NEW c \in Call, Configure(c)
  PROVE  PoolInv'
<1> USE ConfigAssumption DEF PoolInv, TypeOK, Configure, Goto, Visible,
  Unwind, remote, local
<1>1. NoReload'
  BY DEF PoolConfig, NoReload, ReloadsByIp
<1>2. PoolClaimInv'
  BY DEF PoolClaimInv, PoolClaims, PoolClaimSteps, ReadySteps
<1>3. SingleLease'
  BY DEF PoolConfig, SingleLease, DeleteSteps, PoolClaimInv, Leased,
    PoolClaims, PoolClaimSteps
<1>4. PoolStateInv'
  BY DEF PoolConfig, PoolStateInv, PoolClaimInv, SingleLease, NoReload,
    ReloadsByIp, PoolBootInv, PoolOffersLiveGuests, PoolClaims,
    PoolClaimSteps, ReadySteps
<1>5. PoolBootInv'
  BY SMTT(30) DEF PoolConfig, PoolBootInv, PoolClaimInv, SingleLease, NoReload,
    ReloadsByIp, Held, PoolClaims, PoolClaimSteps, ReadySteps
<1> QED BY <1>1, <1>2, <1>3, <1>4, <1>5

\* AttachEphemeral: an ephemeral disk keeps the claim, and a failure leaves
\* the guest to be cancelled.
LEMMA AttachEphemeralInPool ==
  ASSUME PoolInv, PoolConfig, TypeOK', NEW c \in Call, AttachEphemeral(c)
  PROVE  PoolInv'
<1> USE ConfigAssumption DEF PoolInv, TypeOK, AttachEphemeral, Goto, Visible,
  Unwind, remote, local
<1>1. NoReload'
  BY DEF PoolConfig, NoReload, ReloadsByIp
<1>2. PoolClaimInv'
  BY DEF PoolClaimInv, PoolClaims, PoolClaimSteps, ReadySteps
<1>3. SingleLease'
  BY DEF PoolConfig, SingleLease, DeleteSteps, PoolClaimInv, Leased,
    PoolClaims, PoolClaimSteps
<1>4. PoolStateInv'
  BY DEF PoolConfig, PoolStateInv, PoolClaimInv, SingleLease, NoReload,
    ReloadsByIp, PoolBootInv, PoolOffersLiveGuests, PoolClaims,
    PoolClaimSteps, ReadySteps
<1>5. PoolBootInv'
  BY SMTT(30) DEF PoolConfig, PoolBootInv, PoolClaimInv, SingleLease, NoReload,
    ReloadsByIp, Held, PoolClaims, PoolClaimSteps, ReadySteps
<1> QED BY <1>1, <1>2, <1>3, <1>4, <1>5

\* Register: registering turns the claim into a lease and leaves the pool
\* alone.
LEMMA RegisterInPool ==
  ASSUME PoolInv, PoolConfig, TypeOK', NEW c \in Call, Register(c)
  PROVE  PoolInv'
<1> USE ConfigAssumption DEF PoolInv, TypeOK, Register, 
      AgentSettings, Goto, Unwind, remote,
  local
<1>1. NoReload'
  BY DEF PoolConfig, NoReload, ReloadsByIp
<1>2. PoolClaimInv'
  BY DEF PoolClaimInv, PoolClaims, PoolClaimSteps, ReadySteps
<1>3. SingleLease'
  BY DEF PoolConfig, SingleLease, DeleteSteps, PoolClaimInv, Leased,
    PoolClaims, PoolClaimSteps
<1>4. PoolStateInv'
  BY DEF PoolConfig, PoolStateInv, PoolClaimInv, SingleLease, NoReload,
    ReloadsByIp, PoolBootInv, PoolOffersLiveGuests, PoolClaims,
    PoolClaimSteps, ReadySteps
<1>5. PoolBootInv'
  BY SMTT(30) DEF PoolConfig, PoolBootInv, PoolClaimInv, SingleLease, NoReload,
    ReloadsByIp, Held, PoolClaims, PoolClaimSteps, ReadySteps
<1> QED BY <1>1, <1>2, <1>3, <1>4, <1>5

\* CleanUp: the guest cancelled is one that this call claimed, and the pool
\* does not offer it.
LEMMA CleanUpInPool ==
  ASSUME PoolInv, PoolConfig, TypeOK', NEW c \in Call, CleanUp(c)
  PROVE  PoolInv'
<1> USE ConfigAssumption DEF PoolInv, TypeOK, CleanUp, 
      CancelGuest, Goto, remote, local
<1>1. NoReload'
  BY DEF PoolConfig, NoReload, ReloadsByIp
<1>2. PoolClaimInv'
  BY DEF PoolClaimInv, PoolClaims, PoolClaimSteps, ReadySteps
<1>3. SingleLease'
  BY DEF PoolConfig, SingleLease, DeleteSteps, PoolClaimInv, Leased,
    PoolClaims, PoolClaimSteps
<1>4. PoolStateInv'
  BY DEF PoolConfig, PoolStateInv, PoolClaimInv, SingleLease, NoReload,
    ReloadsByIp, PoolBootInv, PoolOffersLiveGuests, PoolClaims,
    PoolClaimSteps, ReadySteps
<1>5. PoolBootInv'
  BY SMTT(30) DEF PoolConfig, PoolBootInv, PoolClaimInv, SingleLease, NoReload,
    ReloadsByIp, Held, PoolClaims, PoolClaimSteps, ReadySteps
<1> QED BY <1>1, <1>2, <1>3, <1>4, <1>5

\* ReleaseGuest: a guest goes back to the pool only when no other call has
\* it.
LEMMA ReleaseGuestInPool ==
  ASSUME PoolInv, PoolConfig, TypeOK', NEW c \in Call, ReleaseGuest(c)
  PROVE  PoolInv'
<1> USE ConfigAssumption DEF PoolInv, TypeOK, ReleaseGuest, FreeInPool, Goto, remote, local
<1> DEFINE holder == lease[c]
<1>1. /\ holder \in Call /\ PoolClaims(holder) /\ pc[holder] = "returned"
      /\ vm[c] = vm[holder] /\ vm[c] \in Guest
  BY DEF SingleLease, DeleteSteps, PoolClaims, PoolClaimInv
<1>2. guest[vm[c]] = "running"
  BY <1>1 DEF PoolBootInv
<1>3. /\ guest' = guest
      /\ pool' \in {pool, [pool EXCEPT ![vm[c]] = "free"]}
  BY <1>2 DEF PoolConfig
<1>4. pc' = [pc EXCEPT ![c] = pc'[c]] /\ pc'[c] \in {"unregisterGuest", "failed"}
  OBVIOUS
<1>5. \A e \in Call : PoolClaims(e)' => PoolClaims(e) /\ vm[e] # vm[c] /\ pc'[e] = pc[e]
  <2> SUFFICES ASSUME NEW e \in Call, PoolClaims(e)'
               PROVE  PoolClaims(e) /\ vm[e] # vm[c] /\ pc'[e] = pc[e]
    OBVIOUS
  <2>1. e # c
    BY <1>4 DEF PoolClaims, PoolClaimSteps, ReadySteps
  <2>2. PoolClaims(e) /\ pc'[e] = pc[e]
    BY <1>4, <2>1 DEF PoolClaims
  <2>3. e # holder
    BY <1>1, <1>4, <2>1, <2>2 DEF PoolClaims, PoolClaimSteps, ReadySteps
  <2> QED BY <1>1, <2>2, <2>3 DEF PoolClaimInv
<1>6. NoReload'
  BY DEF NoReload
<1>7. PoolClaimInv'
  BY <1>3, <1>5 DEF PoolClaimInv
<1>8. SingleLease'
  BY <1>1, <1>4 DEF SingleLease, DeleteSteps
<1>9. PoolStateInv'
  BY <1>1, <1>2, <1>3, <1>5 DEF PoolStateInv, PoolOffersLiveGuests, PoolClaimInv
<1>10. PoolBootInv'
  <2>1. \A e \in Call : PoolClaims(e)' => pool'[vm[e]] = pool[vm[e]]
    BY <1>1, <1>3, <1>5 DEF PoolClaimInv
  <2>2. \A e \in Call : pc'[e] \in PoolClaimSteps => PoolClaims(e)'
    BY DEF PoolClaims
  <2> QED
    BY <1>3, <1>4, <1>5, <2>1, <2>2 DEF PoolBootInv, PoolClaimSteps, ReadySteps
<1> QED BY <1>6, <1>7, <1>8, <1>9, <1>10

\* UnregisterGuest: dropping settings touches neither guests nor pool.
LEMMA UnregisterGuestInPool ==
  ASSUME PoolInv, PoolConfig, TypeOK', NEW c \in Call, UnregisterGuest(c)
  PROVE  PoolInv'
<1> USE ConfigAssumption DEF PoolInv, TypeOK, UnregisterGuest, Goto, remote,
  local
<1>1. NoReload'
  BY DEF PoolConfig, NoReload, ReloadsByIp
<1>2. PoolClaimInv'
  BY DEF PoolClaimInv, PoolClaims, PoolClaimSteps, ReadySteps
<1>3. SingleLease'
  BY DEF PoolConfig, SingleLease, DeleteSteps, PoolClaimInv, Leased,
    PoolClaims, PoolClaimSteps
<1>4. PoolStateInv'
  BY DEF PoolConfig, PoolStateInv, PoolClaimInv, SingleLease, NoReload,
    ReloadsByIp, PoolBootInv, PoolOffersLiveGuests, PoolClaims,
    PoolClaimSteps, ReadySteps
<1>5. PoolBootInv'
  BY SMTT(30) DEF PoolConfig, PoolBootInv, PoolClaimInv, SingleLease, NoReload,
    ReloadsByIp, Held, PoolClaims, PoolClaimSteps, ReadySteps
<1> QED BY <1>1, <1>2, <1>3, <1>4, <1>5

\* Crash: a call that dies gives up its claim, and its guest stays out of
\* the pool.
LEMMA CrashInPool ==
  ASSUME PoolInv, PoolConfig, TypeOK', NEW c \in Call, Crash(c)
  PROVE  PoolInv'
<1> USE ConfigAssumption DEF PoolInv, TypeOK, Crash, Goto, Active,
  CreateSteps, DeleteSteps, remote, local
<1>1. NoReload'
  BY DEF PoolConfig, NoReload, ReloadsByIp
<1>2. PoolClaimInv'
  BY DEF PoolClaimInv, PoolClaims, PoolClaimSteps, ReadySteps
<1>3. SingleLease'
  BY DEF PoolConfig, SingleLease, PoolClaimInv, Leased, PoolClaims,
    PoolClaimSteps
<1>4. PoolStateInv'
  BY DEF PoolConfig, PoolStateInv, PoolClaimInv, SingleLease, NoReload,
    ReloadsByIp, PoolBootInv, PoolOffersLiveGuests, PoolClaims,
    PoolClaimSteps, ReadySteps
<1>5. PoolBootInv'
  BY SMTT(30) DEF PoolConfig, PoolBootInv, PoolClaimInv, SingleLease, NoReload,
    ReloadsByIp, Held, PoolClaims, PoolClaimSteps, ReadySteps
<1> QED BY <1>1, <1>2, <1>3, <1>4, <1>5

\* Settle: a transaction that ends makes a busy guest run, and changes no
\* claim.
LEMMA SettleInPool ==
  ASSUME PoolInv, PoolConfig, TypeOK', NEW v \in Guest, Settle(v)
  PROVE  PoolInv'
<1> USE ConfigAssumption DEF PoolInv, TypeOK, Settle, remote, local
<1>1. NoReload'
  BY DEF PoolConfig, NoReload, ReloadsByIp
<1>2. PoolClaimInv'
  BY DEF PoolClaimInv, PoolClaims, PoolClaimSteps, ReadySteps
<1>3. SingleLease'
  BY DEF PoolConfig, SingleLease, DeleteSteps, PoolClaimInv, Leased,
    PoolClaims, PoolClaimSteps
<1>4. PoolStateInv'
  BY DEF PoolConfig, PoolStateInv, PoolClaimInv, SingleLease, NoReload,
    ReloadsByIp, PoolBootInv, PoolOffersLiveGuests, PoolClaims,
    PoolClaimSteps, ReadySteps
<1>5. PoolBootInv'
  BY SMTT(30) DEF PoolConfig, PoolBootInv, PoolClaimInv, SingleLease, NoReload,
    ReloadsByIp, Held, PoolClaims, PoolClaimSteps, ReadySteps
<1> QED BY <1>1, <1>2, <1>3, <1>4, <1>5

\* Reclaim: a guest that is removed had been cancelled, so the pool did not
\* offer it.
LEMMA ReclaimInPool ==
  ASSUME PoolInv, PoolConfig, TypeOK', NEW v \in Guest, Reclaim(v)
  PROVE  PoolInv'
<1> USE ConfigAssumption DEF PoolInv, TypeOK, Reclaim, remote, local
<1>1. NoReload'
  BY DEF PoolConfig, NoReload, ReloadsByIp
<1>2. PoolClaimInv'
  BY DEF PoolClaimInv, PoolClaims, PoolClaimSteps, ReadySteps
<1>3. SingleLease'
  BY DEF PoolConfig, SingleLease, DeleteSteps, PoolClaimInv, Leased,
    PoolClaims, PoolClaimSteps
<1>4. PoolStateInv'
  BY DEF PoolConfig, PoolStateInv, PoolClaimInv, SingleLease, NoReload,
    ReloadsByIp, PoolBootInv, PoolOffersLiveGuests, PoolClaims,
    PoolClaimSteps, ReadySteps
<1>5. PoolBootInv'
  BY SMTT(30) DEF PoolConfig, PoolBootInv, PoolClaimInv, SingleLease, NoReload,
    ReloadsByIp, Held, PoolClaims, PoolClaimSteps, ReadySteps
<1> QED BY <1>1, <1>2, <1>3, <1>4, <1>5

-----------------------------------------------------------------------------
(* The theorems.                                                           *)

\* The invariant holds at the start and every step keeps it.
LEMMA PoolInductive ==
  ASSUME PoolConfig
  PROVE  Spec => []PoolInv
<1>1. Init => PoolInv
  <2> SUFFICES ASSUME Init PROVE PoolInv
    OBVIOUS
  <2> USE ConfigAssumption DEF Init, CreateSteps, DeleteSteps, Outcomes
  <2>1. TypeOK
    BY DEF TypeOK, GuestState, PoolState
  <2>2. NoReload /\ SingleLease
    BY DEF NoReload, SingleLease
  <2>3. PoolClaimInv /\ PoolStateInv /\ PoolBootInv
    BY DEF PoolClaimInv, PoolStateInv, PoolBootInv, PoolClaims, PoolClaimSteps,
           ReadySteps, PoolOffersLiveGuests
  <2> QED BY <2>1, <2>2, <2>3 DEF PoolInv
<1>2. PoolInv /\ [Next]_vars => PoolInv'
  <2> SUFFICES ASSUME PoolInv, [Next]_vars PROVE PoolInv'
    OBVIOUS
  <2>1. TypeOK'
    BY TypeStep DEF PoolInv
  <2>2. ASSUME NEW c \in Call, StartCreate(c) \/ StartDelete(c) PROVE PoolInv'
    BY <2>1, <2>2, StartCreateInPool, StartDeleteInPool
  <2>3. ASSUME NEW c \in Call, CreateStep(c) PROVE PoolInv'
    <3>1. ~FindByIp(c) /\ ~UnregisterForReload(c) /\ ~UpgradeForReload(c)
      BY DEF PoolInv, NoReload, FindByIp, UnregisterForReload, UpgradeForReload
    <3> QED
      BY <2>1, <2>3, <3>1, PrepareInPool, OrderFromPoolInPool, OrderGuestInPool,
         AwaitProvisionedInPool, StartReloadInPool, AwaitReloadedInPool,
         CommitToPoolInPool, ConfigureInPool, AttachEphemeralInPool,
         RegisterInPool, CleanUpInPool DEF CreateStep
  <2>4. ASSUME NEW c \in Call, DeleteStep(c) PROVE PoolInv'
    BY <2>1, <2>4, ReleaseGuestInPool, UnregisterGuestInPool DEF DeleteStep
  <2>5. ASSUME NEW c \in Call, Crash(c) PROVE PoolInv'
    BY <2>1, <2>5, CrashInPool
  <2>6. ASSUME NEW v \in Guest, Settle(v) \/ Reclaim(v) PROVE PoolInv'
    BY <2>1, <2>6, SettleInPool, ReclaimInPool
  <2>7. CASE UNCHANGED vars
    <3> USE <2>7 DEF vars
    <3>1. NoReload' /\ PoolClaimInv' /\ SingleLease'
      BY DEF PoolInv, NoReload, PoolClaimInv, SingleLease, PoolClaims
    <3>2. PoolStateInv' /\ PoolBootInv'
      BY DEF PoolInv, PoolStateInv, PoolBootInv, PoolClaims, PoolOffersLiveGuests
    <3> QED BY <2>1, <3>1, <3>2 DEF PoolInv
  <2> QED BY <2>2, <2>3, <2>4, <2>5, <2>6, <2>7 DEF Next, AllDone
<1> QED BY <1>1, <1>2, PTL DEF Spec

\* With the pool, without reload by address and repeated deletes, no two
\* create_vm calls ever work on or return the same guest.
THEOREM OneCallPerPooledGuest ==
  ASSUME PoolConfig
  PROVE  Spec => []ExclusiveGuest
<1>1. PoolInv => ExclusiveGuest
  BY DEF PoolInv, NoReload, PoolClaimInv, PoolClaims, PoolClaimSteps, ReadySteps,
         Held, ExclusiveGuest, Works
<1> QED BY <1>1, PoolInductive, PTL

\* Under the same conditions a guest the director holds runs what its own
\* create_vm installed, and the pool counts it as in use.
THEOREM HeldGuestsInPool ==
  ASSUME PoolConfig
  PROVE  Spec => []HeldGuestInPool
<1>1. PoolInv => HeldGuestInPool
  BY DEF PoolInv, PoolBootInv, PoolClaims, Held, HeldGuestInPool
<1> QED BY <1>1, PoolInductive, PTL

\* Under the same conditions the pool offers no cancelled guest.
THEOREM OffersAreLive ==
  ASSUME PoolConfig
  PROVE  Spec => []PoolOffersLiveGuests
<1>1. PoolInv => PoolOffersLiveGuests
  BY DEF PoolInv, PoolStateInv
<1> QED BY <1>1, PoolInductive, PTL


-----------------------------------------------------------------------------
(* Without the pool, the calls keep VMContract.                            *)

\* What a step changes of the calls, and what it changes of the guests.
Quiet == UNCHANGED <<Runs, registry, Cancelled>>
NotHeld(v) == \A c \in Call : Held(c) => vm[c] # v

LEMMA SameLeases ==
  ASSUME TypeOK, NEW c \in Call
  PROVE  /\ Contract!Leased(c) <=> Leased(c)
         /\ Contract!Held(c) <=> Held(c)
         /\ pc[c] = "returned" => Cids[c] = vm[c]
<1>1. \A b \in Call : /\ Answers[b] = "returned" <=> pc[b] = "returned"
                      /\ Answers[b] = "deleted" <=> pc[b] = "deleted"
  BY DEF Answers, Active, CreateSteps, DeleteSteps
<1> QED BY <1>1 DEF Contract!Leased, Contract!Held, Leased, Held, Cids

\* A call that has claimed its guest, and a delete_vm, work on a guest that
\* nobody holds.
LEMMA ClaimedIsNotHeld ==
  ASSUME AccountInv, NEW c \in Call, pc[c] \in ClaimSteps \cup DeleteSteps
  PROVE  vm[c] \in Guest /\ NotHeld(vm[c])
<1>1. ASSUME NEW b \in Call, Held(b), vm[b] = vm[c] PROVE FALSE
  <2>1. Leased(b) /\ Claims(b)
    BY <1>1 DEF Held, Leased, Claims
  <2>2. CASE pc[c] \in ClaimSteps
    <3>1. Claims(c) /\ b # c
      BY <1>1, <2>2 DEF Claims, Held, ClaimSteps
    <3> QED BY <1>1, <2>1, <3>1 DEF AccountInv, ClaimInv
  <2>3. CASE pc[c] \in DeleteSteps
    <3>1. lease[c] \in Call /\ pc[lease[c]] = "returned" /\ vm[c] = vm[lease[c]]
      BY <2>3 DEF AccountInv, LeaseInv, TypeOK
    <3>2. \A e \in Call : lease[e] = lease[c] => pc[e] # "deleted"
      BY <2>3 DEF AccountInv, LeaseInv, DeleteSteps
    <3>3. Leased(lease[c]) /\ Claims(lease[c]) /\ lease[c] # b
      BY <1>1, <3>1, <3>2 DEF Leased, Held, Claims
    <3> QED BY <1>1, <2>1, <3>1, <3>3 DEF AccountInv, ClaimInv
  <2> QED BY <2>2, <2>3
<1>2. vm[c] \in Guest
  BY DEF AccountInv, ClaimInv, LeaseInv, Claims
<1> QED BY <1>1, <1>2 DEF NotHeld

\* A step that changes what SoftLayer says of one guest.
LEMMA GuestFrame ==
  ASSUME TypeOK, NEW v \in Guest,
         \A u \in Guest \ {v} : guest'[u] = guest[u] /\ booted'[u] = booted[u]
  PROVE  /\ Runs' = [Runs EXCEPT ![v] = IF guest'[v] = "running" THEN booted'[v] ELSE None]
         /\ Cancelled' = [Cancelled EXCEPT ![v] = guest'[v] \in {"reclaiming", "gone"}]
         /\ Runs[v] = IF guest[v] = "running" THEN booted[v] ELSE None
         /\ Cancelled[v] = (guest[v] \in {"reclaiming", "gone"})
BY DEF Runs, Cancelled

LEMMA NothingToGuests ==
  ASSUME TypeOK, UNCHANGED <<guest, booted, registry>>
  PROVE  Quiet
BY DEF Quiet, Runs, Cancelled

\* What a step may do to a guest that nobody holds: start or stop it, write
\* its settings, cancel it.
LEMMA RunIsPromised ==
  ASSUME TypeOK, TypeOK', NEW v \in Guest, NotHeld(v), UNCHANGED registry,
         \A u \in Guest \ {v} : guest'[u] = guest[u] /\ booted'[u] = booted[u],
         {guest[v], guest'[v]} \cap {"reclaiming", "gone"} = {}
  PROVE  Contract!Effect(v)
<1>1. ASSUME NEW c \in Call, Contract!Held(c) PROVE Cids[c] # v
  BY <1>1, SameLeases DEF NotHeld, Held
<1>2. Runs' = [Runs EXCEPT ![v] = IF guest'[v] = "running" THEN booted'[v] ELSE None]
  BY GuestFrame
<1>3. Cancelled' = Cancelled /\ ~Cancelled[v]
  <2>1. guest[v] \notin {"reclaiming", "gone"} /\ guest'[v] \notin {"reclaiming", "gone"}
    OBVIOUS
  <2>2. \A u \in Guest :
          (guest'[u] \in {"reclaiming", "gone"}) = (guest[u] \in {"reclaiming", "gone"})
    BY <2>1
  <2> QED BY <2>1, <2>2 DEF Cancelled
<1>4. (IF guest'[v] = "running" THEN booted'[v] ELSE None) \in Call \cup {None}
  BY DEF TypeOK
<1>5. Contract!Run(v)
  BY <1>2, <1>3, <1>4 DEF Contract!Run
<1> QED BY <1>1, <1>5 DEF Contract!Effect

LEMMA SettingsArePromised ==
  ASSUME TypeOK, NEW v \in Guest, NotHeld(v), UNCHANGED <<guest, booted>>,
         NEW c \in Call \cup {None}, registry' = [registry EXCEPT ![v] = c],
         c # None => guest[v] = "running"
  PROVE  Contract!Effect(v)
<1>1. ASSUME NEW b \in Call, Contract!Held(b) PROVE Cids[b] # v
  BY <1>1, SameLeases DEF NotHeld, Held
<1>2. UNCHANGED <<Runs, Cancelled>>
  BY DEF Runs, Cancelled
<1>3. c \in {None} \cup IF Cancelled[v] THEN {} ELSE Call
  BY DEF Cancelled
<1>4. Contract!Settings(v)
  BY <1>2, <1>3 DEF Contract!Settings
<1> QED BY <1>1, <1>4 DEF Contract!Effect

LEMMA CancelIsPromised ==
  ASSUME TypeOK, NEW v \in Guest, NotHeld(v), CancelGuest(v), UNCHANGED <<booted, registry>>,
         v \in Stock => \E d \in Call : lease[d] # None /\ vm[d] = v
  PROVE  Contract!Effect(v) \/ Quiet
<1>1. CASE UNCHANGED guest
  BY <1>1, NothingToGuests
<1>2. CASE guest' = [guest EXCEPT ![v] = "reclaiming"]
  <2>1. ASSUME NEW b \in Call, Contract!Held(b) PROVE Cids[b] # v
    BY <2>1, SameLeases DEF NotHeld, Held
  <2>2. /\ guest'[v] = "reclaiming"
        /\ \A u \in Guest \ {v} : guest'[u] = guest[u] /\ booted'[u] = booted[u]
    BY <1>2 DEF TypeOK
  <2>3. /\ Runs' = [Runs EXCEPT ![v] = None]
        /\ Cancelled' = [Cancelled EXCEPT ![v] = TRUE]
    BY <2>2, GuestFrame
  <2>4. v \in Stock => \E d \in Call : lease[d] # None /\ Cids[d] = v
    BY DEF Cids
  <2>5. Contract!Cancel(v)
    BY <2>3, <2>4 DEF Contract!Cancel
  <2> QED BY <2>1, <2>5 DEF Contract!Effect
<1> QED BY <1>1, <1>2 DEF CancelGuest

\* A step of a call that does not answer, or fails, with what it does to a
\* guest.
LEMMA WorkIsPromised ==
  ASSUME AccountInv, NEW c \in Call, Active(c),
         NEW s \in CreateSteps \cup DeleteSteps \cup {"failed", "crashed"},
         Goto(c, s), UNCHANGED lease,
         \A b \in Call : b # c \/ lease[b] # None => vm'[b] = vm[b],
         Quiet \/ \E v \in Guest : Contract!Effect(v)
  PROVE  [Contract!Next]_(Contract!contract)
<1>1. TypeOK /\ pc[c] # "returned" /\ s # "returned"
  BY DEF AccountInv, Active, CreateSteps, DeleteSteps
<1>2. Cids' = Cids
  BY <1>1 DEF Cids, Goto, TypeOK
<1>3. Answers' = [Answers EXCEPT ![c] =
                    IF s \in {"failed", "crashed"} THEN "failed" ELSE "open"]
  BY <1>1 DEF Answers, Active, Goto, TypeOK, CreateSteps, DeleteSteps
<1>4. Answers[c] = "open"
  BY DEF Answers
<1>5. CASE s \in {"failed", "crashed"}
  <2>1. Contract!Answers(c, "failed")
    BY <1>3, <1>5 DEF Contract!Answers
  <2>2. Contract!Fail(c)
    BY <1>2, <1>4, <2>1 DEF Contract!Fail, Contract!guests, Quiet
  <2> QED BY <2>2 DEF Contract!Next
<1>6. CASE s \notin {"failed", "crashed"}
  <2>1. Answers' = Answers
    BY <1>3, <1>4, <1>6 DEF Answers
  <2>2. CASE Quiet
    BY <1>2, <2>1, <2>2 DEF Contract!contract, Quiet
  <2>3. ASSUME NEW v \in Guest, Contract!Effect(v) PROVE Contract!Next
    <3>1. Contract!Work(v)
      BY <1>2, <2>1, <2>3 DEF Contract!Work, Contract!calls
    <3> QED BY <3>1 DEF Contract!Next
  <2> QED BY <2>2, <2>3
<1> QED BY <1>5, <1>6

\* The steps of a call that change neither what a guest runs nor its
\* settings, and cancel none.
LEMMA QuietSteps ==
  ASSUME AccountInv, ~EnableVps, NEW c \in Call,
         Prepare(c) \/ FindByIp(c) \/ UpgradeForReload(c) \/ AwaitProvisioned(c)
           \/ AwaitReloaded(c) \/ Configure(c) \/ AttachEphemeral(c) \/ Crash(c)
  PROVE  [Contract!Next]_(Contract!contract)
<1> USE DEF Goto, remote, local
<1>1. Active(c) /\ TypeOK /\ c # None
  BY ConfigAssumption DEF Prepare, FindByIp, UpgradeForReload, AwaitProvisioned, AwaitReloaded,
       Configure, AttachEphemeral, Crash, Active, CreateSteps, AccountInv
<1>2. Quiet /\ UNCHANGED lease
  <2>1. UNCHANGED <<guest, booted, registry, lease>>
    BY DEF Prepare, FindByIp, UpgradeForReload, AwaitProvisioned, AwaitReloaded,
         Configure, AttachEphemeral, Crash
  <2> QED BY <1>1, <2>1, NothingToGuests
<1>3. \A b \in Call : b # c \/ lease[b] # None => vm'[b] = vm[b]
  <2>1. CASE FindByIp(c)
    <3>1. lease[c] = None
      BY <2>1 DEF FindByIp, AccountInv, LeaseInv, DeleteSteps
    <3> QED BY <1>1, <2>1, <3>1 DEF FindByIp, TypeOK
  <2>2. CASE ~FindByIp(c)
    <3>1. UNCHANGED vm
      BY <2>2 DEF Prepare, UpgradeForReload, AwaitProvisioned, AwaitReloaded,
           Configure, AttachEphemeral, Crash
    <3> QED BY <3>1
  <2> QED BY <2>1, <2>2
<1>4. \E s \in CreateSteps \cup DeleteSteps \cup {"failed", "crashed"} : Goto(c, s)
  BY DEF Prepare, FindByIp, UpgradeForReload, AwaitProvisioned, AwaitReloaded,
       Configure, AttachEphemeral, Crash, CreateSteps, Unwind
<1>5. PICK s \in CreateSteps \cup DeleteSteps \cup {"failed", "crashed"} : Goto(c, s)
  BY <1>4
<1> HIDE DEF Goto
<1> QED BY <1>1, <1>2, <1>3, <1>5, WorkIsPromised

\* UnregisterForReload drops the settings of the guest of the address.
LEMMA UnregisterForReloadIsPromised ==
  ASSUME AccountInv, NEW c \in Call, UnregisterForReload(c)
  PROVE  [Contract!Next]_(Contract!contract)
<1>1. TypeOK /\ Active(c) /\ vm[c] \in Guest /\ NotHeld(vm[c])
  BY ClaimedIsNotHeld DEF UnregisterForReload, ClaimSteps, Active, CreateSteps, AccountInv
<1>2. Quiet \/ Contract!Effect(vm[c])
  <2>1. UNCHANGED <<guest, booted>>
    BY DEF UnregisterForReload
  <2>2. UNCHANGED registry \/ registry' = [registry EXCEPT ![vm[c]] = None]
    BY DEF UnregisterForReload
  <2> QED BY <1>1, <2>1, <2>2, NothingToGuests, SettingsArePromised
<1>3. PICK s \in {"upgrade", "failed"} : Goto(c, s)
  BY DEF UnregisterForReload
<1>4. UNCHANGED <<lease, vm>>
  BY DEF UnregisterForReload, local
<1> QED BY <1>1, <1>2, <1>3, <1>4, WorkIsPromised DEF CreateSteps

\* OrderGuest makes a guest that is not out yet.
LEMMA OrderGuestIsPromised ==
  ASSUME AccountInv, NEW c \in Call, OrderGuest(c)
  PROVE  [Contract!Next]_(Contract!contract)
<1>1. TypeOK /\ Active(c) /\ lease[c] = None
  BY DEF OrderGuest, Active, CreateSteps, AccountInv, LeaseInv, DeleteSteps
<1>2. Quiet
  <2>1. CASE UNCHANGED <<guest, booted>>
    BY <1>1, <2>1, NothingToGuests DEF OrderGuest
  <2>2. ASSUME NEW v \in Guest, guest[v] = "unordered",
               guest' = [guest EXCEPT ![v] = "busy"], booted' = [booted EXCEPT ![v] = c]
        PROVE  Quiet
    <3>1. \A u \in Guest : Runs'[u] = Runs[u]
      BY <1>1, <2>2 DEF Runs, TypeOK
    <3>2. \A u \in Guest :
            (guest'[u] \in {"reclaiming", "gone"}) = (guest[u] \in {"reclaiming", "gone"})
      BY <1>1, <2>2 DEF TypeOK
    <3> QED BY <3>1, <3>2 DEF Quiet, Runs, Cancelled, OrderGuest
  <2> QED BY <2>1, <2>2 DEF OrderGuest
<1>3. PICK s \in {"provision", "failed"} : Goto(c, s)
  BY DEF OrderGuest
<1>4. UNCHANGED lease /\ \A b \in Call : b # c => vm'[b] = vm[b]
  BY <1>1 DEF OrderGuest, TypeOK
<1> QED BY <1>1, <1>2, <1>3, <1>4, WorkIsPromised DEF CreateSteps

\* StartReload takes from the guest what it ran: nobody holds it.
LEMMA StartReloadIsPromised ==
  ASSUME AccountInv, TypeOK', NEW c \in Call, StartReload(c)
  PROVE  [Contract!Next]_(Contract!contract)
<1>1. TypeOK /\ Active(c) /\ vm[c] \in Guest /\ NotHeld(vm[c])
  BY ClaimedIsNotHeld DEF StartReload, ClaimSteps, Active, CreateSteps, AccountInv
<1>2. Quiet \/ Contract!Effect(vm[c])
  <2>1. CASE UNCHANGED <<guest, booted>>
    BY <1>1, <2>1, NothingToGuests DEF StartReload
  <2>2. CASE /\ guest[vm[c]] = "running" /\ guest' = [guest EXCEPT ![vm[c]] = "busy"]
             /\ booted' = [booted EXCEPT ![vm[c]] = c]
    <3>1. /\ {guest[vm[c]], guest'[vm[c]]} \cap {"reclaiming", "gone"} = {}
          /\ \A u \in Guest \ {vm[c]} : guest'[u] = guest[u] /\ booted'[u] = booted[u]
      BY <1>1, <2>2 DEF TypeOK
    <3> QED BY <1>1, <3>1, RunIsPromised DEF StartReload
  <2> QED BY <2>1, <2>2 DEF StartReload
<1>3. PICK s \in {"reloading", "failed"} : Goto(c, s)
  BY DEF StartReload
<1>4. UNCHANGED <<lease, vm>>
  BY DEF StartReload, local
<1> QED BY <1>1, <1>2, <1>3, <1>4, WorkIsPromised DEF CreateSteps

\* CleanUp cancels a guest that create_vm ordered and nobody holds.
LEMMA CleanUpIsPromised ==
  ASSUME AccountInv, NEW c \in Call, CleanUp(c)
  PROVE  [Contract!Next]_(Contract!contract)
<1>1. TypeOK /\ Active(c) /\ vm[c] \in Guest /\ NotHeld(vm[c])
  BY ClaimedIsNotHeld DEF CleanUp, ClaimSteps, Active, CreateSteps, AccountInv
<1>2. vm[c] \notin Stock
  BY DEF CleanUp, AccountInv, StockInv, ReadySteps
<1>3. Quiet \/ Contract!Effect(vm[c])
  <2>1. UNCHANGED <<booted, registry>> /\ (UNCHANGED guest \/ CancelGuest(vm[c]))
    BY DEF CleanUp
  <2> QED BY <1>1, <1>2, <2>1, NothingToGuests, CancelIsPromised
<1>4. Goto(c, "failed") /\ UNCHANGED <<lease, vm>>
  BY DEF CleanUp, local
<1> QED BY <1>1, <1>3, <1>4, WorkIsPromised

\* ReleaseGuest cancels the guest it was asked to delete.
LEMMA ReleaseGuestIsPromised ==
  ASSUME AccountInv, ~EnableVps, NEW d \in Call, ReleaseGuest(d)
  PROVE  [Contract!Next]_(Contract!contract)
<1>1. TypeOK /\ Active(d) /\ vm[d] \in Guest /\ NotHeld(vm[d]) /\ lease[d] # None
  BY ClaimedIsNotHeld DEF ReleaseGuest, DeleteSteps, Active, AccountInv, LeaseInv
<1>2. Quiet \/ Contract!Effect(vm[d])
  <2>1. UNCHANGED <<booted, registry>> /\ (UNCHANGED guest \/ CancelGuest(vm[d]))
    BY DEF ReleaseGuest
  <2> QED BY <1>1, <2>1, NothingToGuests, CancelIsPromised
<1>3. PICK s \in {"unregisterGuest", "failed"} : Goto(d, s)
  BY DEF ReleaseGuest
<1>4. UNCHANGED <<lease, vm>>
  BY DEF ReleaseGuest, local
<1> QED BY <1>1, <1>2, <1>3, <1>4, WorkIsPromised DEF DeleteSteps

\* Settle starts a guest that nobody holds: a held guest runs already.
LEMMA SettleIsPromised ==
  ASSUME AccountInv, TypeOK', NEW v \in Guest, Settle(v)
  PROVE  [Contract!Next]_(Contract!contract)
<1>1. TypeOK /\ UNCHANGED <<registry, booted, pc, lease, vm>>
  BY DEF AccountInv, Settle, local
<1>2. NotHeld(v)
  BY DEF NotHeld, Settle, AccountInv, BootInv
<1>3. /\ {guest[v], guest'[v]} \cap {"reclaiming", "gone"} = {}
      /\ \A u \in Guest \ {v} : guest'[u] = guest[u] /\ booted'[u] = booted[u]
  BY <1>1 DEF Settle, TypeOK
<1>4. Contract!Effect(v)
  BY <1>1, <1>2, <1>3, RunIsPromised
<1>5. UNCHANGED <<Answers, lease, Cids>>
  BY <1>1 DEF Answers, Cids, Active
<1>6. Contract!Work(v)
  BY <1>4, <1>5 DEF Contract!Work, Contract!calls
<1> QED BY <1>6 DEF Contract!Next

\* Reclaim removes a guest that was cancelled before.
LEMMA ReclaimIsPromised ==
  ASSUME AccountInv, NEW v \in Guest, Reclaim(v)
  PROVE  UNCHANGED Contract!contract
<1>1. TypeOK /\ UNCHANGED <<registry, booted, pc, lease, vm>>
  BY DEF AccountInv, Reclaim, local
<1>2. \A u \in Guest : /\ guest'[u] = "running" <=> guest[u] = "running"
                       /\ (guest'[u] \in {"reclaiming", "gone"}) = (guest[u] \in {"reclaiming", "gone"})
  BY <1>1 DEF Reclaim, TypeOK
<1>3. UNCHANGED <<Runs, Cancelled>>
  BY <1>1, <1>2 DEF Runs, Cancelled
<1>4. UNCHANGED <<Answers, lease, Cids>>
  BY <1>1 DEF Answers, Cids, Active
<1> QED BY <1>1, <1>3, <1>4 DEF Contract!contract

\* A call is asked for.
LEMMA StartCreateIsPromised ==
  ASSUME AccountInv, NEW c \in Call, StartCreate(c)
  PROVE  Contract!Next
<1>1. TypeOK /\ UNCHANGED <<guest, booted, registry, lease, vm>> /\ lease[c] = None
  BY DEF AccountInv, StartCreate, remote, LeaseInv, DeleteSteps
<1>2. pc[c] = "idle" /\ pc' = [pc EXCEPT ![c] = "prepare"]
  BY DEF StartCreate, Goto
<1>3. Answers[c] = "idle" /\ Answers' = [Answers EXCEPT ![c] = "open"]
  BY <1>1, <1>2 DEF Answers, Active, TypeOK, CreateSteps, DeleteSteps
<1>4. Cids' = Cids
  BY <1>1, <1>2 DEF Cids, TypeOK
<1>5. Quiet
  BY <1>1, NothingToGuests
<1>6. Contract!AskCreate(c)
  BY <1>1, <1>3, <1>4, <1>5 DEF Contract!AskCreate, Contract!Answers, Contract!guests, Quiet
<1> QED BY <1>6 DEF Contract!Next

LEMMA StartDeleteIsPromised ==
  ASSUME AccountInv, NEW d \in Call, StartDelete(d)
  PROVE  Contract!Next
<1>1. TypeOK /\ UNCHANGED <<guest, booted, registry>>
  BY DEF AccountInv, StartDelete, remote
<1>2. PICK c \in Call : /\ Leased(c)
                        /\ lease' = [lease EXCEPT ![d] = c] /\ vm' = [vm EXCEPT ![d] = vm[c]]
  BY DEF StartDelete
<1>3. pc[d] = "idle" /\ pc' = [pc EXCEPT ![d] = "releaseGuest"]
  BY DEF StartDelete, Goto
<1>4. Answers[d] = "idle" /\ Answers' = [Answers EXCEPT ![d] = "open"]
  BY <1>1, <1>3 DEF Answers, Active, TypeOK, CreateSteps, DeleteSteps
<1>5. Contract!Leased(c) /\ Cids[c] = vm[c]
  BY <1>1, <1>2, SameLeases DEF Leased
<1>6. Cids' = [Cids EXCEPT ![d] = Cids[c]]
  BY <1>1, <1>2, <1>3, <1>5, ConfigAssumption DEF Cids, TypeOK
<1>7. Quiet
  BY <1>1, NothingToGuests
<1>8. Contract!AskDelete(d)
  BY <1>2, <1>4, <1>5, <1>6, <1>7 DEF Contract!AskDelete, Contract!Answers, Contract!guests, Quiet
<1> QED BY <1>8 DEF Contract!Next

\* Register answers with the guest that runs what the call installed; a
\* registry that refuses, or is not heard, makes the call fail.
LEMMA RegisterIsPromised ==
  ASSUME AccountInv, NEW c \in Call, Register(c)
  PROVE  [Contract!Next]_(Contract!contract)
<1>1. TypeOK /\ Active(c) /\ vm[c] \in Guest /\ NotHeld(vm[c]) /\ lease[c] = None
  BY ClaimedIsNotHeld
  DEF Register, ClaimSteps, Active, CreateSteps, DeleteSteps, AccountInv, LeaseInv
<1>2. guest[vm[c]] = "running" /\ booted[vm[c]] = c
  BY DEF Register, AccountInv, BootInv, ReadySteps
<1>3. UNCHANGED <<guest, booted, lease, vm>>
  BY DEF Register, local
<1>4. CASE pc'[c] = "returned"
  <2>1. pc[c] = "register" /\ pc' = [pc EXCEPT ![c] = "returned"]
    BY <1>1, <1>4 DEF Register, Goto, TypeOK, Unwind
  <2>2. registry' = [registry EXCEPT ![vm[c]] = c]
    BY <1>1, <1>4 DEF Register, Goto, TypeOK, Unwind, AgentSettings
  <2>3. Answers[c] = "open" /\ Answers' = [Answers EXCEPT ![c] = "returned"]
    BY <1>1, <2>1 DEF Answers, Active, TypeOK, CreateSteps, DeleteSteps
  <2>4. Cids' = [Cids EXCEPT ![c] = vm[c]]
    BY <1>1, <1>3, <2>1 DEF Cids, TypeOK
  <2>5. UNCHANGED <<Runs, Cancelled>>
    BY <1>3 DEF Runs, Cancelled
  <2>6. Runs[vm[c]] = c /\ ~Cancelled[vm[c]]
    BY <1>1, <1>2 DEF Runs, Cancelled
  <2>7. ASSUME NEW b \in Call, Contract!Leased(b) PROVE Cids[b] # vm[c]
    <3>1. Leased(b) /\ Cids[b] = vm[b] /\ Claims(b)
      BY <1>1, <2>7, SameLeases DEF Leased, Claims
    <3>2. Claims(c) /\ b # c
      BY <2>1, <3>1 DEF Claims, ClaimSteps, Leased
    <3> QED BY <3>1, <3>2 DEF AccountInv, ClaimInv
  <2>8. Contract!Return(c)
    BY <1>1, <1>3, <2>2, <2>3, <2>4, <2>5, <2>6, <2>7 DEF Contract!Return, Contract!Answers
  <2> QED BY <2>8 DEF Contract!Next
<1>5. CASE pc'[c] # "returned"
  <2>1. PICK s \in {"cleanup", "failed"} : Goto(c, s)
    BY <1>1, <1>5 DEF Register, Goto, TypeOK, Unwind
  <2>2. registry' = [registry EXCEPT ![vm[c]] = c] \/ UNCHANGED registry
    BY DEF Register, AgentSettings
  <2>3. Quiet \/ Contract!Effect(vm[c])
    BY <1>1, <1>2, <1>3, <2>2, NothingToGuests, SettingsArePromised
  <2> QED BY <1>1, <1>3, <2>1, <2>3, WorkIsPromised DEF CreateSteps
<1> QED BY <1>4, <1>5

\* UnregisterGuest answers when the guest is cancelled and its settings are
\* gone.
LEMMA UnregisterGuestIsPromised ==
  ASSUME AccountInv, NEW d \in Call, UnregisterGuest(d)
  PROVE  [Contract!Next]_(Contract!contract)
<1>1. TypeOK /\ Active(d) /\ vm[d] \in Guest /\ NotHeld(vm[d]) /\ lease[d] # None
  BY ClaimedIsNotHeld DEF UnregisterGuest, DeleteSteps, Active, AccountInv, LeaseInv
<1>2. UNCHANGED <<guest, booted, lease, vm>>
  BY DEF UnregisterGuest, local
<1>3. CASE pc'[d] = "deleted"
  <2>1. pc[d] = "unregisterGuest" /\ pc' = [pc EXCEPT ![d] = "deleted"]
    BY <1>1, <1>3 DEF UnregisterGuest, Goto, TypeOK
  <2>2. registry' = [registry EXCEPT ![vm[d]] = None]
    BY <1>1, <1>3 DEF UnregisterGuest, Goto, TypeOK
  <2>3. Answers[d] = "open" /\ Answers' = [Answers EXCEPT ![d] = "deleted"]
    BY <1>1, <2>1 DEF Answers, Active, TypeOK, CreateSteps, DeleteSteps
  <2>4. Cids' = Cids /\ Cids[d] = vm[d]
    BY <1>1, <1>2, <2>1 DEF Cids, TypeOK
  <2>5. UNCHANGED <<Runs, Cancelled>>
    BY <1>2 DEF Runs, Cancelled
  <2>6. Cancelled[vm[d]]
    <3>1. guest[vm[d]] \in {"reclaiming", "gone"}
      BY <2>1 DEF AccountInv, GoneInv
    <3> QED BY <1>1, <3>1 DEF Cancelled
  <2>7. Contract!Deleted(d)
    BY <1>1, <1>2, <2>2, <2>3, <2>4, <2>5, <2>6 DEF Contract!Deleted, Contract!Answers
  <2> QED BY <2>7 DEF Contract!Next
<1>4. CASE pc'[d] # "deleted"
  <2>1. Goto(d, "failed")
    BY <1>1, <1>4 DEF UnregisterGuest, Goto, TypeOK
  <2>2. registry' = [registry EXCEPT ![vm[d]] = None] \/ UNCHANGED registry
    BY DEF UnregisterGuest
  <2>3. Quiet \/ Contract!Effect(vm[d])
    BY <1>1, <1>2, <2>2, NothingToGuests, SettingsArePromised
  <2> QED BY <1>1, <1>2, <2>1, <2>3, WorkIsPromised
<1> QED BY <1>3, <1>4

\* Without the pool, create_vm and delete_vm implement VMContract: every
\* behaviour of the calls, with their failures, lost answers and crashes, is
\* one of atomic calls that touch no guest another call has handed over.
THEOREM CallsKeepContract ==
  ASSUME ~EnableVps
  PROVE  Spec => KeepsVMContract
<1>1. Init => Contract!Init
  <2> SUFFICES ASSUME Init PROVE Contract!Init
    OBVIOUS
  <2>1. Answers = [c \in Call |-> "idle"] /\ Cids = [c \in Call |-> None]
    BY DEF Init, Answers, Cids, Active, CreateSteps, DeleteSteps
  <2>2. \A v \in Guest : /\ booted[v] = None
                         /\ (guest[v] \in {"reclaiming", "gone"}) = FALSE
    BY DEF Init
  <2>3. Runs = [v \in Guest |-> None]
    BY <2>2 DEF Runs
  <2>4. Cancelled = [v \in Guest |-> FALSE]
    BY <2>2, Zenon DEF Cancelled
  <2> QED BY <2>1, <2>3, <2>4 DEF Init, Contract!Init
<1>2. AccountInv /\ [Next]_vars => [Contract!Next]_(Contract!contract)
  <2> SUFFICES ASSUME AccountInv, [Next]_vars PROVE [Contract!Next]_(Contract!contract)
    OBVIOUS
  <2>1. TypeOK'
    BY TypeStep DEF AccountInv
  <2>2. ASSUME NEW c \in Call, StartCreate(c) \/ StartDelete(c) PROVE Contract!Next
    BY <2>2, StartCreateIsPromised, StartDeleteIsPromised
  <2>3. ASSUME NEW c \in Call, CreateStep(c) PROVE [Contract!Next]_(Contract!contract)
    <3>1. ~OrderFromPool(c) /\ ~CommitToPool(c)
      BY DEF AccountInv, PoolUnused, OrderFromPool, CommitToPool
    <3> QED
      BY <2>1, <2>3, <3>1, QuietSteps, UnregisterForReloadIsPromised, OrderGuestIsPromised,
         StartReloadIsPromised, RegisterIsPromised, CleanUpIsPromised DEF CreateStep
  <2>4. ASSUME NEW c \in Call, DeleteStep(c) PROVE [Contract!Next]_(Contract!contract)
    BY <2>4, ReleaseGuestIsPromised, UnregisterGuestIsPromised DEF DeleteStep
  <2>5. ASSUME NEW c \in Call, Crash(c) PROVE [Contract!Next]_(Contract!contract)
    BY <2>5, QuietSteps
  <2>6. ASSUME NEW v \in Guest, Settle(v) \/ Reclaim(v)
        PROVE  [Contract!Next]_(Contract!contract)
    BY <2>1, <2>6, SettleIsPromised, ReclaimIsPromised
  <2>7. CASE UNCHANGED vars
    BY <2>7 DEF vars, Contract!contract, Answers, Cids, Runs, Cancelled, Active
  <2> QED BY <2>2, <2>3, <2>4, <2>5, <2>6, <2>7 DEF Next, AllDone
<1> QED BY <1>1, <1>2, AccountInductive, PTL DEF Spec, KeepsVMContract, Contract!Spec
=============================================================================

------------------------ MODULE DiskAttachmentProofs ------------------------
(* Proofs about DiskAttachment, for any number of disks, guests and calls, *)
(* and any choice of the steps that fail, lose their answer or crash.      *)
EXTENDS DiskAttachment, TLAPS

-----------------------------------------------------------------------------
(* The inductive invariant.                                                *)

GuestCalls == AttachSteps \cup DetachSteps

\* The arguments a call works with are there when it reads them.
ArgsInv ==
    /\ \A c \in Call : pc[c] \in GuestCalls => vm[c] \in Vm /\ disk[c] \in Disk
    /\ \A c \in Call : pc[c] \in DeleteSteps \cup {"deleted", "awaitVolume", "created"}
          => disk[c] \in Disk
    /\ \A c \in Call : pc[c] = "orderVolume" => disk[c] = None
    /\ \A c \in Call : pc[c] \in CreateSteps \cup DeleteSteps => vm[c] = None

\* One call at a time on a guest and on a disk.
Exclusive ==
    \A c1, c2 \in Call : c1 # c2 /\ Active(c1) /\ Active(c2) =>
        /\ vm[c1] \in Vm => vm[c1] # vm[c2]
        /\ disk[c1] \in Disk => disk[c1] # disk[c2]

\* A volume some call was given was ordered, and one the director knows of
\* was provisioned.
VolumeInv ==
    /\ \A c \in Call : disk[c] \in Disk => volume[disk[c]] # "unordered"
    /\ \A d \in Disk : Known(d) => volume[d] \in {"ready", "cancelled"}

\* The director's knowledge while a call is under way.
ViewInv ==
    /\ \A c \in Call : pc[c] \in GuestCalls => view[vm[c]][disk[c]] = "unknown"
    /\ \A c \in Call : pc[c] \in DeleteSteps \cup {"deleted"}
          => \A v \in Vm : view[v][disk[c]] = "detached"

\* The two sides of a detached disk: the volume, and the agent settings.
NoAccess ==
    \A v \in Vm, d \in Disk : view[v][d] = "detached" => v \notin access[d]
NoSettings ==
    /\ \A v \in Vm : ~registered[v] => \A d \in Disk : d \notin settings[v]
    /\ ~Registry500 =>
          \A v \in Vm, d \in Disk : view[v][d] = "detached" => d \notin settings[v]

\* What an attach_disk has reached.
AttachInv ==
    \A c \in Call : pc[c] \in AttachSteps =>
        /\ pc[c] # "findDisk" => volume[disk[c]] = "ready"
        /\ pc[c] \in {"credential", "fetchToAttach", "putAttached"} /\ present[vm[c]]
              => vm[c] \in access[disk[c]]
        /\ latest[vm[c]] = None

\* What a detach_disk has reached.
DetachInv ==
    \A c \in Call : pc[c] \in DetachSteps =>
        /\ pc[c] \in {"exists", "fetchToDetach", "putDetached"} => vm[c] \notin access[disk[c]]
        /\ latest[vm[c]] # disk[c]

\* What the fetched document says: the one of a detach_disk names the disk
\* attached last, and neither it nor that of an attach_disk, which may be put
\* back as it is, names a detached one.
FetchInv ==
    \A c \in Call :
        /\ pc[c] = "putDetached" /\ vm[c] \notin Unreadable
              => (present[vm[c]] /\ latest[vm[c]] # None => latest[vm[c]] \in fetched[c])
        /\ pc[c] \in {"putAttached", "putDetached"} /\ ~Registry500
              => \A d \in Disk : view[vm[c]][d] = "detached" => d \notin fetched[c]

\* A volume attached is there; one deleted is not.
CancelInv ==
    /\ \A v \in Vm : \A d \in Attached(v) : volume[d] = "ready"
    /\ ~CancelDeclined => \A c \in Call : pc[c] = "deleted" => volume[disk[c]] = "cancelled"

TypeInv == TypeOK /\ ArgsInv
DiskInv ==
    /\ TypeInv /\ Exclusive /\ VolumeInv /\ ViewInv
    /\ NoAccess /\ NoSettings /\ AttachInv /\ DetachInv /\ FetchInv /\ CancelInv
    /\ AttachedIsAuthorized /\ LatestInSettings

-----------------------------------------------------------------------------
(* Every action keeps the invariant: one lemma per action, one step per    *)
(* part of the invariant.                                                  *)

\* A create_disk starts with no disk and no guest.
LEMMA StartCreateKeeps ==
  ASSUME DiskInv, NEW c \in Call, StartCreate(c)
  PROVE  DiskInv'
<1> USE DiskConfigAssumption DEF DiskInv, TypeInv, TypeOK, StartCreate, Start,
  Goto, Fails, Applied, Active, Running, AttachSteps, DetachSteps, CreateSteps,
  DeleteSteps, Outcomes, cloud, agent, args, director
<1>1. TypeOK'
  BY DEF ArgsInv, GuestCalls, VolumeState
<1>2. ArgsInv'
  BY DEF ArgsInv, GuestCalls
<1>3. Exclusive'
  BY DEF Exclusive, ArgsInv
<1>4. VolumeInv'
  BY DEF VolumeInv, Known
<1>5. ViewInv'
  BY DEF ViewInv, ArgsInv, Exclusive, GuestCalls
<1>6. NoAccess'
  BY DEF NoAccess
<1>7. NoSettings'
  BY DEF NoSettings
<1>8. AttachInv'
  BY DEF AttachInv, ArgsInv, Exclusive, GuestCalls
<1>9. DetachInv'
  BY DEF DetachInv, ArgsInv, Exclusive, GuestCalls
<1>10. FetchInv'
  BY DEF FetchInv, ArgsInv, Exclusive, GuestCalls
<1>11. CancelInv'
  BY DEF CancelInv, Attached
<1>12. AttachedIsAuthorized'
  BY DEF AttachedIsAuthorized, Attached
<1>13. LatestInSettings'
  BY DEF LatestInSettings, LatestNamed
<1> QED BY <1>1, <1>2, <1>3, <1>4, <1>5, <1>6, <1>7, <1>8, <1>9, <1>10, <1>11,
  <1>12, <1>13

\* An attach_disk starts only on a guest and a disk no call works on.
LEMMA StartAttachKeeps ==
  ASSUME DiskInv, NEW c \in Call, NEW v \in Vm, NEW d \in Disk, StartAttach(c, v, d)
  PROVE  DiskInv'
<1> USE DiskConfigAssumption DEF DiskInv, TypeInv, TypeOK, StartAttach, Start,
  Free, Goto, Fails, Applied, Active, Running, AttachSteps, DetachSteps,
  CreateSteps, DeleteSteps, Outcomes, cloud, agent, args, director
<1>1. TypeOK'
  BY DEF ArgsInv, GuestCalls, VolumeState
<1>2. ArgsInv'
  BY DEF ArgsInv, GuestCalls
<1>3. Exclusive'
  BY DEF Exclusive, ArgsInv
<1>4. VolumeInv'
  BY DEF VolumeInv, Known
<1>5. ViewInv'
  BY DEF ViewInv, ArgsInv, Exclusive, GuestCalls, Deleted
<1>6. NoAccess'
  BY DEF NoAccess
<1>7. NoSettings'
  BY DEF NoSettings
<1>8. AttachInv'
  BY DEF AttachInv, ArgsInv, Exclusive, GuestCalls
<1>9. DetachInv'
  BY DEF DetachInv, ArgsInv, Exclusive, GuestCalls
<1>10. FetchInv'
  BY DEF FetchInv, ArgsInv, Exclusive, GuestCalls
<1>11. CancelInv'
  BY DEF CancelInv, Attached
<1>12. AttachedIsAuthorized'
  BY DEF AttachedIsAuthorized, Attached
<1>13. LatestInSettings'
  BY DEF LatestInSettings, LatestNamed
<1> QED BY <1>1, <1>2, <1>3, <1>4, <1>5, <1>6, <1>7, <1>8, <1>9, <1>10, <1>11,
  <1>12, <1>13

\* So does a detach_disk, and it ends the knowledge that the disk is
\* attached.
LEMMA StartDetachKeeps ==
  ASSUME DiskInv, NEW c \in Call, NEW v \in Vm, NEW d \in Disk, StartDetach(c, v, d)
  PROVE  DiskInv'
<1> USE DiskConfigAssumption DEF DiskInv, TypeInv, TypeOK, StartDetach, Start,
  Free, Goto, Fails, Applied, Active, Running, AttachSteps, DetachSteps,
  CreateSteps, DeleteSteps, Outcomes, cloud, agent, args, director
<1>1. TypeOK'
  BY DEF ArgsInv, GuestCalls, VolumeState
<1>2. ArgsInv'
  BY DEF ArgsInv, GuestCalls
<1>3. Exclusive'
  BY DEF Exclusive, ArgsInv
<1>4. VolumeInv'
  BY DEF VolumeInv, Known
<1>5. ViewInv'
  BY DEF ViewInv, ArgsInv, Exclusive, GuestCalls, Deleted
<1>6. NoAccess'
  BY DEF NoAccess
<1>7. NoSettings'
  BY DEF NoSettings
<1>8. AttachInv'
  BY DEF AttachInv, ArgsInv, Exclusive, GuestCalls
<1>9. DetachInv'
  BY DEF DetachInv, ArgsInv, Exclusive, GuestCalls
<1>10. FetchInv'
  BY DEF FetchInv, ArgsInv, Exclusive, GuestCalls
<1>11. CancelInv'
  BY DEF CancelInv, Attached
<1>12. AttachedIsAuthorized'
  BY DEF AttachedIsAuthorized, Attached
<1>13. LatestInSettings'
  BY DEF LatestInSettings, LatestNamed
<1> QED BY <1>1, <1>2, <1>3, <1>4, <1>5, <1>6, <1>7, <1>8, <1>9, <1>10, <1>11,
  <1>12, <1>13

\* A delete_disk starts on a disk that is attached to no guest.
LEMMA StartDeleteKeeps ==
  ASSUME DiskInv, NEW c \in Call, NEW d \in Disk, StartDelete(c, d)
  PROVE  DiskInv'
<1> USE DiskConfigAssumption DEF DiskInv, TypeInv, TypeOK, StartDelete, Start,
  Goto, Fails, Applied, Active, Running, AttachSteps, DetachSteps, CreateSteps,
  DeleteSteps, Outcomes, cloud, agent, args, director
<1>1. TypeOK'
  BY DEF ArgsInv, GuestCalls, VolumeState
<1>2. ArgsInv'
  BY DEF ArgsInv, GuestCalls
<1>3. Exclusive'
  BY DEF Exclusive, ArgsInv
<1>4. VolumeInv'
  BY DEF VolumeInv, Known
<1>5. ViewInv'
  BY DEF ViewInv, ArgsInv, Exclusive, GuestCalls
<1>6. NoAccess'
  BY DEF NoAccess
<1>7. NoSettings'
  BY DEF NoSettings
<1>8. AttachInv'
  BY DEF AttachInv, ArgsInv, Exclusive, GuestCalls
<1>9. DetachInv'
  BY DEF DetachInv, ArgsInv, Exclusive, GuestCalls
<1>10. FetchInv'
  BY DEF FetchInv, ArgsInv, Exclusive, GuestCalls
<1>11. CancelInv'
  BY DEF CancelInv, Attached
<1>12. AttachedIsAuthorized'
  BY DEF AttachedIsAuthorized, Attached
<1>13. LatestInSettings'
  BY DEF LatestInSettings, LatestNamed
<1> QED BY <1>1, <1>2, <1>3, <1>4, <1>5, <1>6, <1>7, <1>8, <1>9, <1>10, <1>11,
  <1>12, <1>13

\* The order takes a volume no call has.
LEMMA OrderVolumeKeeps ==
  ASSUME DiskInv, NEW c \in Call, OrderVolume(c)
  PROVE  DiskInv'
<1> USE DiskConfigAssumption DEF DiskInv, TypeInv, TypeOK, Active, Running,
  AttachSteps, DetachSteps, CreateSteps, DeleteSteps, Outcomes
<1>1. pc[c] = "orderVolume" /\ disk[c] = None /\ vm[c] = None
  BY DEF OrderVolume, ArgsInv
<1>2. UNCHANGED <<access, present, settings, registered, vm, fetched, view, latest>>
  BY DEF OrderVolume, agent, director
<1>3. ASSUME pc' = [pc EXCEPT ![c] = "failed"], UNCHANGED <<volume, disk>>
      PROVE  DiskInv'
  <2> USE <1>1, <1>2, <1>3
  <2>1. TypeInv' BY DEF ArgsInv, GuestCalls
  <2>2. Exclusive' BY DEF Exclusive
  <2>3. VolumeInv' BY DEF VolumeInv, Known
  <2>4. ViewInv' BY DEF ViewInv, GuestCalls
  <2>5. NoAccess' /\ NoSettings' BY DEF NoAccess, NoSettings
  <2>6. AttachInv' /\ DetachInv' /\ FetchInv' BY DEF AttachInv, DetachInv, FetchInv
  <2>7. CancelInv' BY DEF CancelInv, Attached
  <2>8. AttachedIsAuthorized' /\ LatestInSettings'
    BY DEF AttachedIsAuthorized, LatestInSettings, LatestNamed, Attached
  <2> QED BY <2>1, <2>2, <2>3, <2>4, <2>5, <2>6, <2>7, <2>8
<1>4. ASSUME NEW d \in Disk, volume[d] = "unordered",
             volume' = [volume EXCEPT ![d] = "ordered"],
             disk' = [disk EXCEPT ![c] = d],
             \/ pc' = [pc EXCEPT ![c] = "awaitVolume"]
             \/ pc' = [pc EXCEPT ![c] = "failed"]
      PROVE  DiskInv'
  <2> USE <1>1, <1>2, <1>4
  <2>1. TypeOK' BY DEF VolumeState
  <2>2. ArgsInv' BY DEF ArgsInv, GuestCalls
  <2>3. Exclusive' BY DEF Exclusive, VolumeInv
  <2>4. ~Known(d) BY DEF VolumeInv
  <2>5. VolumeInv' BY <2>4 DEF VolumeInv, Known
  <2>6. ViewInv' BY DEF ViewInv, GuestCalls
  <2>7. NoAccess' /\ NoSettings' BY DEF NoAccess, NoSettings
  <2>8. AttachInv' BY DEF AttachInv, VolumeInv, ArgsInv, GuestCalls
  <2>9. DetachInv' BY DEF DetachInv
  <2>10. FetchInv' BY DEF FetchInv
  <2>11. CancelInv' BY DEF CancelInv, Attached, VolumeInv, ArgsInv
  <2>12. AttachedIsAuthorized' /\ LatestInSettings'
    BY DEF AttachedIsAuthorized, LatestInSettings, LatestNamed, Attached
  <2> QED BY <2>1, <2>2, <2>3, <2>5, <2>6, <2>7, <2>8, <2>9, <2>10, <2>11, <2>12
<1> QED BY <1>3, <1>4 DEF OrderVolume, Applied, Goto, Fails

\* create_disk answers once the volume is ready.
LEMMA AwaitVolumeKeeps ==
  ASSUME DiskInv, NEW c \in Call, AwaitVolume(c)
  PROVE  DiskInv'
<1> USE DiskConfigAssumption DEF DiskInv, TypeInv, TypeOK, AwaitVolume, Goto,
  Fails, Applied, Active, Running, AttachSteps, DetachSteps, CreateSteps,
  DeleteSteps, Outcomes, cloud, agent, args, director
<1>1. TypeOK'
  BY DEF ArgsInv, GuestCalls, VolumeState
<1>2. ArgsInv'
  BY DEF ArgsInv, GuestCalls
<1>3. Exclusive'
  BY DEF Exclusive, ArgsInv
<1>4. VolumeInv'
  BY DEF VolumeInv, Known, ArgsInv
<1>5. ViewInv'
  BY DEF ViewInv, ArgsInv, Exclusive, GuestCalls
<1>6. NoAccess'
  BY DEF NoAccess
<1>7. NoSettings'
  BY DEF NoSettings
<1>8. AttachInv'
  BY DEF AttachInv, ArgsInv, Exclusive, GuestCalls
<1>9. DetachInv'
  BY DEF DetachInv, ArgsInv, Exclusive, GuestCalls
<1>10. FetchInv'
  BY DEF FetchInv, ArgsInv, Exclusive, GuestCalls
<1>11. CancelInv'
  BY DEF CancelInv, Attached
<1>12. AttachedIsAuthorized'
  BY DEF AttachedIsAuthorized, Attached
<1>13. LatestInSettings'
  BY DEF LatestInSettings, LatestNamed
<1> QED BY <1>1, <1>2, <1>3, <1>4, <1>5, <1>6, <1>7, <1>8, <1>9, <1>10, <1>11,
  <1>12, <1>13

\* FindDisk goes on only with a volume that is ready.
LEMMA FindDiskKeeps ==
  ASSUME DiskInv, NEW c \in Call, FindDisk(c)
  PROVE  DiskInv'
<1> USE DiskConfigAssumption DEF DiskInv, TypeInv, TypeOK, FindDisk, Goto,
  Fails, Applied, Active, Running, AttachSteps, DetachSteps, CreateSteps,
  DeleteSteps, Outcomes, cloud, agent, args, director
<1>1. TypeOK'
  BY DEF ArgsInv, GuestCalls, VolumeState
<1>2. ArgsInv'
  BY DEF ArgsInv, GuestCalls
<1>3. Exclusive'
  <2>1. \A e \in Call : Active(e)' => Active(e)
    OBVIOUS
  <2> QED BY <2>1 DEF Exclusive
<1>4. VolumeInv'
  BY DEF VolumeInv, Known
<1>5. ViewInv'
  BY DEF ViewInv, ArgsInv, Exclusive, GuestCalls
<1>6. NoAccess'
  BY DEF NoAccess
<1>7. NoSettings'
  BY DEF NoSettings
<1>8. AttachInv'
  BY DEF AttachInv, ArgsInv, Exclusive, GuestCalls
<1>9. DetachInv'
  BY DEF DetachInv, ArgsInv, Exclusive, GuestCalls
<1>10. FetchInv'
  BY DEF FetchInv, ArgsInv, Exclusive, GuestCalls
<1>11. CancelInv'
  BY DEF CancelInv, Attached
<1>12. AttachedIsAuthorized'
  BY DEF AttachedIsAuthorized, Attached
<1>13. LatestInSettings'
  BY DEF LatestInSettings, LatestNamed
<1> QED BY <1>1, <1>2, <1>3, <1>4, <1>5, <1>6, <1>7, <1>8, <1>9, <1>10, <1>11,
  <1>12, <1>13

\* A guest the volume allows already is not authorized again.
LEMMA ReadVolumeKeeps ==
  ASSUME DiskInv, NEW c \in Call, ReadVolume(c)
  PROVE  DiskInv'
<1> USE DiskConfigAssumption DEF DiskInv, TypeInv, TypeOK, ReadVolume,
  AlreadyAuthorized, Goto, Fails, Applied, Active, Running, AttachSteps,
  DetachSteps, CreateSteps, DeleteSteps, Outcomes, cloud, agent, args, director
<1>1. TypeOK'
  BY DEF ArgsInv, GuestCalls, VolumeState
<1>2. ArgsInv'
  BY DEF ArgsInv, GuestCalls
<1>3. Exclusive'
  BY SMTT(30) DEF Exclusive, ArgsInv
<1>4. VolumeInv'
  BY DEF VolumeInv, Known
<1>5. ViewInv'
  BY DEF ViewInv, ArgsInv, Exclusive, GuestCalls
<1>6. NoAccess'
  BY DEF NoAccess
<1>7. NoSettings'
  BY DEF NoSettings
<1>8. AttachInv'
  BY DEF AttachInv, ArgsInv, Exclusive, GuestCalls
<1>9. DetachInv'
  BY DEF DetachInv, ArgsInv, Exclusive, GuestCalls
<1>10. FetchInv'
  BY DEF FetchInv, ArgsInv, Exclusive, GuestCalls
<1>11. CancelInv'
  BY DEF CancelInv, Attached
<1>12. AttachedIsAuthorized'
  BY DEF AttachedIsAuthorized, Attached
<1>13. LatestInSettings'
  BY DEF LatestInSettings, LatestNamed
<1> QED BY <1>1, <1>2, <1>3, <1>4, <1>5, <1>6, <1>7, <1>8, <1>9, <1>10, <1>11,
  <1>12, <1>13

\* Authorization adds the guest to the volume the director does not take for
\* detached.
LEMMA AuthorizeKeeps ==
  ASSUME DiskInv, NEW c \in Call, Authorize(c)
  PROVE  DiskInv'
<1> USE DiskConfigAssumption DEF DiskInv, TypeInv, TypeOK, Authorize, Goto,
  Fails, Applied, Active, Running, AttachSteps, DetachSteps, CreateSteps,
  DeleteSteps, Outcomes, cloud, agent, args, director
<1>a. vm[c] \in Vm /\ disk[c] \in Disk
  BY DEF ArgsInv, GuestCalls
<1>b. access' \in [Disk -> SUBSET Vm]
  BY <1>a, SMTT(30)
<1>c. ASSUME NEW v \in Vm, NEW d \in Disk, v \in access'[d]
      PROVE  v \in access[d] \/ (v = vm[c] /\ d = disk[c])
  BY <1>a, <1>c
<1>d. ASSUME NEW v \in Vm, NEW d \in Disk, v \in access[d]
      PROVE  v \in access'[d]
  BY <1>a, <1>d, SMTT(30)
<1>1. TypeOK'
  BY <1>a, <1>b, SMTT(30) DEF ArgsInv, GuestCalls, VolumeState
<1>2. ArgsInv'
  BY DEF ArgsInv, GuestCalls
<1>3. Exclusive'
  BY DEF Exclusive, ArgsInv
<1>4. VolumeInv'
  BY DEF VolumeInv, Known
<1>5. ViewInv'
  BY DEF ViewInv, ArgsInv, Exclusive, GuestCalls
<1>6. NoAccess'
  BY <1>a, <1>c DEF NoAccess, ViewInv, GuestCalls, ArgsInv
<1>7. NoSettings'
  BY DEF NoSettings
<1>8. AttachInv'
  BY DEF AttachInv, ArgsInv, Exclusive, GuestCalls
<1>9. DetachInv'
  BY DEF DetachInv, ArgsInv, Exclusive, GuestCalls
<1>10. FetchInv'
  BY DEF FetchInv, ArgsInv, Exclusive, GuestCalls
<1>11. CancelInv'
  BY DEF CancelInv, Attached
<1>12. AttachedIsAuthorized'
  <2>1. \A v \in Vm : /\ present'[v] <=> present[v]
                     /\ Attached(v)' = Attached(v)
                     /\ Attached(v) \subseteq Disk
    BY SMTT(30) DEF Attached
  <2> HIDE DEF Authorize, Attached, TypeOK
  <2> QED BY <1>d, <2>1, SMTT(60) DEF AttachedIsAuthorized
<1>13. LatestInSettings'
  BY DEF LatestInSettings, LatestNamed
<1> QED BY <1>1, <1>2, <1>3, <1>4, <1>5, <1>6, <1>7, <1>8, <1>9, <1>10, <1>11,
  <1>12, <1>13

\* Reading the credential changes nothing.
LEMMA ReadCredentialKeeps ==
  ASSUME DiskInv, NEW c \in Call, ReadCredential(c)
  PROVE  DiskInv'
<1> USE DiskConfigAssumption DEF DiskInv, TypeInv, TypeOK, ReadCredential,
  Goto, Fails, Applied, Active, Running, AttachSteps, DetachSteps, CreateSteps,
  DeleteSteps, Outcomes, cloud, agent, args, director
<1>1. TypeOK'
  BY DEF ArgsInv, GuestCalls, VolumeState
<1>2. ArgsInv'
  BY DEF ArgsInv, GuestCalls
<1>3. Exclusive'
  BY DEF Exclusive, ArgsInv
<1>4. VolumeInv'
  BY DEF VolumeInv, Known
<1>5. ViewInv'
  BY DEF ViewInv, ArgsInv, Exclusive, GuestCalls
<1>6. NoAccess'
  BY DEF NoAccess
<1>7. NoSettings'
  BY DEF NoSettings
<1>8. AttachInv'
  BY DEF AttachInv, ArgsInv, Exclusive, GuestCalls
<1>9. DetachInv'
  BY DEF DetachInv, ArgsInv, Exclusive, GuestCalls
<1>10. FetchInv'
  BY DEF FetchInv, ArgsInv, Exclusive, GuestCalls
<1>11. CancelInv'
  BY DEF CancelInv, Attached
<1>12. AttachedIsAuthorized'
  BY DEF AttachedIsAuthorized, Attached
<1>13. LatestInSettings'
  BY DEF LatestInSettings, LatestNamed
<1> QED BY <1>1, <1>2, <1>3, <1>4, <1>5, <1>6, <1>7, <1>8, <1>9, <1>10, <1>11,
  <1>12, <1>13

\* The document fetched for an attachment is not used.
LEMMA FetchToAttachKeeps ==
  ASSUME DiskInv, NEW c \in Call, FetchToAttach(c)
  PROVE  DiskInv'
<1> USE DiskConfigAssumption DEF DiskInv, TypeInv, TypeOK, FetchToAttach,
  Fetch, Goto, Fails, Applied, Active, Running, AttachSteps, DetachSteps,
  CreateSteps, DeleteSteps, Outcomes, cloud, agent, args, director
<1>a. vm[c] \in Vm /\ disk[c] \in Disk
  BY DEF ArgsInv, GuestCalls
<1>b. fetched' \in [Call -> SUBSET Disk]
  BY <1>a, SMTT(30)
<1>1. TypeOK'
  BY <1>a, <1>b, SMTT(30) DEF ArgsInv, GuestCalls, VolumeState
<1>2. ArgsInv'
  BY DEF ArgsInv, GuestCalls
<1>3. Exclusive'
  BY SMTT(30) DEF Exclusive, ArgsInv
<1>4. VolumeInv'
  BY DEF VolumeInv, Known
<1>5. ViewInv'
  BY DEF ViewInv, ArgsInv, Exclusive, GuestCalls
<1>6. NoAccess'
  BY DEF NoAccess
<1>7. NoSettings'
  BY DEF NoSettings
<1>8. AttachInv'
  BY DEF AttachInv, ArgsInv, Exclusive, GuestCalls
<1>9. DetachInv'
  BY DEF DetachInv, ArgsInv, Exclusive, GuestCalls
<1>10. FetchInv'
  BY SMTT(60) DEF FetchInv, ArgsInv, Exclusive, GuestCalls, NoSettings
<1>11. CancelInv'
  BY DEF CancelInv, Attached
<1>12. AttachedIsAuthorized'
  BY DEF AttachedIsAuthorized, Attached
<1>13. LatestInSettings'
  BY DEF LatestInSettings, LatestNamed
<1> QED BY <1>1, <1>2, <1>3, <1>4, <1>5, <1>6, <1>7, <1>8, <1>9, <1>10, <1>11,
  <1>12, <1>13

\* attach_disk puts the settings: it answers, is refused, or loses the answer.
LEMMA PutAttachedKeeps ==
  ASSUME DiskInv, NEW c \in Call, PutAttached(c)
  PROVE  DiskInv'
<1> USE DiskConfigAssumption DEF DiskInv, TypeInv, TypeOK, Active, Running,
  AttachSteps, DetachSteps, CreateSteps, DeleteSteps, Outcomes
<1>1. pc[c] = "putAttached" /\ vm[c] \in Vm /\ disk[c] \in Disk
  BY DEF PutAttached, ArgsInv, GuestCalls
<1>2. UNCHANGED <<volume, access, present, vm, disk, fetched>>
  BY DEF PutAttached, cloud, args
<1>3. view[vm[c]][disk[c]] = "unknown" /\ latest[vm[c]] = None /\ volume[disk[c]] = "ready"
  BY <1>1 DEF ViewInv, AttachInv, GuestCalls
<1>4. present[vm[c]] => vm[c] \in access[disk[c]]
  BY <1>1 DEF AttachInv
\* What the registry has afterwards.
<1> DEFINE doc == AttachPersistentDisk(fetched[c], vm[c], disk[c])
<1>d. /\ doc \in SUBSET Disk
      /\ vm[c] \notin Unreadable => doc = {disk[c]}
      /\ vm[c] \in Unreadable => doc = fetched[c]
  BY <1>1 DEF AttachPersistentDisk
<1>u. Update(c, doc, "attached")
  BY DEF PutAttached
<1>p. IF pc'[c] = "attached"
      THEN /\ view' = [view EXCEPT ![vm[c]][disk[c]] = "attached"]
           /\ latest' = [latest EXCEPT ![vm[c]] = disk[c]]
      ELSE UNCHANGED <<view, latest>>
  BY DEF PutAttached, director
<1> HIDE DEF doc
<1>5. ASSUME NEW v \in Vm
      PROVE  \/ settings'[v] = settings[v] /\ registered'[v] = registered[v]
             \/ v = vm[c] /\ settings'[v] = doc /\ registered'[v] = TRUE
  BY <1>1, <1>u DEF Update, agent
<1>6. settings' \in [Vm -> SUBSET Disk] /\ registered' \in [Vm -> BOOLEAN]
  <2>1. \/ UNCHANGED <<settings, registered>>
        \/ settings' = [settings EXCEPT ![vm[c]] = doc]
           /\ registered' = [registered EXCEPT ![vm[c]] = TRUE]
    BY <1>u DEF Update, agent
  <2>2. settings' \in [Vm -> SUBSET Disk]
    BY <1>1, <1>d, <2>1
  <2>3. registered' \in [Vm -> BOOLEAN]
    BY <1>1, <2>1
  <2> QED BY <2>2, <2>3
<1>7. ASSUME pc' = [pc EXCEPT ![c] = "failed"], UNCHANGED <<view, latest>>
      PROVE  DiskInv'
  <2> USE <1>1, <1>2, <1>3, <1>5, <1>7
  <2>1. TypeInv' BY <1>6 DEF ArgsInv, GuestCalls
  <2>2. Exclusive' BY DEF Exclusive
  <2>3. VolumeInv' BY DEF VolumeInv, Known
  <2>4. ViewInv' BY DEF ViewInv, GuestCalls
  <2>5. NoAccess' BY DEF NoAccess
  <2>6. NoSettings'
    <3>1. ASSUME NEW v \in Vm, ~registered'[v], NEW d \in Disk PROVE d \notin settings'[v]
      BY <3>1 DEF NoSettings
    <3>2. ASSUME ~Registry500, NEW v \in Vm, NEW d \in Disk, view'[v][d] = "detached"
          PROVE  d \notin settings'[v]
      <4>1. view[v][d] = "detached" /\ d \notin settings[v]
        BY <3>2 DEF NoSettings
      <4>2. v = vm[c] => d \notin doc
        BY <4>1, <3>2, <1>d DEF FetchInv
      <4> QED BY <4>1, <4>2, <1>5
    <3> QED BY <3>1, <3>2 DEF NoSettings
  <2>7. AttachInv' BY DEF AttachInv
  <2>8. DetachInv' BY DEF DetachInv
  <2>9. FetchInv' BY DEF FetchInv
  <2>10. CancelInv' BY DEF CancelInv, Attached
  <2>11. AttachedIsAuthorized' BY DEF AttachedIsAuthorized, Attached
  <2>12. LatestInSettings' BY DEF LatestInSettings, LatestNamed
  <2> QED BY <2>1, <2>2, <2>3, <2>4, <2>5, <2>6, <2>7, <2>8, <2>9, <2>10, <2>11, <2>12
<1>8. ASSUME pc' = [pc EXCEPT ![c] = "attached"],
             settings'[vm[c]] = doc,
             view' = [view EXCEPT ![vm[c]][disk[c]] = "attached"],
             latest' = [latest EXCEPT ![vm[c]] = disk[c]]
      PROVE  DiskInv'
  <2> USE <1>1, <1>2, <1>3, <1>5, <1>8
  <2>1. \A v \in Vm, d \in Disk :
           view'[v][d] = IF v = vm[c] /\ d = disk[c] THEN "attached" ELSE view[v][d]
    OBVIOUS
  <2>2. view' \in [Vm -> [Disk -> {"unknown", "attached", "detached"}]]
    OBVIOUS
  <2>3. TypeOK' BY <1>6, <2>2
  <2>4. ArgsInv' BY DEF ArgsInv, GuestCalls
  <2>5. Exclusive' BY DEF Exclusive
  <2>6. VolumeInv' BY DEF VolumeInv, Known
  <2>7. ViewInv' BY <2>1 DEF ViewInv, GuestCalls, ArgsInv, Exclusive
  <2>8. NoAccess' BY <2>1 DEF NoAccess
  <2>9. NoSettings'
    <3>1. ASSUME NEW v \in Vm, ~registered'[v], NEW d \in Disk PROVE d \notin settings'[v]
      BY <3>1 DEF NoSettings
    <3>2. ASSUME ~Registry500, NEW v \in Vm, NEW d \in Disk, view'[v][d] = "detached"
          PROVE  d \notin settings'[v]
      <4>1. view[v][d] = "detached" /\ ~(v = vm[c] /\ d = disk[c])
        BY <2>1, <3>2
      <4>2. d \notin settings[v]
        BY <4>1, <3>2 DEF NoSettings
      <4>3. v = vm[c] => d \notin doc
        BY <4>1, <3>2, <1>d DEF FetchInv
      <4> QED BY <4>1, <4>2, <4>3, <1>5
    <3> QED BY <3>1, <3>2 DEF NoSettings
  <2>10. AttachInv' BY DEF AttachInv, ArgsInv, Exclusive, GuestCalls
  <2>11. DetachInv' BY DEF DetachInv, ArgsInv, Exclusive, GuestCalls
  <2>12. FetchInv' BY <2>1 DEF FetchInv, ArgsInv, Exclusive, GuestCalls
  <2>13. CancelInv' BY <2>1 DEF CancelInv, Attached
  <2>14. AttachedIsAuthorized' BY <1>4, <2>1 DEF AttachedIsAuthorized, Attached
  <2>15. LatestInSettings'
    <3> SUFFICES ASSUME NEW v \in Vm \ Unreadable, present[v], latest'[v] # None
                 PROVE  latest'[v] \in settings'[v]
      BY DEF LatestInSettings, LatestNamed
    <3>1. CASE v = vm[c]
      BY <3>1, <1>d
    <3>2. CASE v # vm[c]
      BY <3>2 DEF LatestInSettings, LatestNamed
    <3> QED BY <3>1, <3>2
  <2> QED BY <2>3, <2>4, <2>5, <2>6, <2>7, <2>8, <2>9, <2>10, <2>11, <2>12, <2>13,
             <2>14, <2>15
<1> QED BY <1>1, <1>7, <1>8, <1>u, <1>p DEF Update, Applied, Goto, Fails

\* A guest the volume does not allow is not deauthorized.
LEMMA ReadAllowedKeeps ==
  ASSUME DiskInv, NEW c \in Call, ReadAllowed(c)
  PROVE  DiskInv'
<1> USE DiskConfigAssumption DEF DiskInv, TypeInv, TypeOK, ReadAllowed, Goto,
  Fails, Applied, Active, Running, AttachSteps, DetachSteps, CreateSteps,
  DeleteSteps, Outcomes, cloud, agent, args, director
<1>1. TypeOK'
  BY DEF ArgsInv, GuestCalls, VolumeState
<1>2. ArgsInv'
  BY DEF ArgsInv, GuestCalls
<1>3. Exclusive'
  BY SMTT(30) DEF Exclusive, ArgsInv
<1>4. VolumeInv'
  BY DEF VolumeInv, Known
<1>5. ViewInv'
  BY DEF ViewInv, ArgsInv, Exclusive, GuestCalls
<1>6. NoAccess'
  BY DEF NoAccess
<1>7. NoSettings'
  BY DEF NoSettings
<1>8. AttachInv'
  BY DEF AttachInv, ArgsInv, Exclusive, GuestCalls
<1>9. DetachInv'
  BY DEF DetachInv, ArgsInv, Exclusive, GuestCalls
<1>10. FetchInv'
  BY DEF FetchInv, ArgsInv, Exclusive, GuestCalls
<1>11. CancelInv'
  BY DEF CancelInv, Attached
<1>12. AttachedIsAuthorized'
  BY DEF AttachedIsAuthorized, Attached
<1>13. LatestInSettings'
  BY DEF LatestInSettings, LatestNamed
<1> QED BY <1>1, <1>2, <1>3, <1>4, <1>5, <1>6, <1>7, <1>8, <1>9, <1>10, <1>11,
  <1>12, <1>13

\* Deauthorization takes a guest off a volume that is not known attached.
LEMMA DeauthorizeKeeps ==
  ASSUME DiskInv, NEW c \in Call, Deauthorize(c)
  PROVE  DiskInv'
<1> USE DiskConfigAssumption DEF DiskInv, TypeInv, TypeOK, Deauthorize, Goto,
  Fails, Applied, Active, Running, AttachSteps, DetachSteps, CreateSteps,
  DeleteSteps, Outcomes, cloud, agent, args, director
<1>a. vm[c] \in Vm /\ disk[c] \in Disk
  BY DEF ArgsInv, GuestCalls
<1>b. access' \in [Disk -> SUBSET Vm]
  BY <1>a, SMTT(30)
<1>c. ASSUME NEW v \in Vm, NEW d \in Disk, v \in access'[d]
      PROVE  v \in access[d] \/ (v = vm[c] /\ d = disk[c])
  BY <1>a, <1>c
<1>1. TypeOK'
  BY <1>a, <1>b DEF ArgsInv, GuestCalls, VolumeState
<1>2. ArgsInv'
  BY DEF ArgsInv, GuestCalls
<1>3. Exclusive'
  BY DEF Exclusive, ArgsInv
<1>4. VolumeInv'
  BY DEF VolumeInv, Known
<1>5. ViewInv'
  BY DEF ViewInv, ArgsInv, Exclusive, GuestCalls
<1>6. NoAccess'
  BY <1>a, <1>c DEF NoAccess, ViewInv, ArgsInv, GuestCalls
<1>7. NoSettings'
  BY DEF NoSettings
<1>8. AttachInv'
  BY DEF AttachInv, ArgsInv, Exclusive, GuestCalls, ViewInv
<1>9. DetachInv'
  BY DEF DetachInv, ArgsInv, Exclusive, GuestCalls
<1>10. FetchInv'
  BY DEF FetchInv, ArgsInv, Exclusive, GuestCalls
<1>11. CancelInv'
  BY DEF CancelInv, Attached
<1>12. AttachedIsAuthorized'
  BY SMTT(60) DEF AttachedIsAuthorized, Attached, ViewInv, ArgsInv, GuestCalls
<1>13. LatestInSettings'
  BY DEF LatestInSettings, LatestNamed
<1> QED BY <1>1, <1>2, <1>3, <1>4, <1>5, <1>6, <1>7, <1>8, <1>9, <1>10, <1>11,
  <1>12, <1>13

\* Without agent settings detach_disk is done.
LEMMA CheckExistsKeeps ==
  ASSUME DiskInv, NEW c \in Call, CheckExists(c)
  PROVE  DiskInv'
<1> USE DiskConfigAssumption DEF DiskInv, TypeInv, TypeOK, CheckExists,
  KnowDetached, Goto, Fails, Applied, Active, Running, AttachSteps,
  DetachSteps, CreateSteps, DeleteSteps, Outcomes, cloud, agent, args, director
<1>1. TypeOK'
  BY ZenonT(60) DEF ArgsInv, GuestCalls, VolumeState
<1>2. ArgsInv'
  BY DEF ArgsInv, GuestCalls
<1>3. Exclusive'
  BY SMTT(30) DEF Exclusive, ArgsInv
<1>4. VolumeInv'
  BY DEF VolumeInv, Known
<1>5. ViewInv'
  BY DEF ViewInv, ArgsInv, Exclusive, GuestCalls, DetachInv, NoSettings
<1>6. NoAccess'
  BY DEF NoAccess, DetachInv, NoSettings, ViewInv, ArgsInv, GuestCalls
<1>7. NoSettings'
  BY DEF NoSettings, DetachInv, ViewInv, ArgsInv, GuestCalls
<1>8. AttachInv'
  BY DEF AttachInv, ArgsInv, Exclusive, GuestCalls
<1>9. DetachInv'
  BY DEF DetachInv, ArgsInv, Exclusive, GuestCalls
<1>10. FetchInv'
  BY DEF FetchInv, ArgsInv, Exclusive, GuestCalls, DetachInv, NoSettings,
    ViewInv
<1>11. CancelInv'
  BY DEF CancelInv, Attached, DetachInv, NoSettings, ViewInv, ArgsInv,
    GuestCalls
<1>12. AttachedIsAuthorized'
  BY DEF AttachedIsAuthorized, Attached, DetachInv, NoSettings, ViewInv,
    ArgsInv, GuestCalls
<1>13. LatestInSettings'
  BY DEF LatestInSettings, LatestNamed, DetachInv, NoSettings, ViewInv, ArgsInv, GuestCalls
<1> QED BY <1>1, <1>2, <1>3, <1>4, <1>5, <1>6, <1>7, <1>8, <1>9, <1>10, <1>11,
  <1>12, <1>13

\* The document fetched for a detachment lists the disk attached last and no
\* detached one.
LEMMA FetchToDetachKeeps ==
  ASSUME DiskInv, NEW c \in Call, FetchToDetach(c)
  PROVE  DiskInv'
<1> USE DiskConfigAssumption DEF DiskInv, TypeInv, TypeOK, FetchToDetach,
  Fetch, Goto, Fails, Applied, Active, Running, AttachSteps, DetachSteps,
  CreateSteps, DeleteSteps, Outcomes, cloud, agent, args, director
<1>a. vm[c] \in Vm /\ disk[c] \in Disk
  BY DEF ArgsInv, GuestCalls
<1>b. fetched' \in [Call -> SUBSET Disk]
  BY <1>a, SMTT(30)
<1>1. TypeOK'
  BY <1>a, <1>b, SMTT(30) DEF ArgsInv, GuestCalls, VolumeState
<1>2. ArgsInv'
  BY DEF ArgsInv, GuestCalls
<1>3. Exclusive'
  BY SMTT(30) DEF Exclusive, ArgsInv
<1>4. VolumeInv'
  BY DEF VolumeInv, Known
<1>5. ViewInv'
  BY DEF ViewInv, ArgsInv, Exclusive, GuestCalls
<1>6. NoAccess'
  BY DEF NoAccess
<1>7. NoSettings'
  BY DEF NoSettings
<1>8. AttachInv'
  BY DEF AttachInv, ArgsInv, Exclusive, GuestCalls
<1>9. DetachInv'
  BY DEF DetachInv, ArgsInv, Exclusive, GuestCalls
<1>10. FetchInv'
  BY DEF FetchInv, ArgsInv, Exclusive, GuestCalls, LatestInSettings, LatestNamed, NoSettings
<1>11. CancelInv'
  BY DEF CancelInv, Attached
<1>12. AttachedIsAuthorized'
  BY DEF AttachedIsAuthorized, Attached
<1>13. LatestInSettings'
  BY DEF LatestInSettings, LatestNamed
<1> QED BY <1>1, <1>2, <1>3, <1>4, <1>5, <1>6, <1>7, <1>8, <1>9, <1>10, <1>11,
  <1>12, <1>13

\* detach_disk puts the settings without the disk and answers.
LEMMA PutDetachedKeeps ==
  ASSUME DiskInv, NEW c \in Call, PutDetached(c)
  PROVE  DiskInv'
<1> USE DiskConfigAssumption DEF DiskInv, TypeInv, TypeOK, PutDetached, Update,
  DetachPersistentDisk, KnowDetached, Goto, Fails, Applied, Active, Running,
  AttachSteps, DetachSteps, CreateSteps, DeleteSteps, Outcomes, cloud, agent,
  args, director
<1>a. vm[c] \in Vm /\ disk[c] \in Disk
  BY DEF ArgsInv, GuestCalls
<1>b. \/ UNCHANGED <<settings, registered>>
      \/ settings' = [settings EXCEPT ![vm[c]] = fetched[c] \ {disk[c]}]
         /\ registered' = [registered EXCEPT ![vm[c]] = TRUE]
  OBVIOUS
<1>c. settings' \in [Vm -> SUBSET Disk]
  BY <1>a, <1>b
<1>d. registered' \in [Vm -> BOOLEAN]
  BY <1>a, <1>b
<1>e. ASSUME NEW v \in Vm
      PROVE  \/ settings'[v] = settings[v] /\ registered'[v] = registered[v]
             \/ v = vm[c] /\ settings'[v] = fetched[c] \ {disk[c]} /\ registered'[v] = TRUE
  BY <1>a, <1>b
<1>1. TypeOK'
  BY <1>a, <1>c, <1>d DEF ArgsInv, GuestCalls, VolumeState
<1>2. ArgsInv'
  BY DEF ArgsInv, GuestCalls
<1>3. Exclusive'
  BY DEF Exclusive, ArgsInv
<1>4. VolumeInv'
  BY DEF VolumeInv, Known
<1>5. ViewInv'
  BY DEF ViewInv, ArgsInv, Exclusive, GuestCalls, DetachInv, FetchInv
<1>6. NoAccess'
  BY DEF NoAccess, DetachInv, FetchInv, ViewInv, ArgsInv, GuestCalls
<1>7. NoSettings'
  <2>1. ASSUME NEW v \in Vm, ~registered'[v], NEW d \in Disk PROVE d \notin settings'[v]
    BY <1>e, <2>1 DEF NoSettings
  <2>2. ASSUME ~Registry500, NEW v \in Vm, NEW d \in Disk, view'[v][d] = "detached"
        PROVE  d \notin settings'[v]
    <3>1. view[v][d] = "detached" \/ (v = vm[c] /\ d = disk[c])
      BY <1>a, <2>2
    <3>2. view[v][d] = "detached" => d \notin settings[v]
      BY <2>2 DEF NoSettings
    <3>3. view[vm[c]][d] = "detached" => d \notin fetched[c]
      BY <2>2 DEF FetchInv
    <3>4. settings'[vm[c]] = fetched[c] \ {disk[c]} \/ v # vm[c] \/ view'[v][d] = view[v][d]
      BY <1>a
    <3>5. settings'[v] = settings[v] \/ (v = vm[c] /\ settings'[v] = fetched[c] \ {disk[c]})
      BY <1>e
    <3> QED BY ONLY <2>2, <3>1, <3>2, <3>3, <3>4, <3>5
  <2> QED BY <2>1, <2>2 DEF NoSettings
<1>8. AttachInv'
  BY DEF AttachInv, ArgsInv, Exclusive, GuestCalls
<1>9. DetachInv'
  BY DEF DetachInv, ArgsInv, Exclusive, GuestCalls
<1>10. FetchInv'
  BY DEF FetchInv, ArgsInv, Exclusive, GuestCalls, DetachInv, ViewInv
<1>11. CancelInv'
  BY DEF CancelInv, Attached, DetachInv, FetchInv, ViewInv, ArgsInv, GuestCalls
<1>12. AttachedIsAuthorized'
  BY DEF AttachedIsAuthorized, Attached, DetachInv, FetchInv, ViewInv, ArgsInv,
    GuestCalls
<1>13. LatestInSettings'
  <2>1. SUFFICES ASSUME NEW v \in Vm \ Unreadable, present[v], latest[v] # None
                 PROVE  latest[v] \in settings'[v]
    BY DEF LatestInSettings, LatestNamed
  <2>2. latest[v] \in settings[v]
    BY <2>1 DEF LatestInSettings, LatestNamed
  <2>3. v = vm[c] => latest[v] \in fetched[c] /\ latest[v] # disk[c]
    BY <2>1 DEF FetchInv, DetachInv
  <2> QED BY <1>e, <2>2, <2>3
<1> QED BY <1>1, <1>2, <1>3, <1>4, <1>5, <1>6, <1>7, <1>8, <1>9, <1>10, <1>11,
  <1>12, <1>13

\* A volume that is cancelled already counts as deleted.
LEMMA FindToDeleteKeeps ==
  ASSUME DiskInv, NEW c \in Call, FindToDelete(c)
  PROVE  DiskInv'
<1> USE DiskConfigAssumption DEF DiskInv, TypeInv, TypeOK, FindToDelete, Goto,
  Fails, Applied, Active, Running, AttachSteps, DetachSteps, CreateSteps,
  DeleteSteps, Outcomes, cloud, agent, args, director
<1>1. TypeOK'
  BY DEF ArgsInv, GuestCalls, VolumeState
<1>2. ArgsInv'
  BY DEF ArgsInv, GuestCalls
<1>3. Exclusive'
  BY SMTT(30) DEF Exclusive, ArgsInv
<1>4. VolumeInv'
  BY DEF VolumeInv, Known
<1>5. ViewInv'
  BY DEF ViewInv, ArgsInv, Exclusive, GuestCalls
<1>6. NoAccess'
  BY DEF NoAccess
<1>7. NoSettings'
  BY DEF NoSettings
<1>8. AttachInv'
  BY DEF AttachInv, ArgsInv, Exclusive, GuestCalls
<1>9. DetachInv'
  BY DEF DetachInv, ArgsInv, Exclusive, GuestCalls
<1>10. FetchInv'
  BY DEF FetchInv, ArgsInv, Exclusive, GuestCalls
<1>11. CancelInv'
  BY DEF CancelInv, Attached
<1>12. AttachedIsAuthorized'
  BY DEF AttachedIsAuthorized, Attached
<1>13. LatestInSettings'
  BY DEF LatestInSettings, LatestNamed
<1> QED BY <1>1, <1>2, <1>3, <1>4, <1>5, <1>6, <1>7, <1>8, <1>9, <1>10, <1>11,
  <1>12, <1>13

\* The cancellation takes a volume no guest has attached.
LEMMA CancelVolumeKeeps ==
  ASSUME DiskInv, NEW c \in Call, CancelVolume(c)
  PROVE  DiskInv'
<1> USE DiskConfigAssumption DEF DiskInv, TypeInv, TypeOK, CancelVolume, Goto,
  Fails, Applied, Active, Running, AttachSteps, DetachSteps, CreateSteps,
  DeleteSteps, Outcomes, cloud, agent, args, director
<1>1. TypeOK'
  BY DEF ArgsInv, GuestCalls, VolumeState
<1>2. ArgsInv'
  BY DEF ArgsInv, GuestCalls
<1>3. Exclusive'
  BY DEF Exclusive, ArgsInv
<1>4. VolumeInv'
  <2>1. /\ \A d \in Disk : volume'[d] \in {volume[d], "cancelled"}
        /\ UNCHANGED disk
    BY DEF TypeOK, VolumeState
  <2>2. \A d \in Disk : Known(d)' => Known(d)
    BY <2>1 DEF Known
  <2> QED BY <2>1, <2>2 DEF VolumeInv
<1>5. ViewInv'
  BY DEF ViewInv, ArgsInv, Exclusive, GuestCalls
<1>6. NoAccess'
  BY DEF NoAccess, ViewInv, ArgsInv, Exclusive, VolumeInv
<1>7. NoSettings'
  BY DEF NoSettings
<1>8. AttachInv'
  BY DEF AttachInv, ArgsInv, Exclusive, GuestCalls, ViewInv, VolumeInv
<1>9. DetachInv'
  BY DEF DetachInv, ArgsInv, Exclusive, GuestCalls, ViewInv, VolumeInv
<1>10. FetchInv'
  BY DEF FetchInv, ArgsInv, Exclusive, GuestCalls
<1>11. CancelInv'
  BY DEF CancelInv, Attached, ViewInv, ArgsInv, Exclusive, VolumeInv
<1>12. AttachedIsAuthorized'
  BY DEF AttachedIsAuthorized, Attached, ViewInv, ArgsInv, Exclusive, VolumeInv
<1>13. LatestInSettings'
  BY DEF LatestInSettings, LatestNamed
<1> QED BY <1>1, <1>2, <1>3, <1>4, <1>5, <1>6, <1>7, <1>8, <1>9, <1>10, <1>11,
  <1>12, <1>13

\* A call that dies leaves the clouds as they are.
LEMMA CrashKeeps ==
  ASSUME DiskInv, NEW c \in Call, Crash(c)
  PROVE  DiskInv'
<1> USE DiskConfigAssumption DEF DiskInv, TypeInv, TypeOK, Crash, Goto, Fails,
  Applied, Active, Running, AttachSteps, DetachSteps, CreateSteps, DeleteSteps,
  Outcomes, cloud, agent, args, director
<1>1. TypeOK'
  BY DEF ArgsInv, GuestCalls, VolumeState
<1>2. ArgsInv'
  BY DEF ArgsInv, GuestCalls
<1>3. Exclusive'
  BY DEF Exclusive, ArgsInv
<1>4. VolumeInv'
  BY DEF VolumeInv, Known
<1>5. ViewInv'
  BY DEF ViewInv, ArgsInv, Exclusive, GuestCalls
<1>6. NoAccess'
  BY DEF NoAccess
<1>7. NoSettings'
  BY DEF NoSettings
<1>8. AttachInv'
  BY DEF AttachInv, ArgsInv, Exclusive, GuestCalls
<1>9. DetachInv'
  BY DEF DetachInv, ArgsInv, Exclusive, GuestCalls
<1>10. FetchInv'
  BY DEF FetchInv, ArgsInv, Exclusive, GuestCalls
<1>11. CancelInv'
  BY DEF CancelInv, Attached
<1>12. AttachedIsAuthorized'
  BY DEF AttachedIsAuthorized, Attached
<1>13. LatestInSettings'
  BY DEF LatestInSettings, LatestNamed
<1> QED BY <1>1, <1>2, <1>3, <1>4, <1>5, <1>6, <1>7, <1>8, <1>9, <1>10, <1>11,
  <1>12, <1>13

\* SoftLayer finishes a volume.
LEMMA ProvisionKeeps ==
  ASSUME DiskInv, NEW d \in Disk, Provision(d)
  PROVE  DiskInv'
<1> USE DiskConfigAssumption DEF DiskInv, TypeInv, TypeOK, Provision, Goto,
  Fails, Applied, Active, Running, AttachSteps, DetachSteps, CreateSteps,
  DeleteSteps, Outcomes, cloud, agent, args, director
<1>1. TypeOK'
  BY DEF ArgsInv, GuestCalls, VolumeState
<1>2. ArgsInv'
  BY DEF ArgsInv, GuestCalls
<1>3. Exclusive'
  BY DEF Exclusive, ArgsInv
<1>4. VolumeInv'
  BY DEF VolumeInv, Known
<1>5. ViewInv'
  BY DEF ViewInv, ArgsInv, Exclusive, GuestCalls
<1>6. NoAccess'
  BY DEF NoAccess
<1>7. NoSettings'
  BY DEF NoSettings
<1>8. AttachInv'
  BY DEF AttachInv, ArgsInv, Exclusive, GuestCalls
<1>9. DetachInv'
  BY DEF DetachInv, ArgsInv, Exclusive, GuestCalls
<1>10. FetchInv'
  BY DEF FetchInv, ArgsInv, Exclusive, GuestCalls
<1>11. CancelInv'
  BY DEF CancelInv, Attached
<1>12. AttachedIsAuthorized'
  BY DEF AttachedIsAuthorized, Attached
<1>13. LatestInSettings'
  BY DEF LatestInSettings, LatestNamed
<1> QED BY <1>1, <1>2, <1>3, <1>4, <1>5, <1>6, <1>7, <1>8, <1>9, <1>10, <1>11,
  <1>12, <1>13

\* A guest that disappears is taken off every volume.
LEMMA VanishKeeps ==
  ASSUME DiskInv, NEW v \in Vm, Vanish(v)
  PROVE  DiskInv'
<1> USE DiskConfigAssumption DEF DiskInv, TypeInv, TypeOK, Vanish, Goto, Fails,
  Applied, Active, Running, AttachSteps, DetachSteps, CreateSteps, DeleteSteps,
  Outcomes, cloud, agent, args, director
<1>1. TypeOK'
  BY DEF ArgsInv, GuestCalls, VolumeState
<1>2. ArgsInv'
  BY DEF ArgsInv, GuestCalls
<1>3. Exclusive'
  BY DEF Exclusive, ArgsInv
<1>4. VolumeInv'
  BY DEF VolumeInv, Known
<1>5. ViewInv'
  BY DEF ViewInv, ArgsInv, Exclusive, GuestCalls
<1>6. NoAccess'
  BY DEF NoAccess
<1>7. NoSettings'
  BY DEF NoSettings
<1>8. AttachInv'
  BY DEF AttachInv, ArgsInv, Exclusive, GuestCalls
<1>9. DetachInv'
  BY DEF DetachInv, ArgsInv, Exclusive, GuestCalls
<1>10. FetchInv'
  BY DEF FetchInv, ArgsInv, Exclusive, GuestCalls
<1>11. CancelInv'
  BY DEF CancelInv, Attached
<1>12. AttachedIsAuthorized'
  BY DEF AttachedIsAuthorized, Attached
<1>13. LatestInSettings'
  BY DEF LatestInSettings, LatestNamed
<1> QED BY <1>1, <1>2, <1>3, <1>4, <1>5, <1>6, <1>7, <1>8, <1>9, <1>10, <1>11,
  <1>12, <1>13

\* Agent settings go only after their guest.
LEMMA UnregisterKeeps ==
  ASSUME DiskInv, NEW v \in Vm, Unregister(v)
  PROVE  DiskInv'
<1> USE DiskConfigAssumption DEF DiskInv, TypeInv, TypeOK, Unregister, Goto,
  Fails, Applied, Active, Running, AttachSteps, DetachSteps, CreateSteps,
  DeleteSteps, Outcomes, cloud, agent, args, director
<1>1. TypeOK'
  BY DEF ArgsInv, GuestCalls, VolumeState
<1>2. ArgsInv'
  BY DEF ArgsInv, GuestCalls
<1>3. Exclusive'
  BY DEF Exclusive, ArgsInv
<1>4. VolumeInv'
  BY DEF VolumeInv, Known
<1>5. ViewInv'
  BY DEF ViewInv, ArgsInv, Exclusive, GuestCalls
<1>6. NoAccess'
  BY DEF NoAccess
<1>7. NoSettings'
  BY DEF NoSettings
<1>8. AttachInv'
  BY DEF AttachInv, ArgsInv, Exclusive, GuestCalls
<1>9. DetachInv'
  BY DEF DetachInv, ArgsInv, Exclusive, GuestCalls
<1>10. FetchInv'
  BY DEF FetchInv, ArgsInv, Exclusive, GuestCalls
<1>11. CancelInv'
  BY DEF CancelInv, Attached
<1>12. AttachedIsAuthorized'
  BY DEF AttachedIsAuthorized, Attached
<1>13. LatestInSettings'
  BY DEF LatestInSettings, LatestNamed
<1> QED BY <1>1, <1>2, <1>3, <1>4, <1>5, <1>6, <1>7, <1>8, <1>9, <1>10, <1>11,
  <1>12, <1>13

-----------------------------------------------------------------------------
(* The invariant and the theorems.                                         *)

\* The invariant holds initially.
LEMMA DiskInit == Init => DiskInv
<1> SUFFICES ASSUME Init PROVE DiskInv
  OBVIOUS
<1> USE DiskConfigAssumption DEF Init, Active, Running, AttachSteps, DetachSteps,
  CreateSteps, DeleteSteps, Outcomes
<1>1. TypeOK
  BY DEF TypeOK, VolumeState
<1>2. ArgsInv /\ Exclusive /\ VolumeInv
  BY DEF ArgsInv, Exclusive, VolumeInv, Known, GuestCalls
<1>3. ViewInv /\ NoAccess /\ NoSettings
  BY DEF ViewInv, NoAccess, NoSettings, GuestCalls
<1>4. AttachInv /\ DetachInv /\ FetchInv
  BY DEF AttachInv, DetachInv, FetchInv
<1>5. CancelInv /\ AttachedIsAuthorized /\ LatestInSettings
  BY DEF CancelInv, AttachedIsAuthorized, LatestInSettings, LatestNamed, Attached
<1> QED BY <1>1, <1>2, <1>3, <1>4, <1>5 DEF DiskInv, TypeInv

\* Every step keeps it.
LEMMA DiskStep == DiskInv /\ [Next]_vars => DiskInv'
<1> SUFFICES ASSUME DiskInv, [Next]_vars PROVE DiskInv'
  OBVIOUS
<1>1. ASSUME NEW c \in Call, Direct(c) PROVE DiskInv'
  BY <1>1, StartCreateKeeps, StartAttachKeeps, StartDetachKeeps, StartDeleteKeeps
  DEF Direct
<1>2. ASSUME NEW c \in Call, CallStep(c) PROVE DiskInv'
  BY <1>2, OrderVolumeKeeps, AwaitVolumeKeeps, FindDiskKeeps, ReadVolumeKeeps,
    AuthorizeKeeps, ReadCredentialKeeps, FetchToAttachKeeps, PutAttachedKeeps,
    ReadAllowedKeeps, DeauthorizeKeeps, CheckExistsKeeps, FetchToDetachKeeps,
    PutDetachedKeeps, FindToDeleteKeeps, CancelVolumeKeeps
  DEF CallStep
<1>3. ASSUME NEW c \in Call, Crash(c) PROVE DiskInv'
  BY <1>3, CrashKeeps
<1>4. ASSUME NEW d \in Disk, Provision(d) PROVE DiskInv'
  BY <1>4, ProvisionKeeps
<1>5. ASSUME NEW v \in Vm, Vanish(v) \/ Unregister(v) PROVE DiskInv'
  BY <1>5, VanishKeeps, UnregisterKeeps
<1>6. CASE UNCHANGED vars
  BY <1>6 DEF vars, DiskInv, TypeInv, TypeOK, ArgsInv, Exclusive, Active,
    VolumeInv, Known, ViewInv, NoAccess, NoSettings, AttachInv, DetachInv,
    FetchInv, CancelInv, AttachedIsAuthorized, LatestInSettings, LatestNamed, Attached
<1> QED BY <1>1, <1>2, <1>3, <1>4, <1>5, <1>6 DEF Next, AllDone

\* The invariant is one of every behaviour.
THEOREM DiskInductive == Spec => []DiskInv
<1> QED BY DiskInit, DiskStep, PTL DEF Spec

\* The variables always have the types the code gives them.
THEOREM DiskTypeCorrect == Spec => []TypeOK
<1>1. DiskInv => TypeOK
  BY DEF DiskInv, TypeInv
<1> QED BY <1>1, DiskInductive, PTL

\* A disk the director knows attached is on the allow list of its guest,
\* whatever calls failed, crashed or were repeated before.
THEOREM AttachedDiskIsAuthorized == Spec => []AttachedIsAuthorized
<1>1. DiskInv => AttachedIsAuthorized
  BY DEF DiskInv
<1> QED BY <1>1, DiskInductive, PTL

\* The disk attached last stays named in the agent settings of its guest, if
\* the iSCSI settings of that guest unmarshal, although every call puts the
\* whole document back: no two calls that the director runs have the document
\* of one guest in their hands.
THEOREM LatestDiskInSettings == Spec => []LatestInSettings
<1>1. DiskInv => LatestInSettings
  BY DEF DiskInv
<1> QED BY <1>1, DiskInductive, PTL

\* With a registry whose status 500 means what IsExist takes it for, a
\* detach_disk that answered success has taken the guest off the volume and
\* the disk out of the settings, and no other call brings it back.
THEOREM DetachedDiskIsGone == ASSUME ~Registry500 PROVE Spec => []DetachedIsGone
<1>1. DiskInv => DetachedIsGone
  BY DEF DiskInv, NoAccess, NoSettings, DetachedIsGone
<1> QED BY <1>1, DiskInductive, PTL

\* While CancelItem does not answer FALSE, a delete_disk that answered
\* success left a cancelled volume, and it never takes the volume of a disk
\* that is known attached.
THEOREM DeletedDiskIsCancelled ==
  ASSUME ~CancelDeclined PROVE Spec => []DeletedIsCancelled
<1>1. DiskInv => DeletedIsCancelled
  BY DEF DiskInv, CancelInv, DeletedIsCancelled
<1> QED BY <1>1, DiskInductive, PTL
=============================================================================

--------------------------- MODULE DispatcherProofs ---------------------------
(* Proofs about Dispatcher, for any number of processes and any requests,  *)
(* of which any may err, with or without effect, and be sent again.        *)
EXTENDS Dispatcher, SequenceTheorems, TLAPS

-----------------------------------------------------------------------------
(* The inductive invariant.                                                *)

\* Each variable has a value for each process, and each disk a state.
Kinds ==
    /\ pc \in [Call -> {"idle", "dispatch", "act", "write", "exited"}]
    /\ call = [c \in Call |-> call[c]] /\ todo = [c \in Call |-> todo[c]]
    /\ response = [c \in Call |-> response[c]]
    /\ exit = [c \in Call |-> exit[c]] /\ out = [c \in Call |-> out[c]]
    /\ did = [c \in Call |-> did[c]]
    /\ seen = [c \in Call |-> seen[c]] /\ lost = [c \in Call |-> lost[c]]
    /\ disk = [d \in Disk |-> [place |-> disk[d].place, state |-> disk[d].state]]

\* A process has what the director gave it, and a valid configuration when it
\* goes on to the request.
Known(c) ==
    /\ pc[c] # "idle" => call[c] \in Calls[c]
    /\ pc[c] \in {"dispatch", "act", "write"} => NewConfigFromPath(call[c].config)

\* The steps of programs.
Step ==
    {"findVM", "findImage", "reboot", "EXTRACT TAGS", "setTags", "allowedStorage", "findDisk",
     "readBilling", "cancel", "GENERATE NOTES", "setNotes", "createSnapshot", "deleteSnapshot",
     "createVolume", "NOT SUPPORTED", "INVALID", "elsewhere"}

\* An action that runs has its arguments, and the rest of its program to do.
WellFormed(c) ==
    /\ call[c].form = "whole" /\ call[c].method \in AvailableActions
    /\ ExtractMethodArgs(call[c].method, call[c].args).ok
Remaining(c) ==
    /\ todo[c] \in Seq(Step) /\ Len(todo[c]) \in 1..Len(Program(c))
    /\ \A i \in 1..Len(todo[c]) :
          todo[c][i] = Program(c)[Len(Program(c)) - Len(todo[c]) + i]
Acting(c) == pc[c] = "act" => WellFormed(c) /\ Remaining(c)

\* What a request may have changed.
EffectAsked(c, w) ==
    LET m == call[c].method
        named == IsNumber(Asked(c, 1)) /\ w[2] = Asked(c, 1).v
    IN  /\ call[c].form = "whole" /\ NewConfigFromPath(call[c].config)
        /\ CASE w[1] = "reboot" -> m = "reboot_vm" /\ named
             [] w[1] = "tag"    -> m = "set_vm_metadata" /\ named
             [] w[1] = "note"   -> m = "set_disk_metadata" /\ named
             [] w[1] = "cancel" -> m = "delete_disk" /\ named
             [] w[1] = "drop"   -> m = "delete_snapshot" /\ named
             [] w[1] = "snapshot" -> m = "snapshot_disk" /\ IsNumber(Asked(c, 1))
             [] w[1] = "declined" -> named
             [] w[1] = "create" ->
                  /\ m = "create_disk" /\ IsNumber(Asked(c, 3))
                  /\ w[3] = IF Asked(c, 3).v = 0 THEN Asked(c, 2).v
                            ELSE Place[Asked(c, 3).v]
Effects(c) ==
    /\ pc[c] = "idle" => did[c] = {}
    /\ \A w \in did[c] : EffectAsked(c, w)

\* A process that runs has seen what is there now, and what is not billed.
Sees(c) == Running(c) => Visible \subseteq seen[c] /\ Unkept \subseteq lost[c]

\* An answer v of method m about x is true of what was seen, lost and done.
TrueAnswer(m, x, v, sees, loses, does) ==
    LET declined == <<"declined", x>> \in does IN
    /\ m \in {"has_vm", "has_disk", "get_disks"} => x \in sees
    /\ m = "delete_disk"       => x \in loses \/ declined
    /\ m = "reboot_vm"         => <<"reboot", x>> \in does \/ declined
    /\ m = "set_vm_metadata"   => <<"tag", x>> \in does \/ declined
    /\ m = "set_disk_metadata" => <<"note", x>> \in does \/ declined
    /\ m = "delete_snapshot"   => <<"drop", x>> \in does \/ declined
    /\ m = "snapshot_disk"     => <<"snapshot", v>> \in does
    /\ m = "create_disk"       => \E w \in does : w[1] = "create" /\ w[2] = v
Truth(c, v) == TrueAnswer(call[c].method, Asked(c, 1).v, v, seen[c], lost[c], did[c])

\* From the dispatcher's answer to the exit.
Answers(c) ==
    (pc[c] = "write" \/ out[c] = "whole") /\ response[c].error = None
        => Truth(c, response[c].result)
Exits(c) ==
    /\ pc[c] # "exited" => out[c] = "nothing"
    /\ pc[c] = "exited" => ((exit[c] = 0) <=> (out[c] = "whole"))

CallInv(c) ==
    Known(c) /\ Acting(c) /\ Effects(c) /\ Sees(c) /\ Answers(c) /\ Exits(c)
DispatcherInv == Kinds /\ \A c \in Call : CallInv(c)

-----------------------------------------------------------------------------
(* How a step of a process goes on, and what it changes at SoftLayer.      *)

\* Nothing is answered yet: the step is repeated, or the next one begins.
Stays(c) == UNCHANGED <<pc, todo, response>>
Steps(c) == /\ Len(todo[c]) # 1 /\ todo' = [todo EXCEPT ![c] = Tail(@)]
            /\ UNCHANGED <<pc, response>>

\* The dispatcher answers an error, or a result.
Ends(c)  == pc' = [pc EXCEPT ![c] = "write"] /\ todo' = [todo EXCEPT ![c] = <<>>]
Raises(c) == Ends(c) /\ \E r : r.error # None /\ response' = [response EXCEPT ![c] = r]
Returns(c, v) ==
    Ends(c) /\ response' = [response EXCEPT ![c] = [result |-> v, error |-> None, retry |-> FALSE]]

\* The process dies.
Panics(c) ==
    /\ pc' = [pc EXCEPT ![c] = "exited"] /\ todo' = [todo EXCEPT ![c] = <<>>]
    /\ exit' = [exit EXCEPT ![c] = 2] /\ UNCHANGED response

\* An error of an action is answered as an error.
LEMMA RaiseRaises == ASSUME NEW c, NEW e, Raise(c, e) PROVE Raises(c)
<1>1. BuildCloudError(ExtractReturns(e)).error # None
  BY DispatcherAssumption DEF BuildCloudError, ExtractReturns, Plain, Error
<1> QED BY <1>1 DEF Raise, Respond, Forget, Raises, Ends

\* A result is answered.
LEMMA ReturnReturns == ASSUME NEW c, NEW v, Return(c, v) PROVE Returns(c, v)
BY DEF Return, Respond, Forget, Returns, Ends

\* A step done is the last one, whose value is answered, or one more follows.
LEMMA ProceedGoes ==
  ASSUME NEW c, NEW v, Proceed(c, v)
  PROVE  (Len(todo[c]) = 1 /\ Returns(c, v)) \/ Steps(c)
<1>1. CASE Len(todo[c]) = 1
  <2>1. Return(c, v)
    BY <1>1 DEF Proceed
  <2> QED BY <1>1, <2>1, ReturnReturns
<1>2. CASE Len(todo[c]) # 1
  BY <1>2 DEF Proceed, Steps
<1> QED BY <1>1, <1>2

\* An attempt more, or the error.
LEMMA RetryGoes == ASSUME NEW c, RetryOrRaise(c) PROVE Stays(c) \/ Raises(c)
BY RaiseRaises DEF RetryOrRaise, Stays

\* A request is sent once more.
LEMMA ResendStays == ASSUME NEW c, NEW s, NEW body, Resend(c, s, body) PROVE Stays(c)
BY DEF Resend, Stays

\* What a request found, or did.
Found(c, v)  == (Len(todo[c]) = 1 /\ Returns(c, v)) \/ Steps(c)

-----------------------------------------------------------------------------
(* Arguments and programs.                                                 *)

\* The methods whose first parameter is a CID.
CidMethods ==
    {"has_vm", "reboot_vm", "delete_vm", "set_vm_metadata", "configure_networks", "has_disk",
     "delete_disk", "attach_disk", "detach_disk", "get_disks", "set_disk_metadata",
     "snapshot_disk", "delete_snapshot", "delete_stemcell"}

\* What the arguments of a well-formed request are.
LEMMA Arguments ==
  ASSUME NEW c, WellFormed(c)
  PROVE  /\ call[c].method \in CidMethods => cid(c) = Asked(c, 1).v /\ IsNumber(Asked(c, 1))
         /\ call[c].method = "create_disk" =>
               /\ args(c)[3] = Asked(c, 3).v /\ IsNumber(Asked(c, 3))
               /\ object(c) # "" => object(c) = Asked(c, 2).v
<1> DEFINE m      == call[c].method
           given  == call[c].args
           params == Parameters[m]
<1>1. /\ \A i \in DOMAIN params : Unmarshal(params[i], given[i]).ok
      /\ args(c) = [i \in DOMAIN params |-> Unmarshal(params[i], given[i]).v]
  BY DEF WellFormed, ExtractMethodArgs, Wrong, Right, args
<1>2. m \in CidMethods => 1 \in DOMAIN params /\ params[1] = "cid"
  BY DEF CidMethods, Parameters
<1>3. m = "create_disk" => /\ {2, 3} \subseteq DOMAIN params
                           /\ params[2] = "object" /\ params[3] = "cid"
  BY DEF Parameters
<1>4. \A a : Unmarshal("cid", a).ok => Unmarshal("cid", a).v = a.v /\ IsNumber(a)
  BY DEF Unmarshal, UnmarshalCID, Right, Wrong, IsNumber
<1>5. \A a : Unmarshal("object", a).ok /\ Unmarshal("object", a).v # ""
               => Unmarshal("object", a).v = a.v
  BY DEF Unmarshal, UnmarshalOther, Right, Wrong
<1> HIDE DEF params
<1>6. m \in CidMethods => cid(c) = given[1].v /\ IsNumber(given[1])
  BY <1>1, <1>2, <1>4 DEF cid
<1>7. ASSUME m = "create_disk"
      PROVE  /\ args(c)[3] = given[3].v /\ IsNumber(given[3])
             /\ object(c) # "" => object(c) = given[2].v
  <2>1. /\ Unmarshal("cid", given[3]).ok /\ args(c)[3] = Unmarshal("cid", given[3]).v
        /\ Unmarshal("object", given[2]).ok /\ args(c)[2] = Unmarshal("object", given[2]).v
    BY <1>1, <1>3, <1>7
  <2> QED BY <1>4, <1>5, <2>1 DEF object
<1> QED BY <1>6, <1>7 DEF Asked

\* A number given for a disk is a disk.
LEMMA DiskArgument ==
  ASSUME DispatcherInv, NEW c \in Call, pc[c] = "act", WellFormed(c), call[c].method \in DiskMethods
  PROVE  cid(c) \in Disk /\ cid(c) = Asked(c, 1).v
<1>1. call[c] \in Calls[c]
  BY DEF DispatcherInv, CallInv, Known
<1>2. call[c].args[1].v \in Disk
  BY <1>1, NumberAssumption DEF WellFormed
<1>3. call[c].method \in CidMethods
  BY DEF DiskMethods, CidMethods
<1> QED BY <1>2, <1>3, Arguments DEF Asked

\* The methods whose answers are about something.
Telling == {"has_vm", "has_disk", "get_disks", "delete_disk", "reboot_vm", "set_vm_metadata",
            "set_disk_metadata", "delete_snapshot", "snapshot_disk", "create_disk"}

\* Where a program is that has n steps left.
LEMMA StepsLeft ==
  ASSUME NEW p, NEW n, NEW s, n \in 1..Len(p), s = p[Len(p) - n + 1]
  PROVE  /\ \A a : p = <<a>> => s = a
         /\ \A a, b : p = <<a, b>> => (n # 1 /\ s = a) \/ (n = 1 /\ s = b)
         /\ \A a, b, d : p = <<a, b, d>> =>
               (n # 1 /\ s = a) \/ (n # 1 /\ s = b) \/ (n = 1 /\ s = d)
<1>1. \A a : p = <<a>> => s = a
  <2> SUFFICES ASSUME NEW a, p = <<a>> PROVE s = a
    OBVIOUS
  <2>1. n = 1 /\ Len(p) = 1
    OBVIOUS
  <2> QED BY <2>1
<1>2. \A a, b : p = <<a, b>> => (n # 1 /\ s = a) \/ (n = 1 /\ s = b)
  <2> SUFFICES ASSUME NEW a, NEW b, p = <<a, b>> PROVE (n # 1 /\ s = a) \/ (n = 1 /\ s = b)
    OBVIOUS
  <2>1. (n = 1 \/ n = 2) /\ Len(p) = 2
    OBVIOUS
  <2> QED BY <2>1
<1>3. \A a, b, d : p = <<a, b, d>> =>
               (n # 1 /\ s = a) \/ (n # 1 /\ s = b) \/ (n = 1 /\ s = d)
  <2> SUFFICES ASSUME NEW a, NEW b, NEW d, p = <<a, b, d>>
      PROVE  (n # 1 /\ s = a) \/ (n # 1 /\ s = b) \/ (n = 1 /\ s = d)
    OBVIOUS
  <2>1. (n = 1 \/ n = 2 \/ n = 3) /\ Len(p) = 3
    OBVIOUS
  <2> QED BY <2>1
<1> QED BY <1>1, <1>2, <1>3

\* Which action a step belongs to, and whether it may be the last.
Belongs(c, s) ==
    LET m == call[c].method  last == Len(todo[c]) = 1 IN
    /\ s = "findVM"  => m = "has_vm" \/ (m = "create_disk" /\ ~last)
    /\ s = "reboot"  => m = "reboot_vm"
    /\ s = "setTags" => m = "set_vm_metadata"
    /\ s = "EXTRACT TAGS" => m = "set_vm_metadata" /\ ~last
    /\ s = "findDisk" => m = "has_disk" \/ (m \in {"delete_disk", "snapshot_disk"} /\ ~last)
    /\ s = "readBilling" => m = "delete_disk" /\ ~last
    /\ s = "cancel" => m = "delete_disk"
    /\ s = "GENERATE NOTES" => m = "set_disk_metadata" /\ ~last
    /\ s = "setNotes" => m = "set_disk_metadata"
    /\ s = "createSnapshot" => m = "snapshot_disk"
    /\ s = "allowedStorage" => m = "get_disks"
    /\ s = "createVolume" => m = "create_disk" /\ (args(c)[3] = 0 => object(c) # "")
    /\ s = "deleteSnapshot" => m = "delete_snapshot"
    /\ s \in {"findImage", "elsewhere"} => m \notin Telling

LEMMA StepBelongs ==
  ASSUME DispatcherInv, NEW c \in Call, NEW s, At(c, s)
  PROVE  pc[c] = "act" /\ WellFormed(c) /\ Belongs(c, s)
<1> DEFINE m == call[c].method
           n == Len(todo[c])
           p == Program(c)
<1>1. pc[c] = "act" /\ WellFormed(c) /\ Remaining(c)
  BY DEF DispatcherInv, CallInv, Acting, At
<1>2. n \in 1..Len(p) /\ 1 \in 1..n
  BY <1>1 DEF Remaining
<1>3. s = p[Len(p) - n + 1]
  <2>1. s = todo[c][1]
    BY <1>1 DEF At, Remaining
  <2>2. todo[c][1] = p[Len(p) - n + 1]
    BY <1>1, <1>2 DEF Remaining
  <2> QED BY <2>1, <2>2
<1>4. /\ \A a : p = <<a>> => s = a
      /\ \A a, b : p = <<a, b>> => (n # 1 /\ s = a) \/ (n = 1 /\ s = b)
      /\ \A a, b, d : p = <<a, b, d>> =>
            (n # 1 /\ s = a) \/ (n # 1 /\ s = b) \/ (n = 1 /\ s = d)
  <2> HIDE DEF n, p
  <2> QED BY <1>2, <1>3, StepsLeft
<1>5. CASE m = "has_vm"
  <2>1. p = <<"findVM">>
    BY <1>5 DEF Program, HasVM
  <2>2. s = "findVM"
    BY <1>4, <2>1
  <2> QED BY <1>1, <1>5, <2>2 DEF Belongs, Telling
<1>6. CASE m = "reboot_vm"
  <2>1. p = <<"reboot">>
    BY <1>6 DEF Program, RebootVM
  <2>2. s = "reboot"
    BY <1>4, <2>1
  <2> QED BY <1>1, <1>6, <2>2 DEF Belongs, Telling
<1>7. CASE m = "set_vm_metadata"
  <2>1. p = <<"EXTRACT TAGS", "setTags">>
    BY <1>7 DEF Program, SetVMMetadata
  <2>2. (n # 1 /\ s = "EXTRACT TAGS") \/ (n = 1 /\ s = "setTags")
    BY <1>4, <2>1
  <2> QED BY <1>1, <1>7, <2>2 DEF Belongs, Telling
<1>8. CASE m = "has_disk"
  <2>1. p = <<"findDisk">>
    BY <1>8 DEF Program, HasDisk
  <2>2. s = "findDisk"
    BY <1>4, <2>1
  <2> QED BY <1>1, <1>8, <2>2 DEF Belongs, Telling
<1>9. CASE m = "delete_disk"
  <2>1. p = <<"findDisk", "readBilling", "cancel">>
    BY <1>9 DEF Program, DeleteDisk
  <2>2. (n # 1 /\ s = "findDisk") \/ (n # 1 /\ s = "readBilling") \/ (n = 1 /\ s = "cancel")
    BY <1>4, <2>1
  <2> QED BY <1>1, <1>9, <2>2 DEF Belongs, Telling
<1>10. CASE m = "set_disk_metadata"
  <2>1. p = <<"GENERATE NOTES", "setNotes">>
    BY <1>10 DEF Program, SetDiskMetadata
  <2>2. (n # 1 /\ s = "GENERATE NOTES") \/ (n = 1 /\ s = "setNotes")
    BY <1>4, <2>1
  <2> QED BY <1>1, <1>10, <2>2 DEF Belongs, Telling
<1>11. CASE m = "snapshot_disk"
  <2>1. p = <<"findDisk", "createSnapshot">>
    BY <1>11 DEF Program, SnapshotDisk
  <2>2. (n # 1 /\ s = "findDisk") \/ (n = 1 /\ s = "createSnapshot")
    BY <1>4, <2>1
  <2> QED BY <1>1, <1>11, <2>2 DEF Belongs, Telling
<1>12. CASE m = "delete_snapshot"
  <2>1. p = <<"deleteSnapshot">>
    BY <1>12 DEF Program, DeleteSnapshotProgram
  <2>2. s = "deleteSnapshot"
    BY <1>4, <2>1
  <2> QED BY <1>1, <1>12, <2>2 DEF Belongs, Telling
<1>13. CASE m = "get_disks"
  <2>1. p = <<"allowedStorage">>
    BY <1>13 DEF Program, GetDisks
  <2>2. s = "allowedStorage"
    BY <1>4, <2>1
  <2> QED BY <1>1, <1>13, <2>2 DEF Belongs, Telling
<1>14. CASE m = "create_disk"
  <2>1. CASE args(c)[3] # 0
    <3>1. p = <<"findVM", "createVolume">>
      BY <1>14, <2>1 DEF Program, CreateDisk
    <3>2. (n # 1 /\ s = "findVM") \/ s = "createVolume"
      BY <1>4, <3>1
    <3> QED BY <1>1, <1>14, <2>1, <3>2 DEF Belongs, Telling
  <2>2. CASE args(c)[3] = 0 /\ object(c) # ""
    <3>1. p = <<"createVolume">>
      BY <1>14, <2>2 DEF Program, CreateDisk
    <3>2. s = "createVolume"
      BY <1>4, <3>1
    <3> QED BY <1>1, <1>14, <2>2, <3>2 DEF Belongs, Telling
  <2>3. CASE args(c)[3] = 0 /\ object(c) = ""
    <3>1. p = <<"INVALID">>
      BY <1>14, <2>3 DEF Program, CreateDisk
    <3>2. s = "INVALID"
      BY <1>4, <3>1
    <3> QED BY <1>1, <3>2 DEF Belongs
  <2> QED BY <2>1, <2>2, <2>3
<1>15. CASE m = "create_stemcell"
  <2>1. p = <<"findImage">> \/ p = <<"elsewhere">> \/ p = <<"INVALID">>
    <3>1. p = CreateStemcell(c)
      BY <1>15 DEF Program
    <3> QED BY <3>1 DEF CreateStemcell
  <2>2. s \in {"findImage", "elsewhere", "INVALID"}
    BY <1>4, <2>1
  <2> QED BY <1>1, <1>15, <2>2 DEF Belongs, Telling
<1>16. CASE m \in {"delete_stemcell", "info", "ping"}
  <2>1. p = <<>>
    BY <1>16 DEF Program, DeleteStemcell, Info, Ping
  <2> QED BY <1>1, <1>2, <2>1
<1>17. CASE m = "configure_networks"
  <2>1. p = <<"NOT SUPPORTED">>
    BY <1>17 DEF Program, ConfigureNetworks
  <2>2. s = "NOT SUPPORTED"
    BY <1>4, <2>1
  <2> QED BY <1>1, <2>2 DEF Belongs
<1>18. CASE m \in {"create_vm", "delete_vm", "attach_disk", "detach_disk"}
  <2>1. p = <<"elsewhere">>
    BY <1>18 DEF Program
  <2>2. s = "elsewhere"
    BY <1>4, <2>1
  <2> QED BY <1>1, <1>18, <2>2 DEF Belongs, Telling
<1>19. m \in {"has_vm", "reboot_vm", "delete_vm", "set_vm_metadata", "configure_networks",
              "create_vm", "has_disk", "create_disk", "delete_disk", "attach_disk", "detach_disk",
              "get_disks", "set_disk_metadata", "snapshot_disk", "delete_snapshot",
              "create_stemcell", "delete_stemcell", "info", "ping"}
  BY <1>1 DEF WellFormed, AvailableActions, Parameters
<1> QED BY <1>1, <1>5, <1>6, <1>7, <1>8, <1>9, <1>10, <1>11, <1>12, <1>13, <1>14, <1>15,
          <1>16, <1>17, <1>18, <1>19

-----------------------------------------------------------------------------
(* What a step of an action keeps, whichever it is.                        *)

\* A process has seen what it had, and if it runs what is there now.
SeesOn(b) ==
    /\ seen[b] \subseteq seen'[b] /\ lost[b] \subseteq lost'[b]
    /\ Running(b) => Visible' \subseteq seen'[b] /\ Unkept' \subseteq lost'[b]

\* What changed at SoftLayer was asked for, and is seen.
Widens ==
    /\ seen' = [b \in Call |-> seen'[b]] /\ lost' = [b \in Call |-> lost'[b]]
    /\ disk' = [d \in Disk |-> [place |-> disk'[d].place, state |-> disk'[d].state]]
    /\ \A b \in Call : SeesOn(b)
Grows(c) ==
    /\ \/ UNCHANGED did
       \/ \E x : did' = [did EXCEPT ![c] = @ \cup {x}] /\ EffectAsked(c, x)
    /\ Widens

\* The process goes on, answers what is true, or dies.
Goes(c) ==
    /\ UNCHANGED <<call, out>>
    /\ \/ /\ UNCHANGED exit
          /\ Stays(c) \/ Steps(c) \/ Raises(c) \/ \E v : Returns(c, v) /\ Truth(c, v)'
       \/ Panics(c)

\* SoftLayer stays as it is.
LEMMA NothingGrows ==
  ASSUME DispatcherInv, NEW c, UNCHANGED world PROVE Grows(c)
<1>1. Visible' = Visible /\ Unkept' = Unkept
  BY DEF world, Visible, Unkept, Shown, Kept
<1> QED BY <1>1 DEF DispatcherInv, CallInv, Kinds, Sees, world, Grows, Widens, SeesOn

\* The same, when only the effect is noted.
LEMMA NotedGrows ==
  ASSUME DispatcherInv, NEW c, NEW x, EffectAsked(c, x), did' = [did EXCEPT ![c] = @ \cup {x}],
         UNCHANGED <<guests, disk, seen, lost>>
  PROVE  Grows(c)
<1>1. Visible' = Visible /\ Unkept' = Unkept
  BY DEF Visible, Unkept, Shown, Kept
<1> QED BY <1>1 DEF DispatcherInv, CallInv, Kinds, Sees, Grows, Widens, SeesOn

\* What is there is observed by all that run.
LEMMA ObserveWidens ==
  ASSUME DispatcherInv, Observe,
         disk' = [d \in Disk |-> [place |-> disk'[d].place, state |-> disk'[d].state]]
  PROVE  Widens
<1>1. /\ seen' = [c \in Call |-> IF Running(c) THEN seen[c] \cup Visible' ELSE seen[c]]
      /\ lost' = [c \in Call |-> IF Running(c) THEN lost[c] \cup Unkept' ELSE lost[c]]
  BY DEF Observe
<1> QED BY <1>1 DEF Widens, SeesOn

\* What is true of a process stays true while it sees, loses and does more.
LEMMA TruthStays ==
  ASSUME NEW b, NEW v, Truth(b, v), call'[b] = call[b], seen[b] \subseteq seen'[b],
         lost[b] \subseteq lost'[b], did[b] \subseteq did'[b]
  PROVE  Truth(b, v)'
BY DEF Truth, TrueAnswer, Asked

\* A process without a part in a step.
Bystander(b) ==
    /\ call'[b] = call[b] /\ pc'[b] = pc[b] /\ todo'[b] = todo[b]
    /\ response'[b] = response[b] /\ exit'[b] = exit[b] /\ out'[b] = out[b]
    /\ did'[b] = did[b] /\ SeesOn(b)

\* It keeps what holds of it.
LEMMA BystanderKeeps ==
  ASSUME DispatcherInv, NEW b \in Call, Bystander(b)
  PROVE  CallInv(b)'
<1> USE DEF Bystander
<1>1. CallInv(b)
  BY DEF DispatcherInv
<1>2. Known(b)' /\ Exits(b)'
  BY <1>1 DEF CallInv, Known, Exits
<1>3. Acting(b)'
  <2>1. (WellFormed(b)' <=> WellFormed(b)) /\ Program(b)' = Program(b)
    BY DEF WellFormed, Program, CreateDisk, CreateStemcell, args, object
  <2> QED BY <1>1, <2>1 DEF CallInv, Acting, Remaining
<1>4. Effects(b)'
  BY <1>1, ZenonT(60) DEF CallInv, Effects, EffectAsked, Asked
<1>5. Sees(b)'
  BY DEF Sees, Running, SeesOn
<1>6. Answers(b)'
  <2>1. PICK v : v = response[b].result
    OBVIOUS
  <2>2. Truth(b, v) => Truth(b, v)'
    BY TruthStays DEF SeesOn
  <2>3. (pc[b] = "write" \/ out[b] = "whole") /\ response[b].error = None => Truth(b, v)
    BY <1>1, <2>1 DEF CallInv, Answers
  <2>4. v = response'[b].result
    BY <2>1
  <2>5. (pc'[b] = "write" \/ out'[b] = "whole") /\ response'[b].error = None => Truth(b, v)'
    BY <2>2, <2>3
  <2> QED BY <2>4, <2>5 DEF Answers
<1> QED BY <1>2, <1>3, <1>4, <1>5, <1>6 DEF CallInv

\* The rest of the program after a step.
LEMMA TailRemains ==
  ASSUME NEW c, Remaining(c), Len(todo[c]) # 1, todo'[c] = Tail(todo[c]), Program(c)' = Program(c)
  PROVE  Remaining(c)'
<1> DEFINE t == todo[c]
           p == Program(c)
<1>1. t \in Seq(Step) /\ Len(t) \in 1..Len(p) /\ Len(t) \in Nat
  BY LenProperties DEF Remaining
<1>2. Len(p) \in Int
  BY <1>1
<1>3. t # <<>> /\ Len(t) >= 2
  <2>1. \A k \in Nat : k # 1 /\ k >= 1 => k >= 2
    OBVIOUS
  <2>2. Len(t) \in Nat /\ Len(t) # 1 /\ Len(t) >= 1
    BY <1>1, <1>2
  <2>3. Len(t) >= 2
    BY <2>1, <2>2
  <2> QED BY <2>3
<1>4. /\ Tail(t) \in Seq(Step) /\ Len(Tail(t)) = Len(t) - 1
      /\ \A i \in 1..Len(Tail(t)) : Tail(t)[i] = t[i + 1]
  BY <1>1, <1>3, HeadTailProperties
<1>5. \A i \in 1..(Len(t) - 1) : Tail(t)[i] = p[Len(p) - (Len(t) - 1) + i]
  <2> SUFFICES ASSUME NEW i \in 1..(Len(t) - 1) PROVE Tail(t)[i] = p[Len(p) - (Len(t) - 1) + i]
    OBVIOUS
  <2>1. Tail(t)[i] = t[i + 1] /\ i + 1 \in 1..Len(t)
    BY <1>1, <1>4
  <2>2. t[i + 1] = p[Len(p) - Len(t) + (i + 1)]
    BY <2>1 DEF Remaining
  <2>3. Len(p) - Len(t) + (i + 1) = Len(p) - (Len(t) - 1) + i
    BY <1>1, <1>2
  <2> QED BY <2>1, <2>2, <2>3
<1>6. Len(t) - 1 \in 1..Len(p)
  BY <1>1, <1>2, <1>3
<1> HIDE DEF t, p
<1>7. todo'[c] \in Seq(Step) /\ Len(todo'[c]) \in 1..Len(Program(c)')
  BY <1>4, <1>6 DEF t, p
<1>8. \A i \in 1..Len(todo'[c]) :
         todo'[c][i] = Program(c)'[Len(Program(c)') - Len(todo'[c]) + i]
  BY <1>4, <1>5 DEF t, p
<1> QED BY <1>7, <1>8 DEF Remaining

\* A step of an action keeps the invariant.
LEMMA GoesKeeps ==
  ASSUME DispatcherInv, NEW c \in Call, pc[c] = "act", Goes(c), Grows(c)
  PROVE  DispatcherInv'
<1>1. call' = call /\ out' = out /\ Widens
  BY DEF Goes, Grows
<1>2. \A b \in Call : b # c =>
         /\ pc'[b] = pc[b] /\ todo'[b] = todo[b] /\ response'[b] = response[b]
         /\ exit'[b] = exit[b] /\ did'[b] = did[b]
  BY DEF Goes, Grows, Stays, Steps, Raises, Returns, Panics, Ends, DispatcherInv, Kinds
<1>3. Kinds'
  <2>1. pc' \in [Call -> {"idle", "dispatch", "act", "write", "exited"}]
    BY DEF Goes, Stays, Steps, Raises, Returns, Panics, Ends, DispatcherInv, Kinds
  <2>2. /\ todo' = [b \in Call |-> todo'[b]] /\ response' = [b \in Call |-> response'[b]]
        /\ exit' = [b \in Call |-> exit'[b]]
    BY DEF Goes, Stays, Steps, Raises, Returns, Panics, Ends, DispatcherInv, Kinds
  <2>3. did' = [b \in Call |-> did'[b]]
    BY DEF Grows, DispatcherInv, Kinds
  <2> QED BY <1>1, <2>1, <2>2, <2>3 DEF Widens, DispatcherInv, Kinds
<1>4. CallInv(c) /\ out[c] = "nothing"
  BY DEF DispatcherInv, CallInv, Exits
<1>5. did[c] \subseteq did'[c] /\ \A w \in did'[c] : w \in did[c] \/ EffectAsked(c, w)
  BY DEF Grows, DispatcherInv, Kinds
<1>6. Effects(c)' /\ (pc'[c] # "idle")
  <2>1. pc'[c] # "idle"
    BY DEF Goes, Stays, Steps, Raises, Returns, Panics, Ends, DispatcherInv, Kinds
  <2>2. \A w \in did'[c] : EffectAsked(c, w)
    BY <1>4, <1>5 DEF CallInv, Effects
  <2>3. \A w \in did'[c] : EffectAsked(c, w)'
    BY <1>1, <2>2 DEF EffectAsked, Asked
  <2> QED BY <2>1, <2>3 DEF Effects
<1>7. Known(c)' /\ Sees(c)'
  <2>1. Running(c)
    BY DEF Running
  <2> QED BY <1>1, <1>4, <2>1 DEF CallInv, Known, Sees, Widens, SeesOn
<1>8. (WellFormed(c)' <=> WellFormed(c)) /\ Program(c)' = Program(c)
  BY <1>1 DEF WellFormed, Program, CreateDisk, CreateStemcell, args, object
<1>9. ASSUME Stays(c), UNCHANGED exit PROVE CallInv(c)'
  <2>1. Acting(c)'
    BY <1>4, <1>8, <1>9 DEF Stays, CallInv, Acting, Remaining
  <2>2. Answers(c)' /\ Exits(c)'
    BY <1>1, <1>4, <1>9 DEF Stays, Answers, Exits
  <2> QED BY <1>6, <1>7, <2>1, <2>2 DEF CallInv
<1>10. ASSUME Steps(c), UNCHANGED exit PROVE CallInv(c)'
  <2>1. pc' = pc /\ todo'[c] = Tail(todo[c]) /\ Len(todo[c]) # 1
    BY <1>10 DEF Steps, DispatcherInv, Kinds
  <2>2. WellFormed(c) /\ Remaining(c)
    BY <1>4 DEF CallInv, Acting
  <2>3. Acting(c)'
    BY <1>8, <2>1, <2>2, TailRemains DEF Acting
  <2>4. Answers(c)' /\ Exits(c)'
    BY <1>1, <1>4, <2>1 DEF Answers, Exits
  <2> QED BY <1>6, <1>7, <2>3, <2>4 DEF CallInv
<1>11. ASSUME Raises(c), UNCHANGED exit PROVE CallInv(c)'
  <2>1. pc'[c] = "write" /\ response'[c].error # None
    BY <1>11 DEF Raises, Ends, DispatcherInv, Kinds
  <2>2. Acting(c)' /\ Answers(c)' /\ Exits(c)'
    BY <1>1, <1>4, <2>1 DEF Acting, Answers, Exits
  <2> QED BY <1>6, <1>7, <2>2 DEF CallInv
<1>12. ASSUME \E v : Returns(c, v) /\ Truth(c, v)', UNCHANGED exit PROVE CallInv(c)'
  <2>1. PICK v : Returns(c, v) /\ Truth(c, v)'
    BY <1>12
  <2>2. pc'[c] = "write" /\ v = response'[c].result
    BY <2>1 DEF Returns, Ends, DispatcherInv, Kinds
  <2>3. Answers(c)'
    BY <2>1, <2>2 DEF Answers
  <2>4. Acting(c)' /\ Exits(c)'
    BY <1>1, <1>4, <2>2 DEF Acting, Exits
  <2> QED BY <1>6, <1>7, <2>3, <2>4 DEF CallInv
<1>13. ASSUME Panics(c) PROVE CallInv(c)'
  <2>1. pc'[c] = "exited" /\ exit'[c] = 2
    BY <1>13 DEF Panics, DispatcherInv, Kinds
  <2>2. Acting(c)' /\ Answers(c)' /\ Exits(c)'
    BY <1>1, <1>4, <2>1 DEF Acting, Answers, Exits
  <2> QED BY <1>6, <1>7, <2>2 DEF CallInv
<1>14. CallInv(c)'
  BY <1>9, <1>10, <1>11, <1>12, <1>13 DEF Goes
<1>15. \A b \in Call : b # c => CallInv(b)'
  BY <1>1, <1>2, BystanderKeeps DEF Bystander, Widens
<1> QED BY <1>3, <1>14, <1>15 DEF DispatcherInv

-----------------------------------------------------------------------------
(* The steps of the actions.                                               *)

\* Where a process is whose action is at a step.
LEMMA AtAStep ==
  ASSUME DispatcherInv, NEW c \in Call, NEW s, At(c, s)
  PROVE  /\ pc[c] = "act" /\ WellFormed(c) /\ Belongs(c, s)
         /\ call[c].form = "whole" /\ NewConfigFromPath(call[c].config)
         /\ Visible \subseteq seen[c] /\ Unkept \subseteq lost[c]
<1>1. pc[c] = "act" /\ WellFormed(c) /\ Belongs(c, s)
  BY StepBelongs
<1>2. Known(c) /\ Sees(c) /\ Running(c)
  BY <1>1 DEF DispatcherInv, CallInv, Running
<1> QED BY <1>1, <1>2 DEF WellFormed, Known, Sees

\* A step that answers nothing yet, or an error, or what it found to be true.
LEMMA StepKeeps ==
  ASSUME DispatcherInv, NEW c \in Call, pc[c] = "act", UNCHANGED <<call, exit, out>>, Grows(c),
         \/ Stays(c) \/ Steps(c) \/ Raises(c)
         \/ \E v : Returns(c, v) /\ Truth(c, v)'
  PROVE  DispatcherInv'
<1>1. Goes(c)
  BY DEF Goes
<1> QED BY <1>1, GoesKeeps

\* An answer of a method that tells nothing is true.
LEMMA NothingTold ==
  ASSUME NEW c, NEW v, call' = call, call[c].method \notin Telling PROVE Truth(c, v)'
BY DEF Truth, TrueAnswer, Telling

\* A guest is looked up.
LEMMA FindVMKeeps == ASSUME DispatcherInv, NEW c \in Call, FindVM(c) PROVE DispatcherInv'
<1>1. At(c, "findVM") /\ UNCHANGED <<call, exit, out>> /\ UNCHANGED world
  BY DEF FindVM, Request, Nothing
<1>2. \/ Named(c) \in guests /\ Proceed(c, "yes")
      \/ Raise(c, Error("VMNotFound", FALSE))
      \/ RetryOrRaise(c)
      \/ \E body \in BOOLEAN : Resend(c, "findVM", body)
  BY DEF FindVM, Request, Nothing
<1>3. (Named(c) \in guests /\ Found(c, "yes")) \/ Stays(c) \/ Raises(c)
  BY <1>2, ProceedGoes, RaiseRaises, RetryGoes, ResendStays DEF Found
<1>4. pc[c] = "act" /\ Grows(c)
  BY <1>1, AtAStep, NothingGrows
<1>5. Named(c) \in guests /\ Len(todo[c]) = 1 => Truth(c, "yes")'
  <2>1. ASSUME Named(c) \in guests, Len(todo[c]) = 1 PROVE Truth(c, "yes")'
    <3>1. call[c].method = "has_vm" /\ Visible \subseteq seen[c]
      BY <1>1, <2>1, AtAStep DEF Belongs
    <3>2. cid(c) = Asked(c, 1).v /\ Named(c) = cid(c)
      BY <1>1, <3>1, AtAStep, Arguments DEF CidMethods, Named
    <3>3. Asked(c, 1).v \in seen[c]
      BY <2>1, <3>1, <3>2 DEF Visible
    <3> QED BY <1>1, <3>1, <3>3 DEF Truth, TrueAnswer, Asked, world
  <2> QED BY <2>1
<1> QED BY <1>1, <1>3, <1>4, <1>5, StepKeeps DEF Found

\* An image is looked up.
LEMMA FindImageKeeps == ASSUME DispatcherInv, NEW c \in Call, FindImage(c) PROVE DispatcherInv'
<1>1. At(c, "findImage") /\ UNCHANGED <<call, exit, out>> /\ UNCHANGED world
  BY DEF FindImage, Request, Nothing
<1>2. \/ GetImage(object(c)) /\ Proceed(c, object(c))
      \/ Raise(c, Error("StemcellNotFound", FALSE))
      \/ RetryOrRaise(c)
      \/ \E body \in BOOLEAN : Resend(c, "findImage", body)
  BY DEF FindImage, Request, Nothing
<1>3. (GetImage(object(c)) /\ Found(c, object(c))) \/ Stays(c) \/ Raises(c)
  BY <1>2, ProceedGoes, RaiseRaises, RetryGoes, ResendStays DEF Found
<1>4. pc[c] = "act" /\ Grows(c)
  BY <1>1, AtAStep, NothingGrows
<1>5. \A v : Truth(c, v)'
  BY <1>1, AtAStep, NothingTold DEF Belongs
<1> QED BY <1>1, <1>3, <1>4, <1>5, StepKeeps DEF Found

\* The disks of a guest are listed.
LEMMA AllowedStorageKeeps ==
  ASSUME DispatcherInv, NEW c \in Call, AllowedStorage(c) PROVE DispatcherInv'
<1>1. At(c, "allowedStorage") /\ UNCHANGED <<call, exit, out>> /\ UNCHANGED world
  BY DEF AllowedStorage, Request, Nothing
<1>2. \/ cid(c) \in guests /\ Proceed(c, "disks")
      \/ Raise(c, Error("VMNotFound", FALSE))
      \/ Raise(c, Plain)
      \/ \E body \in BOOLEAN : Resend(c, "allowedStorage", body)
  BY DEF AllowedStorage, Request, Nothing
<1>3. (cid(c) \in guests /\ Found(c, "disks")) \/ Stays(c) \/ Raises(c)
  BY <1>2, ProceedGoes, RaiseRaises, RetryGoes, ResendStays DEF Found
<1>4. pc[c] = "act" /\ Grows(c)
  BY <1>1, AtAStep, NothingGrows
<1>5. cid(c) \in guests => Truth(c, "disks")'
  <2>1. ASSUME cid(c) \in guests PROVE Truth(c, "disks")'
    <3>1. call[c].method = "get_disks" /\ Visible \subseteq seen[c]
      BY <1>1, AtAStep DEF Belongs
    <3>2. cid(c) = Asked(c, 1).v
      BY <1>1, <3>1, AtAStep, Arguments DEF CidMethods
    <3>3. Asked(c, 1).v \in seen[c]
      BY <2>1, <3>1, <3>2 DEF Visible
    <3> QED BY <1>1, <3>1, <3>3 DEF Truth, TrueAnswer, Asked, world
  <2> QED BY <2>1
<1> QED BY <1>1, <1>3, <1>4, <1>5, StepKeeps DEF Found

\* A guest is rebooted.
LEMMA RebootKeeps == ASSUME DispatcherInv, NEW c \in Call, Reboot(c) PROVE DispatcherInv'
<1> DEFINE x == <<"reboot", cid(c)>>
           y == <<"declined", cid(c)>>
           notes == DoesOnly(c, x) \/ DoesOnly(c, y)
<1>1. At(c, "reboot") /\ UNCHANGED <<call, exit, out>>
  BY DEF Reboot, Request
<1>2. /\ UNCHANGED world \/ notes
      /\ \/ notes /\ Proceed(c, "done")
         \/ Raise(c, Plain)
         \/ Raise(c, Plain)
         \/ \E body \in BOOLEAN : Resend(c, "reboot", body)
  BY DEF Reboot, Request, Declined
<1>3. (notes /\ Found(c, "done")) \/ Stays(c) \/ Raises(c)
  BY <1>2, ProceedGoes, RaiseRaises, RetryGoes, ResendStays DEF Found
<1>4. /\ pc[c] = "act" /\ call[c].method = "reboot_vm" /\ call[c].form = "whole"
      /\ NewConfigFromPath(call[c].config)
      /\ cid(c) = Asked(c, 1).v /\ IsNumber(Asked(c, 1))
  BY <1>1, AtAStep, Arguments DEF Belongs, CidMethods
<1>5. EffectAsked(c, x) /\ EffectAsked(c, y)
  BY <1>4 DEF EffectAsked
<1>6. Grows(c)
  BY <1>2, <1>5, NothingGrows, NotedGrows DEF DoesOnly, Does
<1>7. notes => Truth(c, "done")'
  <2>1. ASSUME notes PROVE Truth(c, "done")'
    <3>1. x \in did'[c] \/ y \in did'[c]
      BY <2>1 DEF DoesOnly, Does, DispatcherInv, Kinds
    <3> QED BY <1>1, <1>4, <3>1 DEF Truth, TrueAnswer, Asked
  <2> QED BY <2>1
<1> QED BY <1>1, <1>3, <1>4, <1>6, <1>7, StepKeeps DEF Found

\* A guest is tagged.
LEMMA SetTagsKeeps == ASSUME DispatcherInv, NEW c \in Call, SetTags(c) PROVE DispatcherInv'
<1> DEFINE x == <<"tag", cid(c)>>
           y == <<"declined", cid(c)>>
           notes == DoesOnly(c, x) \/ DoesOnly(c, y)
<1>1. At(c, "setTags") /\ UNCHANGED <<call, exit, out>>
  BY DEF SetTags, Request
<1>2. /\ UNCHANGED world \/ notes
      /\ \/ notes /\ Proceed(c, "done")
         \/ Raise(c, Error("VMNotFound", FALSE))
         \/ RetryOrRaise(c)
         \/ \E body \in BOOLEAN : Resend(c, "setTags", body)
  BY DEF SetTags, Request, Declined
<1>3. (notes /\ Found(c, "done")) \/ Stays(c) \/ Raises(c)
  BY <1>2, ProceedGoes, RaiseRaises, RetryGoes, ResendStays DEF Found
<1>4. /\ pc[c] = "act" /\ call[c].method = "set_vm_metadata" /\ call[c].form = "whole"
      /\ NewConfigFromPath(call[c].config)
      /\ cid(c) = Asked(c, 1).v /\ IsNumber(Asked(c, 1))
  BY <1>1, AtAStep, Arguments DEF Belongs, CidMethods
<1>5. EffectAsked(c, x) /\ EffectAsked(c, y)
  BY <1>4 DEF EffectAsked
<1>6. Grows(c)
  BY <1>2, <1>5, NothingGrows, NotedGrows DEF DoesOnly, Does
<1>7. notes => Truth(c, "done")'
  <2>1. ASSUME notes PROVE Truth(c, "done")'
    <3>1. x \in did'[c] \/ y \in did'[c]
      BY <2>1 DEF DoesOnly, Does, DispatcherInv, Kinds
    <3> QED BY <1>1, <1>4, <3>1 DEF Truth, TrueAnswer, Asked
  <2> QED BY <2>1
<1> QED BY <1>1, <1>3, <1>4, <1>6, <1>7, StepKeeps DEF Found

\* A disk gets its notes.
LEMMA SetNotesKeeps == ASSUME DispatcherInv, NEW c \in Call, SetNotes(c) PROVE DispatcherInv'
<1> DEFINE x == <<"note", cid(c)>>
           y == <<"declined", cid(c)>>
           notes == DoesOnly(c, x) \/ DoesOnly(c, y)
<1>1. At(c, "setNotes") /\ UNCHANGED <<call, exit, out>>
  BY DEF SetNotes, Request
<1>2. /\ UNCHANGED world \/ notes
      /\ \/ notes /\ Proceed(c, "done")
         \/ Raise(c, Error("DiskNotFound", FALSE))
         \/ Raise(c, Plain)
         \/ \E body \in BOOLEAN : Resend(c, "setNotes", body)
  BY DEF SetNotes, Request, Declined
<1>3. (notes /\ Found(c, "done")) \/ Stays(c) \/ Raises(c)
  BY <1>2, ProceedGoes, RaiseRaises, RetryGoes, ResendStays DEF Found
<1>4. /\ pc[c] = "act" /\ call[c].method = "set_disk_metadata" /\ call[c].form = "whole"
      /\ NewConfigFromPath(call[c].config)
      /\ cid(c) = Asked(c, 1).v /\ IsNumber(Asked(c, 1))
  BY <1>1, AtAStep, Arguments DEF Belongs, CidMethods
<1>5. EffectAsked(c, x) /\ EffectAsked(c, y)
  BY <1>4 DEF EffectAsked
<1>6. Grows(c)
  BY <1>2, <1>5, NothingGrows, NotedGrows DEF DoesOnly, Does
<1>7. notes => Truth(c, "done")'
  <2>1. ASSUME notes PROVE Truth(c, "done")'
    <3>1. x \in did'[c] \/ y \in did'[c]
      BY <2>1 DEF DoesOnly, Does, DispatcherInv, Kinds
    <3> QED BY <1>1, <1>4, <3>1 DEF Truth, TrueAnswer, Asked
  <2> QED BY <2>1
<1> QED BY <1>1, <1>3, <1>4, <1>6, <1>7, StepKeeps DEF Found

\* A snapshot is deleted.
LEMMA DeleteSnapshotKeeps ==
  ASSUME DispatcherInv, NEW c \in Call, DeleteSnapshot(c) PROVE DispatcherInv'
<1> DEFINE x == <<"drop", cid(c)>>
           y == <<"declined", cid(c)>>
           drops == (Does(c, x) \/ Does(c, y)) /\ UNCHANGED <<guests, disk, seen, lost>>
<1>1. At(c, "deleteSnapshot") /\ UNCHANGED <<call, exit, out>>
  BY DEF DeleteSnapshot, Request
<1>2. /\ UNCHANGED world \/ drops
      /\ \/ drops /\ Proceed(c, "done")
         \/ Raise(c, Plain)
         \/ Raise(c, Plain)
         \/ \E body \in BOOLEAN : Resend(c, "deleteSnapshot", body)
  BY DEF DeleteSnapshot, Request, Declined, DoesOnly
<1>3. \/ drops /\ Found(c, "done")
      \/ Stays(c) \/ Raises(c)
  BY <1>2, ProceedGoes, RaiseRaises, RetryGoes, ResendStays DEF Found
<1>4. /\ pc[c] = "act" /\ call[c].method = "delete_snapshot" /\ call[c].form = "whole"
      /\ NewConfigFromPath(call[c].config)
      /\ cid(c) = Asked(c, 1).v /\ IsNumber(Asked(c, 1))
  BY <1>1, AtAStep, Arguments DEF Belongs, CidMethods
<1>5. EffectAsked(c, x) /\ EffectAsked(c, y)
  BY <1>4 DEF EffectAsked
<1>6. Grows(c)
  BY <1>2, <1>5, NothingGrows, NotedGrows DEF Does
<1>7. drops => Truth(c, "done")'
  <2>1. ASSUME drops PROVE Truth(c, "done")'
    <3>1. x \in did'[c] \/ y \in did'[c]
      BY <2>1 DEF Does, DispatcherInv, Kinds
    <3> QED BY <1>1, <1>4, <3>1 DEF Truth, TrueAnswer, Asked
  <2> QED BY <2>1
<1> QED BY <1>1, <1>3, <1>4, <1>6, <1>7, StepKeeps DEF Found

\* A disk is looked up.
LEMMA FindDiskKeeps == ASSUME DispatcherInv, NEW c \in Call, FindDisk(c) PROVE DispatcherInv'
<1>1. At(c, "findDisk") /\ UNCHANGED <<call, exit, out>> /\ UNCHANGED world
  BY DEF FindDisk, Request, Nothing
<1>2. \/ Shown(cid(c)) /\ Proceed(c, "yes")
      \/ ~Shown(cid(c)) /\ call[c].method = "delete_disk" /\ Return(c, "done")
      \/ \E e : Raise(c, e)
      \/ \E body \in BOOLEAN : Resend(c, "findDisk", body)
  <2> DEFINE gone == CASE call[c].method = "delete_disk"   -> Return(c, "done")
                       [] call[c].method = "snapshot_disk" -> Raise(c, Plain)
                       [] OTHER -> Raise(c, Error("DiskNotFound", FALSE))
  <2>1. \/ Shown(cid(c)) /\ Proceed(c, "yes")
        \/ ~Shown(cid(c)) /\ gone
        \/ Raise(c, Plain)
        \/ \E body \in BOOLEAN : Resend(c, "findDisk", body)
    BY DEF FindDisk, Request, Nothing
  <2>2. gone => (call[c].method = "delete_disk" /\ Return(c, "done")) \/ \E e : Raise(c, e)
    OBVIOUS
  <2> QED BY <2>1, <2>2
<1>3. \/ Shown(cid(c)) /\ Found(c, "yes")
      \/ ~Shown(cid(c)) /\ call[c].method = "delete_disk" /\ Returns(c, "done")
      \/ Stays(c) \/ Raises(c)
  BY <1>2, ProceedGoes, ReturnReturns, RaiseRaises, ResendStays DEF Found
<1>4. pc[c] = "act" /\ Grows(c)
  BY <1>1, AtAStep, NothingGrows
<1>5. Shown(cid(c)) /\ Len(todo[c]) = 1 => Truth(c, "yes")'
  <2>1. ASSUME Shown(cid(c)), Len(todo[c]) = 1 PROVE Truth(c, "yes")'
    <3>1. call[c].method = "has_disk" /\ Visible \subseteq seen[c]
      BY <1>1, <2>1, AtAStep DEF Belongs
    <3>2. cid(c) \in Disk /\ cid(c) = Asked(c, 1).v
      BY <1>1, <3>1, AtAStep, DiskArgument DEF DiskMethods
    <3>3. Asked(c, 1).v \in seen[c]
      BY <2>1, <3>1, <3>2 DEF Visible
    <3> QED BY <1>1, <3>1, <3>3 DEF Truth, TrueAnswer, Asked, world
  <2> QED BY <2>1
<1>6. ~Shown(cid(c)) /\ call[c].method = "delete_disk" => Truth(c, "done")'
  <2>1. ASSUME ~Shown(cid(c)), call[c].method = "delete_disk" PROVE Truth(c, "done")'
    <3>1. cid(c) \in Disk /\ cid(c) = Asked(c, 1).v /\ Unkept \subseteq lost[c]
      BY <1>1, <2>1, AtAStep, DiskArgument DEF DiskMethods
    <3>2. Asked(c, 1).v \in lost[c]
      BY <2>1, <3>1 DEF Unkept, Shown
    <3> QED BY <1>1, <2>1, <3>2 DEF Truth, TrueAnswer, Asked, world
  <2> QED BY <2>1
<1> QED BY <1>1, <1>3, <1>4, <1>5, <1>6, StepKeeps DEF Found

\* The billing item of a disk is read.
LEMMA ReadBillingKeeps == ASSUME DispatcherInv, NEW c \in Call, ReadBilling(c) PROVE DispatcherInv'
<1>1. At(c, "readBilling") /\ UNCHANGED <<call, exit, out>> /\ UNCHANGED world
  BY DEF ReadBilling, Request, Nothing
<1>2. \/ Proceed(c, "yes")
      \/ ~Kept(cid(c)) /\ Return(c, "done")
      \/ Raise(c, Plain)
      \/ \E body \in BOOLEAN : Resend(c, "readBilling", body)
  BY DEF ReadBilling, Request, Nothing
<1>3. Found(c, "yes") \/ (~Kept(cid(c)) /\ Returns(c, "done")) \/ Stays(c) \/ Raises(c)
  BY <1>2, ProceedGoes, ReturnReturns, RaiseRaises, ResendStays DEF Found
<1>4. pc[c] = "act" /\ Grows(c) /\ call[c].method = "delete_disk" /\ Len(todo[c]) # 1
  BY <1>1, AtAStep, NothingGrows DEF Belongs
<1>5. ~Kept(cid(c)) => Truth(c, "done")'
  <2>1. ASSUME ~Kept(cid(c)) PROVE Truth(c, "done")'
    <3>1. cid(c) \in Disk /\ cid(c) = Asked(c, 1).v /\ Unkept \subseteq lost[c]
      BY <1>1, <1>4, AtAStep, DiskArgument DEF DiskMethods
    <3>2. Asked(c, 1).v \in lost[c]
      BY <2>1, <3>1 DEF Unkept
    <3> QED BY <1>1, <1>4, <3>2 DEF Truth, TrueAnswer, Asked, world
  <2> QED BY <2>1
<1> QED BY <1>1, <1>3, <1>4, <1>5, StepKeeps DEF Found

\* The billing item of a disk is cancelled.
LEMMA CancelKeeps == ASSUME DispatcherInv, NEW c \in Call, Cancel(c) PROVE DispatcherInv'
<1> DEFINE y == <<"declined", cid(c)>>
<1>1. At(c, "cancel") /\ UNCHANGED <<call, exit, out>>
  BY DEF Cancel, Request
<1>2. /\ UNCHANGED world \/ CancelItem(c) \/ DoesOnly(c, y)
      /\ \/ (CancelItem(c) \/ DoesOnly(c, y)) /\ Proceed(c, "done")
         \/ Raise(c, Plain)
         \/ \E body \in BOOLEAN : Resend(c, "cancel", body)
  BY DEF Cancel, Request, Declined
<1>3. ((CancelItem(c) \/ DoesOnly(c, y)) /\ Found(c, "done")) \/ Stays(c) \/ Raises(c)
  BY <1>2, ProceedGoes, RaiseRaises, ResendStays DEF Found
<1>4. /\ pc[c] = "act" /\ call[c].method = "delete_disk" /\ call[c].form = "whole"
      /\ NewConfigFromPath(call[c].config) /\ Running(c)
      /\ cid(c) = Asked(c, 1).v /\ IsNumber(Asked(c, 1)) /\ cid(c) \in Disk
  BY <1>1, AtAStep, Arguments, DiskArgument DEF Belongs, CidMethods, DiskMethods, Running
<1>5. ASSUME CancelItem(c) PROVE Grows(c) /\ Truth(c, "done")'
  <2>1. disk' = [disk EXCEPT ![cid(c)].state = "cancelled"] /\ Observe
        /\ did' = [did EXCEPT ![c] = @ \cup {<<"cancel", cid(c)>>}]
    BY <1>5 DEF CancelItem, Does
  <2>2. /\ disk' = [d \in Disk |-> [place |-> disk'[d].place, state |-> disk'[d].state]]
        /\ disk'[cid(c)].state = "cancelled"
    BY <1>4, <2>1, SMTT(30) DEF DispatcherInv, Kinds
  <2>3. Widens
    BY <2>1, <2>2, ObserveWidens
  <2>4. EffectAsked(c, <<"cancel", cid(c)>>)
    BY <1>4 DEF EffectAsked
  <2>5. cid(c) \in Unkept'
    BY <1>4, <2>2 DEF Unkept, Kept
  <2>6. Asked(c, 1).v \in lost'[c]
    BY <1>4, <2>3, <2>5 DEF Widens, SeesOn
  <2>7. Truth(c, "done")'
    BY <1>1, <1>4, <2>6 DEF Truth, TrueAnswer, Asked
  <2> QED BY <2>1, <2>3, <2>4, <2>7 DEF Grows
<1>6. ASSUME DoesOnly(c, y) PROVE Grows(c) /\ Truth(c, "done")'
  <2>1. EffectAsked(c, y)
    BY <1>4 DEF EffectAsked
  <2>2. y \in did'[c]
    BY <1>6 DEF DoesOnly, Does, DispatcherInv, Kinds
  <2>3. Truth(c, "done")'
    BY <1>1, <1>4, <2>2 DEF Truth, TrueAnswer, Asked
  <2> QED BY <1>6, <2>1, <2>3, NotedGrows DEF DoesOnly, Does
<1>7. Grows(c)
  BY <1>2, <1>5, <1>6, NothingGrows
<1> QED BY <1>1, <1>3, <1>4, <1>5, <1>6, <1>7, StepKeeps DEF Found

\* A volume is ordered.
LEMMA CreateVolumeKeeps ==
  ASSUME DispatcherInv, NEW c \in Call, CreateVolume(c) PROVE DispatcherInv'
<1>1. At(c, "createVolume") /\ UNCHANGED <<call, exit, out>>
  BY DEF CreateVolume, Request
<1>2. PICK next, place :
        /\ place = IF args(c)[3] = 0 THEN object(c) ELSE Place[args(c)[3]]
        /\ \/ UNCHANGED world
           \/ /\ disk' = [disk EXCEPT ![next] = [state |-> "ready", place |-> place]]
              /\ Does(c, <<"create", next, place>>) /\ Observe
        /\ \/ Does(c, <<"create", next, place>>) /\ Proceed(c, next)
           \/ Raise(c, Plain)
           \/ \E body \in BOOLEAN : Resend(c, "createVolume", body)
  BY DEF CreateVolume, Request
<1> DEFINE x == <<"create", next, place>>
<1>3. (Does(c, x) /\ Found(c, next)) \/ Stays(c) \/ Raises(c)
  BY <1>2, ProceedGoes, RaiseRaises, ResendStays DEF Found
<1>4. /\ pc[c] = "act" /\ call[c].method = "create_disk" /\ call[c].form = "whole"
      /\ NewConfigFromPath(call[c].config)
      /\ args(c)[3] = Asked(c, 3).v /\ IsNumber(Asked(c, 3))
      /\ args(c)[3] = 0 => object(c) = Asked(c, 2).v
  BY <1>1, AtAStep, Arguments DEF Belongs
<1>5. EffectAsked(c, x)
  <2>1. x[1] = "create" /\ x[3] = IF Asked(c, 3).v = 0 THEN Asked(c, 2).v ELSE Place[Asked(c, 3).v]
    BY <1>2, <1>4
  <2> QED BY <1>4, <2>1 DEF EffectAsked
<1>6. Grows(c)
  <2>1. CASE UNCHANGED world
    BY <2>1, NothingGrows
  <2>2. CASE /\ disk' = [disk EXCEPT ![next] = [state |-> "ready", place |-> place]]
             /\ Does(c, x) /\ Observe
    <3>1. disk' = [d \in Disk |-> [place |-> disk'[d].place, state |-> disk'[d].state]]
      BY <2>2 DEF DispatcherInv, Kinds
    <3> QED BY <1>5, <2>2, <3>1, ObserveWidens DEF Grows, Does
  <2> QED BY <1>2, <2>1, <2>2
<1>7. Does(c, x) => Truth(c, next)'
  <2>1. ASSUME Does(c, x) PROVE Truth(c, next)'
    <3>1. x \in did'[c] /\ x[1] = "create" /\ x[2] = next
      BY <2>1 DEF Does, DispatcherInv, Kinds
    <3> HIDE DEF x
    <3> QED BY <1>1, <1>4, <3>1 DEF Truth, TrueAnswer
  <2> QED BY <2>1
<1> QED BY <1>1, <1>3, <1>4, <1>6, <1>7, StepKeeps DEF Found

\* A snapshot is taken, or the volume is not ready for it.
LEMMA CreateSnapshotKeeps ==
  ASSUME DispatcherInv, NEW c \in Call, CreateSnapshot(c) PROVE DispatcherInv'
<1>1. At(c, "createSnapshot") /\ UNCHANGED <<call, exit, out>>
  BY DEF CreateSnapshot, Request, vars
<1>2. PICK p :
        /\ \/ UNCHANGED world
           \/ Does(c, <<"snapshot", p>>) /\ UNCHANGED <<guests, disk, seen, lost>>
        /\ \/ Does(c, <<"snapshot", p>>) /\ Proceed(c, p)
           \/ Raise(c, Plain)
           \/ \E body \in BOOLEAN : Resend(c, "createSnapshot", body)
           \/ UNCHANGED <<pc, todo, response>>
  <2>1. CASE disk[cid(c)].state = "provisioning"
    BY <2>1 DEF CreateSnapshot, vars, world
  <2>2. CASE disk[cid(c)].state # "provisioning"
    BY <2>2 DEF CreateSnapshot, Request
  <2> QED BY <2>1, <2>2
<1> DEFINE x == <<"snapshot", p>>
<1>3. (Does(c, x) /\ Found(c, p)) \/ Stays(c) \/ Raises(c)
  BY <1>2, ProceedGoes, RaiseRaises, ResendStays DEF Found, Stays
<1>4. /\ pc[c] = "act" /\ call[c].method = "snapshot_disk" /\ call[c].form = "whole"
      /\ NewConfigFromPath(call[c].config) /\ IsNumber(Asked(c, 1))
  BY <1>1, AtAStep, Arguments DEF Belongs, CidMethods
<1>5. EffectAsked(c, x)
  BY <1>4 DEF EffectAsked
<1>6. Grows(c)
  BY <1>2, <1>5, NothingGrows, NotedGrows DEF Does
<1>7. Does(c, x) => Truth(c, p)'
  <2>1. ASSUME Does(c, x) PROVE Truth(c, p)'
    <3>1. x \in did'[c]
      BY <2>1 DEF Does, DispatcherInv, Kinds
    <3> QED BY <1>1, <1>4, <3>1 DEF Truth, TrueAnswer
  <2> QED BY <2>1
<1> QED BY <1>1, <1>3, <1>4, <1>6, <1>7, StepKeeps DEF Found

\* The tags are taken from the metadata, or the process panics.
LEMMA ExtractTagsFromVMMetadataKeeps ==
  ASSUME DispatcherInv, NEW c \in Call, ExtractTagsFromVMMetadata(c) PROVE DispatcherInv'
<1>1. At(c, "EXTRACT TAGS") /\ UNCHANGED <<call, out>> /\ UNCHANGED world
  BY DEF ExtractTagsFromVMMetadata, Local
<1>2. pc[c] = "act" /\ Len(todo[c]) # 1 /\ Grows(c)
  BY <1>1, AtAStep, NothingGrows DEF Belongs
<1>3. (Proceed(c, "done") /\ UNCHANGED exit) \/ HandlePanic(c)
  BY DEF ExtractTagsFromVMMetadata
<1>4. Goes(c)
  BY <1>1, <1>2, <1>3, ProceedGoes DEF Goes, HandlePanic, Exit, Forget, Panics
<1> QED BY <1>2, <1>4, GoesKeeps

\* The same for the notes of a disk.
LEMMA GenerateNotesFromDiskMetadataKeeps ==
  ASSUME DispatcherInv, NEW c \in Call, GenerateNotesFromDiskMetadata(c) PROVE DispatcherInv'
<1>1. At(c, "GENERATE NOTES") /\ UNCHANGED <<call, out>> /\ UNCHANGED world
  BY DEF GenerateNotesFromDiskMetadata, Local
<1>2. pc[c] = "act" /\ Len(todo[c]) # 1 /\ Grows(c)
  BY <1>1, AtAStep, NothingGrows DEF Belongs
<1>3. (Proceed(c, "done") /\ UNCHANGED exit) \/ HandlePanic(c)
  BY DEF GenerateNotesFromDiskMetadata
<1>4. Goes(c)
  BY <1>1, <1>2, <1>3, ProceedGoes DEF Goes, HandlePanic, Exit, Forget, Panics
<1> QED BY <1>2, <1>4, GoesKeeps

\* An action says that it does not do this, or not so.
LEMMA RefuseKeeps == ASSUME DispatcherInv, NEW c \in Call, Refuse(c) PROVE DispatcherInv'
<1>1. /\ At(c, "NOT SUPPORTED") \/ At(c, "INVALID")
      /\ UNCHANGED <<call, exit, out>> /\ UNCHANGED world /\ \E e : Raise(c, e)
  BY DEF Refuse, Local
<1>2. pc[c] = "act" /\ Grows(c)
  BY <1>1, AtAStep, NothingGrows
<1>3. Raises(c)
  BY <1>1, RaiseRaises
<1> QED BY <1>1, <1>2, <1>3, StepKeeps

\* A call that another module models.
LEMMA ElsewhereKeeps == ASSUME DispatcherInv, NEW c \in Call, Elsewhere(c) PROVE DispatcherInv'
<1>1. At(c, "elsewhere") /\ UNCHANGED <<call, out>> /\ UNCHANGED world
  BY DEF Elsewhere, Local
<1>2. pc[c] = "act" /\ Grows(c) /\ \A v : Truth(c, v)'
  BY <1>1, AtAStep, NothingGrows, NothingTold DEF Belongs
<1>3. \/ UNCHANGED exit /\ (Proceed(c, "done") \/ \E e : Raise(c, e))
      \/ HandlePanic(c)
  BY DEF Elsewhere
<1>4. Goes(c)
  BY <1>1, <1>2, <1>3, ProceedGoes, RaiseRaises DEF Goes, HandlePanic, Exit, Forget, Panics
<1> QED BY <1>2, <1>4, GoesKeeps

-----------------------------------------------------------------------------
(* A process up to its action and after it.                                *)

\* Programs that have a step are sequences of them.
Steppings == {HasVM, RebootVM, SetVMMetadata, HasDisk, DeleteDisk, SetDiskMetadata, SnapshotDisk,
              DeleteSnapshotProgram, GetDisks, ConfigureNetworks,
              <<"findVM", "createVolume">>, <<"createVolume">>, <<"INVALID">>,
              <<"findImage">>, <<"elsewhere">>}
LEMMA SteppingsAreSequences == \A p \in Steppings : p \in Seq(Step) /\ p # <<>>
<1>1. HasVM \in Seq(Step) /\ HasVM # <<>>
  BY DEF HasVM, Step
<1>2. RebootVM \in Seq(Step) /\ RebootVM # <<>>
  BY DEF RebootVM, Step
<1>3. SetVMMetadata \in Seq(Step) /\ SetVMMetadata # <<>>
  BY DEF SetVMMetadata, Step
<1>4. HasDisk \in Seq(Step) /\ HasDisk # <<>>
  BY DEF HasDisk, Step
<1>5. DeleteDisk \in Seq(Step) /\ DeleteDisk # <<>>
  BY DEF DeleteDisk, Step
<1>6. SetDiskMetadata \in Seq(Step) /\ SetDiskMetadata # <<>>
  BY DEF SetDiskMetadata, Step
<1>7. SnapshotDisk \in Seq(Step) /\ SnapshotDisk # <<>>
  BY DEF SnapshotDisk, Step
<1>8. DeleteSnapshotProgram \in Seq(Step) /\ DeleteSnapshotProgram # <<>>
  BY DEF DeleteSnapshotProgram, Step
<1>9. GetDisks \in Seq(Step) /\ GetDisks # <<>>
  BY DEF GetDisks, Step
<1>10. ConfigureNetworks \in Seq(Step) /\ ConfigureNetworks # <<>>
  BY DEF ConfigureNetworks, Step
<1>11. <<"findVM", "createVolume">> \in Seq(Step) /\ <<"findVM", "createVolume">> # <<>>
  BY DEF Step
<1>12. <<"createVolume">> \in Seq(Step) /\ <<"createVolume">> # <<>>
  BY DEF Step
<1>13. <<"INVALID">> \in Seq(Step) /\ <<"INVALID">> # <<>>
  BY DEF Step
<1>14. <<"findImage">> \in Seq(Step) /\ <<"findImage">> # <<>>
  BY DEF Step
<1>15. <<"elsewhere">> \in Seq(Step) /\ <<"elsewhere">> # <<>>
  BY DEF Step
<1> QED BY <1>1, <1>2, <1>3, <1>4, <1>5, <1>6, <1>7, <1>8, <1>9, <1>10,
          <1>11, <1>12, <1>13, <1>14, <1>15 DEF Steppings

\* A program is a sequence of steps, and an action without one tells nothing.
LEMMA Programs ==
  ASSUME NEW c, call[c].method \in AvailableActions
  PROVE  /\ Program(c) \in Seq(Step)
         /\ Program(c) = <<>> => call[c].method \notin Telling
<1> DEFINE m == call[c].method
           p == Program(c)
<1>1. CASE m \in {"delete_stemcell", "info", "ping"}
  <2>1. p = <<>>
    BY <1>1 DEF Program, DeleteStemcell, Info, Ping
  <2> QED BY <1>1, <2>1 DEF Telling
<1>2. CASE m \notin {"delete_stemcell", "info", "ping"}
  <2>1. \/ p = HasVM \/ p = RebootVM \/ p = SetVMMetadata \/ p = HasDisk \/ p = CreateDisk(c)
        \/ p = DeleteDisk \/ p = SetDiskMetadata \/ p = SnapshotDisk
        \/ p = DeleteSnapshotProgram \/ p = GetDisks \/ p = CreateStemcell(c)
        \/ p = ConfigureNetworks \/ p = <<"elsewhere">>
    BY <1>2 DEF Program
  <2>2. CreateDisk(c) \in {<<"findVM", "createVolume">>, <<"createVolume">>, <<"INVALID">>}
    BY DEF CreateDisk
  <2>3. CreateStemcell(c) \in {<<"findImage">>, <<"elsewhere">>, <<"INVALID">>}
    BY DEF CreateStemcell
  <2>4. p \in Steppings
    BY <2>1, <2>2, <2>3 DEF Steppings
  <2> QED BY <2>4, SteppingsAreSequences, SMTT(30)
<1> QED BY <1>1, <1>2

\* A step of one process, which the others have no part in.
LEMMA OwnStepKeeps ==
  ASSUME DispatcherInv, NEW c \in Call, Kinds', CallInv(c)', \A b \in Call : b # c => Bystander(b)
  PROVE  DispatcherInv'
<1>1. \A b \in Call : b # c => CallInv(b)'
  BY BystanderKeeps
<1> QED BY <1>1 DEF DispatcherInv

\* The director starts a process.
LEMMA StartKeeps ==
  ASSUME DispatcherInv, NEW c \in Call, NEW given \in Calls[c], Start(c, given)
  PROVE  DispatcherInv'
<1>1. Visible' = Visible /\ Unkept' = Unkept
  BY DEF Start, Visible, Unkept, Shown, Kept
<1>2. /\ call'[c] = given /\ seen'[c] = Visible /\ lost'[c] = Unkept
      /\ \/ pc'[c] = "dispatch" /\ NewConfigFromPath(given.config)
         \/ pc'[c] = "exited" /\ exit'[c] = 1
  BY DEF Start, Exit, DispatcherInv, Kinds
<1>3. did'[c] = {} /\ out'[c] = "nothing"
  BY DEF Start, DispatcherInv, CallInv, Effects, Exits
<1>4. Kinds'
  BY DEF Start, Exit, DispatcherInv, Kinds
<1>5. Known(c)' /\ Acting(c)'
  BY <1>2 DEF Known, Acting
<1>6. Effects(c)' /\ Sees(c)'
  BY <1>1, <1>2, <1>3 DEF Effects, Sees
<1>7. Answers(c)' /\ Exits(c)'
  BY <1>2, <1>3 DEF Answers, Exits
<1>8. ASSUME NEW b \in Call, b # c PROVE Bystander(b)
  <2>1. Sees(b)
    BY DEF DispatcherInv, CallInv
  <2>2. seen'[b] = seen[b] /\ lost'[b] = lost[b]
    BY <1>8 DEF Start, DispatcherInv, Kinds
  <2>3. SeesOn(b)
    BY <1>1, <2>1, <2>2 DEF SeesOn, Sees
  <2> QED BY <1>8, <2>3 DEF Start, Exit, DispatcherInv, Kinds, Bystander
<1> QED BY <1>4, <1>5, <1>6, <1>7, <1>8, OwnStepKeeps DEF CallInv

\* What a process keeps that changes nothing at SoftLayer.
LEMMA SameWorld ==
  ASSUME DispatcherInv, NEW c \in Call, UNCHANGED <<call, world>>, Running(c)
  PROVE  /\ Known(c) /\ pc'[c] \in {"dispatch", "act", "write", "exited"} => Known(c)'
         /\ pc'[c] # "idle" => Effects(c)'
         /\ Sees(c)' /\ \A b \in Call : SeesOn(b)
<1>1. CallInv(c) /\ Widens
  BY NothingGrows DEF Grows, DispatcherInv
<1>2. pc'[c] \in {"dispatch", "act", "write", "exited"} => Known(c)'
  <2>1. call[c] \in Calls[c]
    BY <1>1 DEF CallInv, Known, Running
  <2>2. pc[c] \in {"dispatch", "act", "write"}
    BY DEF Running, DispatcherInv, Kinds
  <2>3. NewConfigFromPath(call[c].config)
    BY <1>1, <2>2 DEF CallInv, Known
  <2> QED BY <2>1, <2>3 DEF Known
<1>3. pc'[c] # "idle" => Effects(c)'
  BY <1>1 DEF CallInv, Effects, EffectAsked, Asked, world
<1>4. Sees(c)' /\ \A b \in Call : SeesOn(b)
  BY <1>1 DEF Sees, Widens, SeesOn
<1> QED BY <1>2, <1>3, <1>4

\* The request cannot be read.
LEMMA ReadFailsKeeps == ASSUME DispatcherInv, NEW c \in Call, ReadFails(c) PROVE DispatcherInv'
<1>1. UNCHANGED <<call, out, world>> /\ Running(c)
  BY DEF ReadFails, Running
<1>2. pc'[c] = "exited" /\ exit'[c] = 1 /\ out'[c] = "nothing"
  BY DEF ReadFails, Exit, DispatcherInv, Kinds, CallInv, Exits
<1>3. Kinds'
  BY DEF ReadFails, Exit, DispatcherInv, Kinds, world
<1>4. Known(c)' /\ Effects(c)' /\ Sees(c)' /\ \A b \in Call : SeesOn(b)
  BY <1>1, <1>2, SameWorld DEF DispatcherInv, CallInv
<1>5. Acting(c)' /\ Answers(c)' /\ Exits(c)'
  BY <1>2 DEF Acting, Answers, Exits
<1>6. \A b \in Call : b # c => Bystander(b)
  BY <1>4 DEF ReadFails, Exit, DispatcherInv, Kinds, Bystander, world
<1> QED BY <1>3, <1>4, <1>5, <1>6, OwnStepKeeps DEF CallInv

\* The response is written, whole or cut short.
LEMMA WriteKeeps == ASSUME DispatcherInv, NEW c \in Call, Write(c) PROVE DispatcherInv'
<1>1. UNCHANGED <<call, response, world>> /\ Running(c) /\ pc[c] = "write"
  BY DEF Write, Running
<1>2. /\ pc'[c] = "exited"
      /\ (exit'[c] = 0 /\ out'[c] = "whole") \/ (exit'[c] = 1 /\ out'[c] = "cut")
  BY DEF Write, Exit, DispatcherInv, Kinds
<1>3. Kinds'
  BY DEF Write, Exit, DispatcherInv, Kinds, world
<1>4. Known(c)' /\ Effects(c)' /\ Sees(c)' /\ \A b \in Call : SeesOn(b)
  BY <1>1, <1>2, SameWorld DEF DispatcherInv, CallInv
<1>5. Acting(c)' /\ Exits(c)'
  BY <1>2 DEF Acting, Exits
<1>6. Answers(c)'
  <2>1. PICK v : v = response[c].result
    OBVIOUS
  <2>2. response[c].error = None => Truth(c, v)
    BY <1>1, <2>1 DEF DispatcherInv, CallInv, Answers
  <2>3. Truth(c, v) => Truth(c, v)'
    BY <1>1, TruthStays DEF world
  <2>4. v = response'[c].result /\ response'[c] = response[c]
    BY <1>1, <2>1
  <2> QED BY <2>2, <2>3, <2>4 DEF Answers
<1>7. \A b \in Call : b # c => Bystander(b)
  BY <1>4 DEF Write, Exit, DispatcherInv, Kinds, Bystander, world
<1> QED BY <1>3, <1>4, <1>5, <1>6, <1>7, OwnStepKeeps DEF CallInv

\* The request is refused, answered at once, or given to its action.
LEMMA DispatchKeeps == ASSUME DispatcherInv, NEW c \in Call, Dispatch(c) PROVE DispatcherInv'
<1> DEFINE m == call[c].method
           begins == /\ pc' = [pc EXCEPT ![c] = "act"]
                     /\ todo' = [todo EXCEPT ![c] = Program(c)]
                     /\ UNCHANGED response
                     /\ WellFormed(c) /\ Program(c) # <<>>
<1>1. UNCHANGED <<call, exit, out, world>> /\ Running(c) /\ pc[c] = "dispatch"
  BY DEF Dispatch, Running
<1>2. Raises(c) \/ (Returns(c, "done") /\ m \notin Telling) \/ begins
  <2>1. \A r : r.error # None /\ Respond(c, r) => Raises(c)
    BY DEF Respond, Forget, Raises, Ends
  <2>2. BuildCpiError.error # None /\ BuildNotImplementedError.error # None
    BY DispatcherAssumption DEF BuildCpiError, BuildNotImplementedError
  <2>3. CASE call[c].form # "whole" \/ m \notin AvailableActions
    BY <2>1, <2>2, <2>3 DEF Dispatch
  <2>4. CASE call[c].form = "whole" /\ m \in AvailableActions
    <3>1. CASE ~ExtractMethodArgs(m, call[c].args).ok
      BY <2>4, <3>1, RaiseRaises DEF Dispatch
    <3>2. CASE ExtractMethodArgs(m, call[c].args).ok
      <4>1. WellFormed(c)
        BY <2>4, <3>2 DEF WellFormed
      <4>2. CASE Program(c) = <<>>
        BY <2>4, <3>2, <4>2, Programs, ReturnReturns DEF Dispatch
      <4>3. CASE Program(c) # <<>>
        BY <2>4, <3>2, <4>1, <4>3 DEF Dispatch
      <4> QED BY <4>2, <4>3
    <3> QED BY <3>1, <3>2
  <2> QED BY <2>3, <2>4
<1>3. pc'[c] \in {"write", "act"} /\ out'[c] = "nothing"
  <2>1. out[c] = "nothing"
    BY <1>1 DEF DispatcherInv, CallInv, Exits
  <2> QED BY <1>1, <1>2, <2>1 DEF Raises, Returns, Ends, DispatcherInv, Kinds
<1>4. Kinds'
  <2>1. /\ pc' \in [Call -> {"idle", "dispatch", "act", "write", "exited"}]
        /\ todo' = [b \in Call |-> todo'[b]] /\ response' = [b \in Call |-> response'[b]]
    BY <1>2 DEF Raises, Returns, Ends, DispatcherInv, Kinds
  <2> QED BY <1>1, <2>1 DEF DispatcherInv, Kinds, world
<1>5. Known(c)' /\ Effects(c)' /\ Sees(c)' /\ \A b \in Call : SeesOn(b)
  BY <1>1, <1>3, SameWorld DEF DispatcherInv, CallInv
<1>6. Exits(c)'
  BY <1>3 DEF Exits
<1>7. ASSUME Raises(c) PROVE Acting(c)' /\ Answers(c)'
  <2>1. pc'[c] = "write" /\ response'[c].error # None
    BY <1>7 DEF Raises, Ends, DispatcherInv, Kinds
  <2> QED BY <2>1 DEF Acting, Answers
<1>8. ASSUME Returns(c, "done"), m \notin Telling PROVE Acting(c)' /\ Answers(c)'
  <2>1. pc'[c] = "write"
    BY <1>8 DEF Returns, Ends, DispatcherInv, Kinds
  <2>2. \A v : Truth(c, v)'
    BY <1>1, <1>8, NothingTold
  <2> QED BY <2>1, <2>2 DEF Acting, Answers
<1>9. ASSUME begins PROVE Acting(c)' /\ Answers(c)'
  <2>1. pc'[c] = "act" /\ todo'[c] = Program(c)
    BY <1>9 DEF DispatcherInv, Kinds
  <2>2. (WellFormed(c)' <=> WellFormed(c)) /\ Program(c)' = Program(c)
    BY <1>1 DEF WellFormed, Program, CreateDisk, CreateStemcell, args, object
  <2>3. Program(c) \in Seq(Step) /\ Program(c) # <<>>
    BY <1>9, Programs DEF WellFormed
  <2>4. \A p : p \in Seq(Step) /\ p # <<>> =>
           Len(p) \in 1..Len(p) /\ \A i \in 1..Len(p) : p[i] = p[Len(p) - Len(p) + i]
    OBVIOUS
  <2>5. Remaining(c)'
    BY <2>1, <2>2, <2>3, <2>4 DEF Remaining
  <2>6. Acting(c)'
    BY <1>9, <2>2, <2>5 DEF Acting
  <2>7. Answers(c)'
    BY <1>3, <2>1 DEF Answers
  <2> QED BY <2>6, <2>7
<1>10. \A b \in Call : b # c => Bystander(b)
  <2>1. \A b \in Call : b # c =>
           pc'[b] = pc[b] /\ todo'[b] = todo[b] /\ response'[b] = response[b]
    BY <1>2 DEF Raises, Returns, Ends, DispatcherInv, Kinds
  <2> QED BY <1>1, <1>5, <2>1 DEF Bystander, world
<1>11. Acting(c)' /\ Answers(c)'
  BY <1>2, <1>7, <1>8, <1>9
<1> QED BY <1>4, <1>5, <1>6, <1>10, <1>11, OwnStepKeeps DEF CallInv

-----------------------------------------------------------------------------
(* SoftLayer, and the whole.                                               *)

\* A step no process has a part in.
LEMMA WorldKeeps ==
  ASSUME DispatcherInv, UNCHANGED <<process, did>>, Widens PROVE DispatcherInv'
<1>1. \A b \in Call : Bystander(b)
  BY DEF process, Widens, Bystander
<1>2. \A b \in Call : CallInv(b)'
  BY <1>1, BystanderKeeps
<1>3. Kinds'
  BY DEF process, Widens, DispatcherInv, Kinds
<1> QED BY <1>2, <1>3 DEF DispatcherInv

\* A guest is deleted.
LEMMA DeleteGuestKeeps == ASSUME DispatcherInv, NEW g, DeleteGuest(g) PROVE DispatcherInv'
<1>1. UNCHANGED <<process, disk, did>> /\ Observe
  BY DEF DeleteGuest
<1>2. disk' = [d \in Disk |-> [place |-> disk'[d].place, state |-> disk'[d].state]]
  BY <1>1 DEF DispatcherInv, Kinds
<1> QED BY <1>1, <1>2, ObserveWidens, WorldKeeps

\* SoftLayer finishes a disk, or takes one back: none appears and none is lost
\* that was kept.
LEMMA DiskTurns ==
  ASSUME DispatcherInv, NEW d \in Disk, Provision(d) \/ Reclaim(d) PROVE DispatcherInv'
<1>1. UNCHANGED <<process, did, guests, seen, lost>>
  BY DEF Provision, Reclaim
<1>2. disk' = [e \in Disk |-> [place |-> disk'[e].place, state |-> disk'[e].state]]
  BY DEF Provision, Reclaim, DispatcherInv, Kinds
<1>3. \A e \in Disk : (Kept(e)' <=> Kept(e)) /\ (Shown(e)' => Shown(e))
  BY SMTT(30) DEF Provision, Reclaim, DispatcherInv, Kinds, Kept, Shown
<1>4. Visible' \subseteq Visible /\ Unkept' \subseteq Unkept
  BY <1>1, <1>3 DEF Visible, Unkept
<1>5. \A b \in Call : SeesOn(b)
  BY <1>1, <1>4 DEF SeesOn, DispatcherInv, CallInv, Sees
<1>6. Widens
  BY <1>1, <1>2, <1>5 DEF Widens, DispatcherInv, Kinds
<1> QED BY <1>1, <1>6, WorldKeeps

\* A step that changes nothing.
LEMMA StutterKeeps == ASSUME DispatcherInv, UNCHANGED vars PROVE DispatcherInv'
<1>1. UNCHANGED <<process, did>> /\ UNCHANGED world
  BY DEF vars, process, world
<1>2. Widens
  BY <1>1, NothingGrows DEF Grows
<1> QED BY <1>1, <1>2, WorldKeeps

\* Whatever step an action takes.
LEMMA ActKeeps == ASSUME DispatcherInv, NEW c \in Call, Act(c) PROVE DispatcherInv'
BY FindVMKeeps, FindImageKeeps, RebootKeeps, SetTagsKeeps, AllowedStorageKeeps, FindDiskKeeps,
   SetNotesKeeps, ReadBillingKeeps, CancelKeeps, CreateVolumeKeeps, CreateSnapshotKeeps,
   DeleteSnapshotKeeps, ExtractTagsFromVMMetadataKeeps, GenerateNotesFromDiskMetadataKeeps,
   RefuseKeeps, ElsewhereKeeps DEF Act

\* At first no process runs.
LEMMA DispatcherStarts == Init => DispatcherInv
<1> SUFFICES ASSUME Init PROVE DispatcherInv
  OBVIOUS
<1>1. Kinds
  BY DEF Init, Kinds
<1>2. \A c \in Call : /\ pc[c] = "idle" /\ did[c] = {} /\ out[c] = "nothing"
  BY DEF Init
<1>3. \A c \in Call : Known(c) /\ Acting(c) /\ Effects(c)
  BY <1>2 DEF Known, Acting, Effects
<1>4. \A c \in Call : Sees(c) /\ Answers(c) /\ Exits(c)
  BY <1>2 DEF Sees, Running, Answers, Exits
<1> QED BY <1>1, <1>3, <1>4 DEF DispatcherInv, CallInv

\* Every step keeps the invariant.
LEMMA DispatcherKeeps == DispatcherInv /\ [Next]_vars => DispatcherInv'
<1> SUFFICES ASSUME DispatcherInv, [Next]_vars PROVE DispatcherInv'
  OBVIOUS
<1>1. ASSUME NEW c \in Call, Advances(c) PROVE DispatcherInv'
  BY <1>1, ReadFailsKeeps, DispatchKeeps, ActKeeps, WriteKeeps DEF Advances
<1>2. ASSUME NEW c \in Call, NEW given \in Calls[c], Start(c, given) PROVE DispatcherInv'
  BY <1>2, StartKeeps
<1>3. ASSUME NEW g \in Guest, DeleteGuest(g) PROVE DispatcherInv'
  BY <1>3, DeleteGuestKeeps
<1>4. ASSUME NEW d \in Disk, Provision(d) \/ Reclaim(d) PROVE DispatcherInv'
  BY <1>4, DiskTurns
<1>5. CASE UNCHANGED vars
  BY <1>5, StutterKeeps
<1> QED BY <1>1, <1>2, <1>3, <1>4, <1>5 DEF Next

\* The inductive invariant holds in every reachable state, for any processes
\* and requests (json_caller.go, json.go and the actions' Run).
THEOREM DispatcherInductive == Spec => []DispatcherInv
BY DispatcherStarts, DispatcherKeeps, PTL DEF Spec

\* An answer that was written whole tells the truth about what the call saw
\* and did, whatever other processes and SoftLayer did meanwhile, except that a
\* request which SoftLayer answered with FALSE passes for one it obeyed.
THEOREM AnswersTrue == Spec => []AnswersAreTrue
<1>1. DispatcherInv => AnswersAreTrue
  <2> SUFFICES ASSUME DispatcherInv, NEW c \in Call, Answered(c)
      PROVE  Truth(c, response[c].result)
    BY DEF AnswersAreTrue, Truth, TrueAnswer
  <2> QED BY DEF DispatcherInv, CallInv, Answers, Answered
<1> QED BY <1>1, DispatcherInductive, PTL

\* A process changes only what its request names; a malformed one changes
\* nothing (json_caller.go, cids.go, create_disk.go).
THEOREM EffectsAsked == Spec => []EffectsAreAsked
<1>1. DispatcherInv => EffectsAreAsked
  BY DEF DispatcherInv, CallInv, Effects, EffectAsked, EffectsAreAsked
<1> QED BY <1>1, DispatcherInductive, PTL

\* The exit status tells whether a whole response was written (main.go, cli.go).
THEOREM ExitTells == Spec => []ExitTellsAnswer
<1>1. DispatcherInv => ExitTellsAnswer
  BY DEF DispatcherInv, CallInv, Exits, ExitTellsAnswer
<1> QED BY <1>1, DispatcherInductive, PTL

=============================================================================

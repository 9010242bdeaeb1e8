--------------------------- MODULE RegistryClient ---------------------------
(***************************************************************************)
(* The agent registry client and the CPI calls that use it on one guest.   *)
(* An edit is one CPI call: create_vm puts new settings, attach_disk       *)
(* fetches, edits and puts them, detach_disk does so when they exist, and  *)
(* delete_vm deletes them.  Every request is sent by doRequest up to five  *)
(* times, over a network that breaks connections: a request whose          *)
(* connection broke may reach the server all the same, and much later.     *)
(***************************************************************************)
EXTENDS Naturals, Sequences, FiniteSets, SequencesExt

CONSTANTS
    Edit,           \* the CPI calls made on the guest
    Disk,           \* the disks that are attached and detached
    NoDoc, None,
    MaxAttempts,    \* httpClientMaxAttemps
    MaxFaults,      \* bound: connections that break, requests that err
    TroubleStatus   \* what the server answers when it cannot serve a request

ASSUME RegistryAssumption ==
    /\ MaxAttempts \in Nat \ {0}
    /\ MaxFaults \in Nat
    /\ TroubleStatus \cap {200, 201} = {}

VARIABLES
    doc,       \* the document at the server: its persistent disks, or NoDoc
    kind,      \* kind[e]: what the edit does, None before it starts
    disk,      \* disk[e]: the disk of an attach or a detach
    phase,     \* phase[r]: request r = <<e, op>>, as the contract has it
    value,     \* value[r]: the document of a put, fixed when it is made
    conn,      \* conn[e]: "none", "sent" or "answered"
    status,    \* status[e]: the status answered on that connection
    attempt,   \* attempt[e]: attempts that ended in an error
    unread,    \* unread[e]: no transmission has read the request's body yet
    late,      \* late[r]: sendings that may still reach the server
    took,      \* took[r]: the server carried the request out
    seen,      \* seen[r]: the document the server read for it
    faults,
    expected,  \* the documents the director has to reckon with
    settled    \* every edit began when nothing else was on its way

Op      == {"get", "exists", "put", "delete"}
Request == Edit \X Op

net      == <<conn, status, attempt, unread, late, faults>>
server   == <<doc, took, seen>>
director == <<expected, settled>>
vars     == <<doc, kind, disk, phase, value, conn, status, attempt, unread,
              late, took, seen, faults, expected, settled>>

\* The requests an edit makes, one after the other.
Program(k) ==
    CASE k = "create" -> <<"put">>
      [] k = "attach" -> <<"get", "put">>
      [] k = "detach" -> <<"exists", "get", "put">>
      [] k = "delete" -> <<"delete">>

Kind == {"create", "attach", "detach", "delete"}

\* AttachPersistentDisk makes a map of the one disk, DetachPersistentDisk
\* deletes the disk from the map; create_vm puts a document of its own.
Edited(k, d, fetched) ==
    CASE k = "create" -> {}
      [] k = "attach" -> {d}
      [] k = "detach" -> IF fetched = NoDoc THEN NoDoc ELSE fetched \ {d}
      [] k = "delete" -> NoDoc

Failed(e)   == \E op \in Op : phase[<<e, op>>] = "failed"
\* detach_disk is done, with success, when there are no settings.
NotThere(e) == phase[<<e, "exists">>] = "ok" /\ seen[<<e, "exists">>] = NoDoc
Sent(e)     == {op \in Op : phase[<<e, op>>] # "unsent"}
Succeeded(e) ==
    /\ kind[e] # None
    /\ NotThere(e) \/ \A op \in ToSet(Program(kind[e])) : phase[<<e, op>>] = "ok"
Active(e)   == kind[e] # None /\ ~Failed(e) /\ ~Succeeded(e)
Open(e, op) == phase[<<e, op>>] = "open"
OnItsWay    == \E e \in Edit : Active(e) \/ \E op \in Op : late[<<e, op>>] > 0

Init ==
    /\ doc \in {NoDoc, {}, Disk}
    /\ kind = [e \in Edit |-> None]
    /\ disk = [e \in Edit |-> None]
    /\ phase = [r \in Request |-> "unsent"]
    /\ value = [r \in Request |-> NoDoc]
    /\ conn = [e \in Edit |-> "none"]
    /\ status = [e \in Edit |-> 0]
    /\ attempt = [e \in Edit |-> 0]
    /\ unread = [e \in Edit |-> FALSE]
    /\ late = [r \in Request |-> 0]
    /\ took = [r \in Request |-> FALSE]
    /\ seen = [r \in Request |-> NoDoc]
    /\ faults = 0
    /\ expected = {doc}
    /\ settled = TRUE

-----------------------------------------------------------------------------
(* The edits.                                                              *)

\* A CPI call begins.
Start(e, k, d) ==
    /\ kind[e] = None
    /\ kind' = [kind EXCEPT ![e] = k]
    /\ disk' = [disk EXCEPT ![e] = d]
    /\ settled' = (settled /\ ~OnItsWay)
    /\ UNCHANGED <<server, net, phase, value, expected>>

\* Fetch, IsExist, Update and Delete make one request object each: a PUT
\* with the marshalled document for a body, the others with none.
NewRequest(e, op) ==
    /\ Active(e) /\ \A o \in Op : ~Open(e, o)
    /\ op = Program(kind[e])[Cardinality(Sent(e)) + 1]
    /\ phase' = [phase EXCEPT ![<<e, op>>] = "open"]
    /\ value' = [value EXCEPT ![<<e, op>>] =
                    IF op = "put" THEN Edited(kind[e], disk[e], seen[<<e, "get">>]) ELSE NoDoc]
    /\ unread' = [unread EXCEPT ![e] = TRUE]
    /\ attempt' = [attempt EXCEPT ![e] = 0]
    /\ UNCHANGED <<server, director, kind, disk, conn, status, late, faults>>

\* What the director concludes of an answer: a success made the edit, after
\* an error it was made or not.
Edits(e) == {Edited(kind[e], disk[e], x) : x \in expected}
Conclude(e, op) ==
    /\ expected' = CASE op \notin {"put", "delete"} -> expected
                     [] op \in {"put", "delete"} /\ phase'[<<e, op>>] = "ok" -> Edits(e)
                     [] OTHER -> expected \cup Edits(e)
    /\ UNCHANGED settled

Answer(e, op, result) ==
    /\ phase' = [phase EXCEPT ![<<e, op>>] = result]
    /\ conn' = [conn EXCEPT ![e] = "none"]
    /\ status' = [status EXCEPT ![e] = 0]
    /\ Conclude(e, op)
    /\ UNCHANGED <<server, kind, disk, value, attempt, unread, late, faults>>

-----------------------------------------------------------------------------
(* doRequest.                                                              *)

Faulty == faults < MaxFaults /\ faults' = faults + 1

\* An https client needs its key pair and certificates.
HttpClientFails(e, op) ==
    /\ Open(e, op) /\ attempt[e] = 0 /\ conn[e] = "none" /\ unread[e]
    /\ Faulty
    /\ phase' = [phase EXCEPT ![<<e, op>>] = "failed"]
    /\ UNCHANGED <<server, director, kind, disk, value, conn, status, attempt, unread, late>>

CanTransmitAgain(e, op) == TRUE    \* a body that is rewound
CanTransmit(e, op)      == op = "put" => unread[e]

Transmit(e, op) ==
    /\ Open(e, op) /\ conn[e] = "none" /\ attempt[e] < MaxAttempts
    /\ CanTransmit(e, op)
    /\ conn' = [conn EXCEPT ![e] = "sent"]
    /\ unread' = [unread EXCEPT ![e] = FALSE]
    /\ UNCHANGED <<server, director, kind, disk, phase, value, status, attempt, late, faults>>

\* An attempt that sends nothing: the dial failed, which leaves the body
\* unread, or the body is used up and shorter than its ContentLength.
AttemptFailsUncounted(e, op) ==    \* a retry that is not counted
    /\ Open(e, op) /\ conn[e] = "none" /\ attempt[e] < MaxAttempts
    /\ IF CanTransmit(e, op) THEN Faulty ELSE UNCHANGED faults
    /\ UNCHANGED <<server, director, kind, disk, phase, value, conn, status, attempt, unread, late>>
AttemptFails(e, op) ==
    /\ Open(e, op) /\ conn[e] = "none" /\ attempt[e] < MaxAttempts
    /\ IF CanTransmit(e, op) THEN Faulty ELSE UNCHANGED faults
    /\ attempt' = [attempt EXCEPT ![e] = @ + 1]
    /\ UNCHANGED <<server, director, kind, disk, phase, value, conn, status, unread, late>>

\* The connection breaks, before or after the server has the request.
Break(e, op) ==
    /\ Open(e, op) /\ conn[e] # "none" /\ Faulty
    /\ conn' = [conn EXCEPT ![e] = "none"]
    /\ attempt' = [attempt EXCEPT ![e] = @ + 1]
    /\ late' = [late EXCEPT ![<<e, op>>] =
                  IF conn[e] = "sent" /\ op \in {"put", "delete"} THEN @ + 1 ELSE @]
    /\ UNCHANGED <<server, director, kind, disk, phase, value, status, unread>>

GiveUp(e, op) ==
    /\ Open(e, op) /\ attempt[e] = MaxAttempts /\ conn[e] = "none"
    /\ Answer(e, op, "failed")

-----------------------------------------------------------------------------
(* The server: a document that is not there is status 500, as "Workaround  *)
(* for Bosh::Registry::InstanceNotFound error return 500 simply" has it.   *)

Carry(r) ==
    /\ took' = [took EXCEPT ![r] = @ \/ r[2] # "delete" \/ doc # NoDoc]
    /\ doc' = CASE r[2] = "put" -> value[r]
                [] r[2] = "delete" -> NoDoc
                [] OTHER -> doc
    /\ seen' = IF r[2] \in {"get", "exists"} THEN [seen EXCEPT ![r] = doc] ELSE seen

Serve(e, op) ==
    /\ Open(e, op) /\ conn[e] = "sent"
    /\ Carry(<<e, op>>)
    /\ conn' = [conn EXCEPT ![e] = "answered"]
    /\ status' = [status EXCEPT ![e] = IF op # "put" /\ doc = NoDoc THEN 500 ELSE 200]
    /\ UNCHANGED <<director, kind, disk, phase, value, attempt, unread, late, faults>>

Trouble(e, op) ==
    /\ Open(e, op) /\ conn[e] = "sent" /\ Faulty
    /\ conn' = [conn EXCEPT ![e] = "answered"]
    /\ \E s \in TroubleStatus : status' = [status EXCEPT ![e] = s]
    /\ UNCHANGED <<server, director, kind, disk, phase, value, attempt, unread, late>>

\* A request of a broken connection arrives, or is dropped.
ServeLate(r) ==
    /\ late[r] > 0
    /\ late' = [late EXCEPT ![r] = @ - 1]
    /\ Carry(r) \/ UNCHANGED server
    /\ UNCHANGED <<director, kind, disk, phase, value, conn, status, attempt, unread, faults>>

-----------------------------------------------------------------------------
(* What the four methods make of the answer.                               *)

Answered(e, op) == Open(e, op) /\ conn[e] = "answered"

\* The document of a 200 may also be cut off, or not be JSON.
Fetch(e) ==
    /\ Answered(e, "get")
    /\ \/ status[e] = 200 /\ Answer(e, "get", "ok")
       \/ status[e] # 200 /\ Answer(e, "get", "failed")
FetchUnreadable(e) ==
    /\ Answered(e, "get") /\ status[e] = 200 /\ Faulty
    /\ phase' = [phase EXCEPT ![<<e, "get">>] = "failed"]
    /\ conn' = [conn EXCEPT ![e] = "none"]
    /\ UNCHANGED <<server, director, kind, disk, value, status, attempt, unread, late>>

\* Every status 500 is "no settings".
IsExist(e) ==
    /\ Answered(e, "exists")
    /\ Answer(e, "exists", IF status[e] \in {200, 500} THEN "ok" ELSE "failed")

UpdateUnchecked(e) ==    \* any answer is a success
    /\ Answered(e, "put") /\ Answer(e, "put", "ok")
Update(e) ==
    /\ Answered(e, "put")
    /\ Answer(e, "put", IF status[e] \in {200, 201} THEN "ok" ELSE "failed")

Delete(e) ==
    /\ Answered(e, "delete")
    /\ Answer(e, "delete", IF status[e] = 200 THEN "ok" ELSE "failed")

\* The CPI process dies; what it sent may still arrive.
Crash(e, op) ==
    /\ Open(e, op) /\ Faulty
    /\ phase' = [phase EXCEPT ![<<e, op>>] = "failed"]
    /\ conn' = [conn EXCEPT ![e] = "none"]
    /\ late' = [late EXCEPT ![<<e, op>>] =
                  IF conn[e] = "sent" /\ op \in {"put", "delete"} THEN @ + 1 ELSE @]
    /\ Conclude(e, op)
    /\ UNCHANGED <<server, kind, disk, value, status, attempt, unread>>

-----------------------------------------------------------------------------
StartEdit(e) ==
    \/ \E k \in {"create", "delete"} : Start(e, k, None)
    \/ \E k \in {"attach", "detach"}, d \in Disk : Start(e, k, d)

ClientStep(e) ==
    \/ \E op \in Op : NewRequest(e, op) \/ Transmit(e, op) \/ AttemptFails(e, op) \/ GiveUp(e, op)
    \/ Fetch(e) \/ IsExist(e) \/ Update(e) \/ Delete(e)

ServerStep(e) == \E op \in Op : Serve(e, op)

AllDone == (\A e \in Edit : kind[e] # None) /\ ~OnItsWay /\ UNCHANGED vars

Next ==
    \/ AllDone
    \/ \E e \in Edit : StartEdit(e) \/ ClientStep(e) \/ ServerStep(e) \/ FetchUnreadable(e)
    \/ \E e \in Edit, op \in Op :
          HttpClientFails(e, op) \/ Break(e, op) \/ Trouble(e, op) \/ Crash(e, op)
    \/ \E r \in Request : ServeLate(r)

Spec == Init /\ [][Next]_vars

\* The client has no timeout of its own: that a call ends needs a server
\* that answers what reached it.
FairSpec == Spec /\ \A e \in Edit : WF_vars(ClientStep(e)) /\ WF_vars(ServerStep(e))

-----------------------------------------------------------------------------
(* Properties.                                                             *)

\* Types of all variables.
TypeOK ==
    /\ doc \in (SUBSET Disk) \cup {NoDoc}
    /\ kind \in [Edit -> Kind \cup {None}]
    /\ disk \in [Edit -> Disk \cup {None}]
    /\ phase \in [Request -> {"unsent", "open", "ok", "failed"}]
    /\ value \in [Request -> (SUBSET Disk) \cup {NoDoc}]
    /\ conn \in [Edit -> {"none", "sent", "answered"}]
    /\ status \in [Edit -> {0, 200, 500} \cup TroubleStatus]
    /\ attempt \in [Edit -> 0..MaxAttempts]
    /\ unread \in [Edit -> BOOLEAN]
    /\ late \in [Request -> 0..MaxAttempts]
    /\ took \in [Request -> BOOLEAN]
    /\ seen \in [Request -> (SUBSET Disk) \cup {NoDoc}]
    /\ faults \in 0..MaxFaults
    /\ expected \subseteq (SUBSET Disk) \cup {NoDoc}
    /\ settled \in BOOLEAN

\* The client keeps the contract: connections that break and are tried
\* again never turn one Update into two, nor make an answer up.
Contract == INSTANCE RegistryContract WITH
    Doc <- (SUBSET Disk) \cup {NoDoc},
    ask <- [r \in Request |-> [op |-> IF phase[r] = "unsent" THEN "none" ELSE r[2],
                               value |-> value[r]]]
KeepsContract == Contract!Spec

\* When edits neither overlap nor begin while a request of an earlier one
\* is under way, the document is what the successful ones made it: no update
\* is lost or applied twice, no deleted document comes back, and what failed
\* was made whole or not at all.
SettledEditsAreKept == settled /\ ~OnItsWay => doc \in expected

\* Every edit ends, with success or an error.
EditsEnd == \A e \in Edit : Active(e) ~> ~Active(e)
=============================================================================

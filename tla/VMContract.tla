----------------------------- MODULE VMContract -----------------------------
(***************************************************************************)
(* What the director may rely on when it keeps its guests by create_vm and *)
(* delete_vm: a create_vm that answers hands over, in that very step, a    *)
(* guest that is nobody else's and serves it; only the director takes it   *)
(* away; a delete_vm that answers leaves nothing of it.  A call that does  *)
(* not answer may have left half of its work anywhere else.                *)
(***************************************************************************)
CONSTANTS Guest, Stock, Call, None

VARIABLES
    answer,     \* answer[c]: "idle", "open", "returned", "deleted" or "failed"
    asks,       \* asks[d]: the create_vm whose guest a delete_vm is to delete
    cid,        \* cid[c]: the guest create_vm returned, or delete_vm was given
    runs,       \* runs[v]: the create_vm whose image and user data it runs
    settings,   \* settings[v]: the create_vm whose agent settings it has
    cancelled   \* cancelled[v]: the guest is given back, for ever

calls    == <<answer, asks, cid>>
guests   == <<runs, settings, cancelled>>
contract == <<answer, asks, cid, runs, settings, cancelled>>

\* The guest is out until a delete_vm succeeded; until one is asked for, it
\* is the director's, and serves.
Leased(c) == answer[c] = "returned" /\ \A d \in Call : asks[d] = c => answer[d] # "deleted"
Held(c)   == answer[c] = "returned" /\ \A d \in Call : asks[d] # c

Init ==
    /\ answer = [c \in Call |-> "idle"]
    /\ asks = [c \in Call |-> None] /\ cid = [c \in Call |-> None]
    /\ runs = [v \in Guest |-> None] /\ settings = [v \in Guest |-> None]
    /\ cancelled = [v \in Guest |-> FALSE]

-----------------------------------------------------------------------------
Answers(c, a) == answer' = [answer EXCEPT ![c] = a]

AskCreate(c) ==
    /\ answer[c] = "idle" /\ Answers(c, "open")
    /\ UNCHANGED <<asks, cid, guests>>

AskDelete(d) ==
    /\ answer[d] = "idle" /\ Answers(d, "open")
    /\ \E c \in Call :
          /\ Leased(c)
          /\ asks' = [asks EXCEPT ![d] = c] /\ cid' = [cid EXCEPT ![d] = cid[c]]
    /\ UNCHANGED guests

Return(c) ==
    /\ answer[c] = "open" /\ asks[c] = None /\ Answers(c, "returned")
    /\ \E v \in Guest :
          /\ \A b \in Call : Leased(b) => cid[b] # v
          /\ runs[v] = c /\ ~cancelled[v]
          /\ settings' = [settings EXCEPT ![v] = c] /\ cid' = [cid EXCEPT ![c] = v]
    /\ UNCHANGED <<asks, runs, cancelled>>

Deleted(d) ==
    /\ answer[d] = "open" /\ asks[d] # None /\ Answers(d, "deleted")
    /\ cancelled[cid[d]]
    /\ settings' = [settings EXCEPT ![cid[d]] = None]
    /\ UNCHANGED <<asks, cid, runs, cancelled>>

\* What calls that are under way, and calls that failed, may do to a guest
\* that nobody holds.
Run(v) ==
    /\ ~cancelled[v]
    /\ \E c \in Call \cup {None} : runs' = [runs EXCEPT ![v] = c]
    /\ UNCHANGED <<settings, cancelled>>
Settings(v) ==
    /\ \E c \in {None} \cup IF cancelled[v] THEN {} ELSE Call :
          settings' = [settings EXCEPT ![v] = c]
    /\ UNCHANGED <<runs, cancelled>>
\* A guest of the stock is cancelled only by a delete_vm.
Cancel(v) ==
    /\ v \in Stock => \E d \in Call : asks[d] # None /\ cid[d] = v
    /\ runs' = [runs EXCEPT ![v] = None] /\ cancelled' = [cancelled EXCEPT ![v] = TRUE]
    /\ UNCHANGED settings
Effect(v) ==
    /\ \A c \in Call : Held(c) => cid[c] # v
    /\ Run(v) \/ Settings(v) \/ Cancel(v)

Work(v) == Effect(v) /\ UNCHANGED calls

Fail(c) ==
    /\ answer[c] = "open" /\ Answers(c, "failed")
    /\ (\E v \in Guest : Effect(v)) \/ UNCHANGED guests
    /\ UNCHANGED <<asks, cid>>

Next ==
    \/ \E c \in Call : AskCreate(c) \/ AskDelete(c) \/ Return(c) \/ Deleted(c) \/ Fail(c)
    \/ \E v \in Guest : Work(v)

Spec == Init /\ [][Next]_contract
=============================================================================

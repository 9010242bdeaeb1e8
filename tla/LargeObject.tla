---------------------------- MODULE LargeObject ----------------------------
(***************************************************************************)
(* The segmented upload of a stemcell image to Swift                       *)
(* (swift_large_object.go): a writer goroutine (io.Copy and Close) cuts    *)
(* the file into parts and hands them to a set of worker goroutines over   *)
(* an unbuffered channel; a pool goroutine lends the buffers.  The workers *)
(* put the segments, Close publishes them with a manifest, and a failure   *)
(* makes the writer abort: list the segments and delete them.              *)
(***************************************************************************)
EXTENDS Naturals, FiniteSets

CONSTANTS
    Worker,     \* flConcurrency goroutines
    Buffer,     \* identities of the buffers the pool can make
    MaxPart,    \* bound on the parts of the file: names of two digits at most
    None,
    MayFail,    \* requests that Swift or the disk may refuse
    MayLose     \* requests that may be applied and the answer be lost

Part  == 1..MaxPart
Tries == 3      \* of a segment, and of the manifest

ASSUME UploadAssumption ==
    /\ IsFiniteSet(Worker) /\ Worker # {}
    /\ MaxPart \in 1..99
    /\ None \notin Buffer

VARIABLES
    file,       \* how many parts the file makes
    writer,     \* the next step of the writer goroutine, or its outcome
    eof,        \* io.Copy is over, Close is running
    part,       \* lo.part: parts flushed
    buf,        \* lo.buf: the buffer being filled
    pending,    \* lo.wg
    err,        \* lo.err is set
    free,       \* buffers queued in the pool
    serving,    \* the pool goroutine runs
    worker,     \* worker[w]: step, part, try and buffer of the goroutine
    stored,     \* stored[p]: the segment that Swift has of part p
    manifest,   \* the object is published
    tries,      \* attempts to put the manifest
    listed,     \* segments abort has listed and not yet tried to delete
    unheard     \* abort met an error, which is only logged

wvars == <<writer, eof, part, buf>>
swift == <<stored, manifest>>
loVars == <<file, writer, eof, part, buf, pending, err, free, serving, worker,
            stored, manifest, tries, listed, unheard>>

Idle == [step |-> "idle", part |-> 0, try |-> 0, buf |-> None]

Init ==
    /\ file \in 0..MaxPart
    /\ writer = "open" /\ eof = FALSE
    /\ part = 0 /\ buf = None /\ pending = 0 /\ err = FALSE
    /\ free = {} /\ serving = TRUE
    /\ worker = [w \in Worker |-> Idle]
    /\ stored = [p \in Part |-> "absent"]
    /\ manifest = FALSE /\ tries = 0 /\ listed = {}
    /\ unheard = FALSE

-----------------------------------------------------------------------------
(* The writer.                                                             *)

\* NewLargeObject starts pool and workers, then creates the container.
Open ==
    /\ writer = "open"
    /\ writer' = "copy" \/ ("container" \in MayFail /\ writer' = "failed")
    /\ UNCHANGED <<file, eof, part, buf, pending, err, free, serving, worker,
                   swift, tries, listed, unheard>>

\* Write looks at lo.err first.
Write ==
    /\ writer = "copy" /\ part < file
    /\ writer' = IF err THEN "list" ELSE "write"
    /\ UNCHANGED <<file, eof, part, buf, pending, err, free, serving, worker,
                   swift, tries, listed, unheard>>

\* The first Write of a part takes a buffer; the pool makes one when it has
\* none queued.  A Write is far smaller than a buffer.
InUse == (free \cup {buf} \cup {worker[w].buf : w \in Worker}) \ {None}
GetBuffer ==
    /\ writer = "write" /\ buf = None /\ serving
    /\ \E b \in IF free = {} THEN Buffer \ InUse ELSE free :
         buf' = b /\ free' = free \ {b}
    /\ writer' = "copy"
    /\ UNCHANGED <<file, eof, part, pending, err, serving, worker, swift, tries, listed, unheard>>

\* flush, by the Write that fills the buffer.
Flush ==
    /\ writer = "write" /\ buf # None
    /\ pending' = pending + 1
    /\ part' = part + 1
    /\ writer' = "send"
    /\ UNCHANGED <<file, eof, buf, err, free, serving, worker, swift, tries, listed, unheard>>

\* The file is read: io.Copy returns, and Close flushes what is buffered.
Close ==
    /\ writer = "copy" /\ eof' = TRUE
    /\ \/ buf = None /\ part = file /\ writer' = "close" /\ UNCHANGED <<pending, part>>
       \/ /\ buf # None /\ part + 1 = file
          /\ pending' = pending + 1 /\ part' = part + 1 /\ writer' = "send"
    /\ UNCHANGED <<file, buf, err, free, serving, worker, swift, tries, listed, unheard>>

\* lo.ch <- part, received by a worker.
SendKeepsBuffer(w) ==    \* no lo.buf = nil
    /\ writer = "send" /\ worker[w].step = "idle"
    /\ worker' = [worker EXCEPT ![w] =
                    [step |-> "put", part |-> part, try |-> 1, buf |-> buf]]
    /\ writer' = IF eof THEN "close" ELSE "copy"
    /\ UNCHANGED <<file, eof, part, buf, pending, err, free, serving, swift, tries,
                   listed, unheard>>
Send(w) ==
    /\ writer = "send" /\ worker[w].step = "idle"
    /\ worker' = [worker EXCEPT ![w] =
                    [step |-> "put", part |-> part, try |-> 1, buf |-> buf]]
    /\ buf' = None
    /\ writer' = IF eof THEN "close" ELSE "copy"
    /\ UNCHANGED <<file, eof, part, pending, err, free, serving, swift, tries, listed, unheard>>

\* io.Copy cannot read the file: UploadSwiftLargeObject returns at once.
ReadFails ==
    /\ "read" \in MayFail /\ writer = "copy"
    /\ writer' = "failed"
    /\ UNCHANGED <<file, eof, part, buf, pending, err, free, serving, worker,
                   swift, tries, listed, unheard>>

\* Close waits for all parts, closes the channel and stops the pool.
AllPartsDoneOrFailed == pending = 0 \/ err    \* leaves at the first error
AllPartsDone         == pending = 0
Finish ==
    /\ writer = "close" /\ AllPartsDone
    /\ serving' = FALSE
    /\ worker' = [w \in Worker |->
                    IF worker[w].step = "idle" THEN [Idle EXCEPT !.step = "left"]
                    ELSE worker[w]]
    /\ writer' = IF part = 0 \/ err THEN "list" ELSE "publish"
    /\ UNCHANGED <<file, eof, part, buf, pending, err, free, swift, tries, listed, unheard>>

\* Close puts the manifest, up to three times.
Publish ==
    /\ writer = "publish"
    /\ tries' = tries + 1
    /\ \/ manifest' = TRUE /\ writer' = "done"
       \/ /\ "publish" \in MayFail \cup MayLose
          /\ manifest' = TRUE \/ ("publish" \in MayFail /\ UNCHANGED manifest)
          /\ writer' = IF tries' = Tries THEN "list" ELSE "publish"
    /\ UNCHANGED <<file, eof, part, buf, pending, err, free, serving, worker,
                   stored, listed, unheard>>

\* abort: the names of the segments, then a delete for each.  Its errors
\* are logged; Write and Close answer the error that made them abort.
ListSegments ==
    /\ writer = "list"
    /\ \/ /\ writer' = "delete" /\ listed' = {p \in Part : stored[p] # "absent"}
          /\ UNCHANGED unheard
       \/ "list" \in MayFail /\ writer' = "failed" /\ unheard' = TRUE /\ UNCHANGED listed
    /\ UNCHANGED <<file, eof, part, buf, pending, err, free, serving, worker,
                   swift, tries>>

DeleteSegment ==
    /\ writer = "delete"
    /\ \E p \in listed :
         /\ listed' = listed \ {p}
         /\ \/ stored' = [stored EXCEPT ![p] = "absent"] /\ UNCHANGED unheard
            \/ "delete" \in MayFail /\ unheard' = TRUE /\ UNCHANGED stored
    /\ UNCHANGED <<file, wvars, pending, err, free, serving, worker, manifest, tries>>

Aborted ==
    /\ writer = "delete" /\ listed = {}
    /\ writer' = "failed"
    /\ UNCHANGED <<file, eof, part, buf, pending, err, free, serving, worker,
                   swift, tries, listed, unheard>>

-----------------------------------------------------------------------------
(* The workers: retryPutPart and putPart.                                  *)

\* A segment is named by its part in decimals, without leading zeros, and
\* Swift joins the segments of a manifest in the order of their names: "1",
\* "10", "2".
Lead(p) == IF p < 10 THEN p ELSE p \div 10
SegmentBefore(p, q) == Lead(p) < Lead(q) \/ (Lead(p) = Lead(q) /\ p < q)

\* One attempt.  A segment may be stored although the answer is an error,
\* and it may be damaged on its way: then its ETag differs.
PutAccepted(w) ==
    /\ stored' = [stored EXCEPT ![worker[w].part] = "good"]
    /\ worker' = [worker EXCEPT ![w].step = "give"]
PutRefused(w) ==
    \/ "put" \in MayFail /\ UNCHANGED stored
    \/ "put" \in MayLose /\ \E s \in {"good", "bad"} :
          stored' = [stored EXCEPT ![worker[w].part] = s]
PutPartForever(w) ==    \* the attempts are not counted
    /\ worker[w].step = "put"
    /\ PutAccepted(w) \/ (PutRefused(w) /\ UNCHANGED worker)
    /\ UNCHANGED <<file, wvars, pending, err, free, serving, manifest, tries, listed, unheard>>
PutPart(w) ==
    /\ worker[w].step = "put"
    /\ \/ PutAccepted(w)
       \/ /\ PutRefused(w)
          /\ worker' = IF worker[w].try < Tries
                       THEN [worker EXCEPT ![w].try = @ + 1]
                       ELSE [worker EXCEPT ![w].step = "fail"]
    /\ UNCHANGED <<file, wvars, pending, err, free, serving, manifest, tries, listed, unheard>>

\* lo.bp.give <- part.b, received by the pool.
GiveBuffer(w) ==
    /\ worker[w].step = "give" /\ serving
    /\ free' = free \cup {worker[w].buf}
    /\ worker' = [worker EXCEPT ![w].step = "release", ![w].buf = None]
    /\ UNCHANGED <<file, wvars, pending, err, serving, swift, tries, listed, unheard>>

\* Three attempts failed: lo.err = err.  The buffer is dropped.
FailPartTwice(w) ==    \* lo.wg.Done() here and deferred
    /\ worker[w].step = "fail"
    /\ err' = TRUE /\ pending' = pending - 1
    /\ worker' = [worker EXCEPT ![w].step = "release", ![w].buf = None]
    /\ UNCHANGED <<file, wvars, free, serving, swift, tries, listed, unheard>>
FailPart(w) ==
    /\ worker[w].step = "fail"
    /\ err' = TRUE
    /\ worker' = [worker EXCEPT ![w].step = "release", ![w].buf = None]
    /\ UNCHANGED <<file, wvars, pending, free, serving, swift, tries, listed, unheard>>

\* The deferred lo.wg.Done(); the worker waits for the next part, or ends.
NextPart(w) == IF serving THEN "idle" ELSE "left"
ReleasePart(w) ==
    /\ worker[w].step = "release"
    /\ pending' = pending - 1
    /\ worker' = [worker EXCEPT ![w] = [Idle EXCEPT !.step = NextPart(w)]]
    /\ UNCHANGED <<file, wvars, err, free, serving, swift, tries, listed, unheard>>

\* The pool frees the buffers it was not asked for in a minute.
ExpireBuffers ==
    /\ serving
    /\ \E b \in SUBSET free : b # {} /\ free' = free \ b
    /\ UNCHANGED <<file, wvars, pending, err, serving, worker, swift, tries, listed, unheard>>

WriterStep ==
    \/ Open \/ Write \/ GetBuffer \/ Flush \/ Close \/ ReadFails
    \/ Finish \/ Publish \/ ListSegments \/ DeleteSegment \/ Aborted
    \/ \E w \in Worker : Send(w)

WorkerStep(w) == PutPart(w) \/ GiveBuffer(w) \/ FailPart(w) \/ ReleasePart(w)

\* UploadSwiftLargeObject has returned and no goroutine of it can move.
Over ==
    /\ writer \in {"done", "failed"}
    /\ \A w \in Worker : worker[w].step \in {"idle", "left"}
    /\ UNCHANGED loVars

Next == WriterStep \/ (\E w \in Worker : WorkerStep(w)) \/ ExpireBuffers \/ Over

Spec == Init /\ [][Next]_loVars

-----------------------------------------------------------------------------
(* Properties.                                                             *)

WriterSteps == {"open", "copy", "write", "send", "close", "publish", "list", "delete",
                "done", "failed"}

\* Types of all variables; the wait group never goes below zero.
TypeOK ==
    /\ file \in 0..MaxPart
    /\ writer \in WriterSteps
    /\ eof \in BOOLEAN /\ err \in BOOLEAN /\ serving \in BOOLEAN /\ manifest \in BOOLEAN
    /\ part \in 0..MaxPart
    /\ pending \in Nat
    /\ buf \in Buffer \cup {None}
    /\ free \in SUBSET Buffer
    /\ worker \in [Worker -> [step : {"idle", "put", "give", "fail", "release", "left"},
                              part : 0..MaxPart, try : 0..Tries, buf : Buffer \cup {None}]]
    /\ stored \in [Part -> {"absent", "good", "bad"}]
    /\ tries \in 0..Tries
    /\ listed \in SUBSET Part
    /\ unheard \in BOOLEAN

\* A buffer has one user: the writer never fills a buffer a worker still
\* sends from, and the pool lends none twice.
BufferHasOneUser ==
    /\ buf # None => buf \notin free
    /\ \A w \in Worker : worker[w].buf # None =>
          /\ worker[w].buf \notin free
          /\ worker[w].buf # buf
          /\ \A v \in Worker \ {w} : worker[v].buf # worker[w].buf

\* When Close fails, it leaves no segment behind, unless Swift refused to
\* list or to delete: all workers are done by then, so none stores a segment
\* that the listing missed.
FailedCloseLeavesNothing ==
    writer = "failed" /\ ~serving /\ ~unheard => \A p \in Part : stored[p] = "absent"
=============================================================================

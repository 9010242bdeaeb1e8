------------------------- MODULE StemcellImportProofs -------------------------
(* Proofs about StemcellImport and the upload it runs, LargeObject, for any *)
(* number of workers, buffers, parts and requests that are refused or lost. *)
EXTENDS StemcellImport, FiniteSetTheorems, TLAPS

-----------------------------------------------------------------------------
(* The inductive invariant.                                                *)

\* The workers that have a part, and those that may still store a segment.
Busy    == {w \in Worker : worker[w].step \in {"put", "give", "fail", "release"}}
Puts(p) == \E w \in Worker : worker[w].part = p /\ worker[w].step \in {"put", "fail"}

\* Who has a buffer has one, which nobody else has.
Buffers ==
    /\ BufferHasOneUser
    /\ writer = "send" => buf # None
    /\ \A w \in Worker : worker[w].step \in {"put", "give", "fail"} => worker[w].buf # None

\* How far the writer is, and that no worker is ahead of it.
Progress ==
    /\ part <= file
    /\ writer = "open" => part = 0
    /\ writer \in {"open", "copy", "write"} => ~eof
    /\ writer = "write" => part < file
    /\ writer = "send" /\ eof => part = file
    /\ writer = "send" => part >= 1
    /\ writer \in {"close", "publish", "done"} => part = file
    /\ \A w \in Busy : worker[w].part \in 1..part
    /\ \A p \in Part : p > part => stored[p] = "absent"

\* The wait group counts the busy workers and the part that is handed over.
Waiting == pending = Cardinality(Busy) + (IF writer = "send" THEN 1 ELSE 0)

\* The workers are gone once Close has stopped the pool.
Running ==
    /\ writer \in {"open", "copy", "write", "send", "close"} => serving /\ tries = 0
    /\ writer = "publish" => tries < Tries
    /\ writer \in {"publish", "done"} => ~serving /\ ~err
    /\ ~serving => \A w \in Worker : worker[w].step = "left"

\* A part that was flushed is stored, in work, or the upload has failed.
Segments ==
    writer \in {"copy", "write", "send", "close", "publish"} =>
        \A p \in 1..part : stored[p] = "good" \/ err \/ (writer = "send" /\ p = part) \/ Puts(p)

\* What a published object has, until it is deleted.
Published ==
    writer = "done" /\ import \in {"upload", "createImage", "setBootMode", "deleteObject"} =>
        manifest /\ \A p \in 1..file : stored[p] = "good"

\* An abort after Close deletes what there is.
Aborts ==
    /\ writer = "delete" /\ ~serving /\ ~unheard =>
          \A p \in Part : stored[p] # "absent" => p \in listed
    /\ FailedCloseLeavesNothing

UploadInv == TypeOK /\ Buffers /\ Progress /\ Waiting /\ Running /\ Segments /\ Published /\ Aborts

\* Where the upload is when the import is at a step.
Stage ==
    /\ import \in {"decompress", "createContainer"} => writer = "open"
    /\ import \in {"createImage", "setBootMode"} => writer = "done"
    /\ import = "deleteObject" => writer \in {"done", "failed"}
    /\ import \in {"decompress", "createContainer", "upload", "createImage"} => image = "absent"
    /\ import = "setBootMode" => image # "absent"

\* The image is made of all parts.
HasAllParts == outcome = "imported" => image = "ready" /\ copied = 1..file
Imported ==
    /\ import = "setBootMode" /\ image = "ready" => copied = 1..file
    /\ HasAllParts

\* Object and container are deleted in this order.
CleanedUp ==
    /\ import \in {"deleteContainer", "deleteFile", "ended"} /\ ~serving /\ ~unheard
       /\ "object" \notin logged => Empty
    /\ import \in {"deleteFile", "ended"} /\ ~serving /\ ~unheard
       /\ {"object", "container"} \cap logged = {} => ~container

ImportInv == ImportTypeOK /\ UploadInv /\ Stage /\ Imported /\ CleanedUp

-----------------------------------------------------------------------------
(* The steps of the upload.                                                *)

\* What a worker is about.
Steps == {"idle", "put", "give", "fail", "release", "left"}
Work  == [step : Steps, part : 0..MaxPart, try : 0..Tries, buf : Buffer \cup {None}]

\* A worker that works has a part that was flushed, and the pool runs.
LEMMA BusyWorker ==
  ASSUME ImportInv, NEW w \in Worker, worker[w].step \in {"put", "give", "fail", "release"}
  PROVE  /\ w \in Busy /\ serving /\ worker[w].part \in 1..part /\ worker[w].part \in Part
         /\ worker \in [Worker -> Work] /\ worker[w] \in Work
         /\ writer \notin {"publish", "done"}
<1>1. w \in Busy /\ serving /\ worker[w].part \in 1..part /\ writer \notin {"publish", "done"}
  BY DEF Busy, ImportInv, UploadInv, Running, Progress
<1>2. worker \in [Worker -> Work] /\ part \in 0..MaxPart
  BY DEF ImportInv, UploadInv, TypeOK, Work, Steps
<1> QED BY <1>1, <1>2, UploadAssumption DEF Part

\* The busy workers are finitely many.
LEMMA BusyIsFinite ==
  /\ IsFiniteSet(Busy) /\ Cardinality(Busy) \in Nat
  /\ Cardinality(Busy) = 0 => Busy = {}
<1>1. IsFiniteSet(Busy)
  BY UploadAssumption, FS_Subset DEF Busy
<1> QED BY <1>1, FS_CardinalityType, FS_EmptySet

\* One worker changes, and stays busy.
LEMMA WorkerMoves ==
  ASSUME ImportInv, NEW w \in Worker, NEW x \in Work, worker' = [worker EXCEPT ![w] = x]
  PROVE  /\ worker' \in [Worker -> Work] /\ worker'[w] = x
         /\ \A v \in Worker : v # w => worker'[v] = worker[v]
         /\ w \in Busy /\ x.step \in {"put", "give", "fail", "release"} => Busy' = Busy
         /\ \A p : Puts(p)' <=> \/ \E v \in Worker \ {w} : /\ worker[v].part = p
                                                          /\ worker[v].step \in {"put", "fail"}
                                \/ x.part = p /\ x.step \in {"put", "fail"}
<1>1. worker \in [Worker -> Work]
  BY DEF ImportInv, UploadInv, TypeOK, Work, Steps
<1>2. /\ worker' \in [Worker -> Work] /\ worker'[w] = x
      /\ \A v \in Worker : v # w => worker'[v] = worker[v]
  BY <1>1
<1>3. w \in Busy /\ x.step \in {"put", "give", "fail", "release"} => Busy' = Busy
  BY <1>2 DEF Busy
<1>4. \A p : Puts(p)' <=> \/ \E v \in Worker \ {w} : /\ worker[v].part = p
                                                     /\ worker[v].step \in {"put", "fail"}
                          \/ x.part = p /\ x.step \in {"put", "fail"}
  BY <1>2 DEF Puts
<1> QED BY <1>2, <1>3, <1>4

\* The container of the segments is made.
LEMMA OpenKeeps ==
  ASSUME ImportInv, Open, UNCHANGED importVars, import = "upload"
  PROVE  ImportInv'
<1> USE DEF importVars
<1>1. Busy' = Busy /\ \A p : Puts(p)' <=> Puts(p)
  BY DEF Busy, Puts, Open, wvars
<1>2. TypeOK'
  BY <1>1, UploadAssumption DEF ImportInv, UploadInv, TypeOK, Open, wvars, swift, Part,
    WriterSteps, Tries
<1>3. Buffers'
  BY <1>1 DEF ImportInv, UploadInv, Buffers, BufferHasOneUser, Open, wvars, swift
<1>4. Progress'
  BY <1>1 DEF ImportInv, UploadInv, Progress, Open, wvars, swift
<1>5. Waiting'
  BY <1>1 DEF ImportInv, UploadInv, Waiting, Open, wvars, swift
<1>6. Running'
  BY <1>1 DEF ImportInv, UploadInv, Running, Open, wvars, swift
<1>7. Segments'
  BY <1>1 DEF ImportInv, UploadInv, Segments, Open, wvars, swift, Progress, Running
<1>8. Published'
  BY <1>1 DEF ImportInv, UploadInv, Published, Open, wvars, swift, Segments, Progress,
    Running
<1>9. Aborts'
  BY <1>1 DEF ImportInv, UploadInv, Aborts, FailedCloseLeavesNothing, Open, wvars,
    swift, Running
<1>10. ImportTypeOK'
  BY <1>2 DEF ImportInv, ImportTypeOK
<1>11. Stage'
  BY <1>1 DEF ImportInv, UploadInv, Stage, Open, wvars, swift
<1>12. Imported'
  BY <1>1 DEF ImportInv, UploadInv, Imported, HasAllParts, Open, wvars, swift,
    Stage
<1>13. CleanedUp'
  BY <1>1 DEF ImportInv, UploadInv, CleanedUp, Empty, NoSegment, Open, wvars, swift,
    Running, Stage
<1> QED BY <1>2, <1>3, <1>4, <1>5, <1>6, <1>7, <1>8, <1>9, <1>10, <1>11, <1>12, <1>13 DEF ImportInv, UploadInv

\* Write looks at the error first.
LEMMA WriteKeeps ==
  ASSUME ImportInv, Write, UNCHANGED importVars, import = "upload"
  PROVE  ImportInv'
<1> USE DEF importVars
<1>1. Busy' = Busy /\ \A p : Puts(p)' <=> Puts(p)
  BY DEF Busy, Puts, Write, wvars
<1>2. TypeOK'
  BY <1>1, UploadAssumption DEF ImportInv, UploadInv, TypeOK, Write, wvars, swift, Part,
    WriterSteps, Tries
<1>3. Buffers'
  BY <1>1 DEF ImportInv, UploadInv, Buffers, BufferHasOneUser, Write, wvars, swift
<1>4. Progress'
  BY <1>1 DEF ImportInv, UploadInv, Progress, Write, wvars, swift
<1>5. Waiting'
  BY <1>1 DEF ImportInv, UploadInv, Waiting, Write, wvars, swift
<1>6. Running'
  BY <1>1 DEF ImportInv, UploadInv, Running, Write, wvars, swift
<1>7. Segments'
  BY <1>1 DEF ImportInv, UploadInv, Segments, Write, wvars, swift, Progress, Running
<1>8. Published'
  BY <1>1 DEF ImportInv, UploadInv, Published, Write, wvars, swift, Segments, Progress,
    Running
<1>9. Aborts'
  BY <1>1 DEF ImportInv, UploadInv, Aborts, FailedCloseLeavesNothing, Write, wvars,
    swift, Running
<1>10. ImportTypeOK'
  BY <1>2 DEF ImportInv, ImportTypeOK
<1>11. Stage'
  BY <1>1 DEF ImportInv, UploadInv, Stage, Write, wvars, swift
<1>12. Imported'
  BY <1>1 DEF ImportInv, UploadInv, Imported, HasAllParts, Write, wvars, swift,
    Stage
<1>13. CleanedUp'
  BY <1>1 DEF ImportInv, UploadInv, CleanedUp, Empty, NoSegment, Write, wvars, swift,
    Running, Stage
<1> QED BY <1>2, <1>3, <1>4, <1>5, <1>6, <1>7, <1>8, <1>9, <1>10, <1>11, <1>12, <1>13 DEF ImportInv, UploadInv

\* A buffer is taken that nobody has.
LEMMA GetBufferKeeps ==
  ASSUME ImportInv, GetBuffer, UNCHANGED importVars, import = "upload"
  PROVE  ImportInv'
<1> USE DEF importVars
<1>1. Busy' = Busy /\ \A p : Puts(p)' <=> Puts(p)
  BY DEF Busy, Puts, GetBuffer, wvars
<1>2. TypeOK'
  BY <1>1, UploadAssumption DEF ImportInv, UploadInv, TypeOK, GetBuffer, wvars, swift,
    Part, WriterSteps, Tries
<1>3. Buffers'
  <2>1. /\ writer = "write" /\ buf = None /\ writer' = "copy" /\ UNCHANGED worker
        /\ \E b \in IF free = {} THEN Buffer \ InUse ELSE free : buf' = b /\ free' = free \ {b}
    BY DEF GetBuffer
  <2>2. /\ buf' \notin free' /\ \A v \in Worker : worker[v].buf # None => worker[v].buf # buf'
        /\ free' \subseteq free
    BY <2>1 DEF ImportInv, UploadInv, TypeOK, Buffers, BufferHasOneUser, InUse
  <2> QED BY <2>1, <2>2 DEF ImportInv, UploadInv, Buffers, BufferHasOneUser
<1>4. Progress'
  BY <1>1 DEF ImportInv, UploadInv, Progress, GetBuffer, wvars, swift
<1>5. Waiting'
  BY <1>1 DEF ImportInv, UploadInv, Waiting, GetBuffer, wvars, swift
<1>6. Running'
  BY <1>1 DEF ImportInv, UploadInv, Running, GetBuffer, wvars, swift
<1>7. Segments'
  BY <1>1 DEF ImportInv, UploadInv, Segments, GetBuffer, wvars, swift, Progress, Running
<1>8. Published'
  BY <1>1 DEF ImportInv, UploadInv, Published, GetBuffer, wvars, swift, Segments,
    Progress, Running
<1>9. Aborts'
  BY <1>1 DEF ImportInv, UploadInv, Aborts, FailedCloseLeavesNothing, GetBuffer, wvars,
    swift, Running
<1>10. ImportTypeOK'
  BY <1>2 DEF ImportInv, ImportTypeOK
<1>11. Stage'
  BY <1>1 DEF ImportInv, UploadInv, Stage, GetBuffer, wvars, swift
<1>12. Imported'
  BY <1>1 DEF ImportInv, UploadInv, Imported, HasAllParts, GetBuffer, wvars,
    swift, Stage
<1>13. CleanedUp'
  BY <1>1 DEF ImportInv, UploadInv, CleanedUp, Empty, NoSegment, GetBuffer, wvars,
    swift, Running, Stage
<1> QED BY <1>2, <1>3, <1>4, <1>5, <1>6, <1>7, <1>8, <1>9, <1>10, <1>11, <1>12, <1>13 DEF ImportInv, UploadInv

\* A full buffer is flushed.
LEMMA FlushKeeps ==
  ASSUME ImportInv, Flush, UNCHANGED importVars, import = "upload"
  PROVE  ImportInv'
<1> USE DEF importVars
<1>1. part \in 0..MaxPart /\ file \in 0..MaxPart /\ pending \in Nat /\ MaxPart \in Nat
      /\ Cardinality(Busy) \in Nat
  BY BusyIsFinite, UploadAssumption DEF ImportInv, UploadInv, TypeOK
<1>2. /\ writer = "write" /\ buf # None /\ part < file /\ ~eof
      /\ pending' = pending + 1 /\ part' = part + 1 /\ writer' = "send"
      /\ UNCHANGED <<file, eof, buf, err, free, serving, worker, stored, manifest, tries, listed, unheard>>
  BY DEF Flush, swift, ImportInv, UploadInv, Progress
<1>3. Busy' = Busy /\ \A p : Puts(p)' <=> Puts(p)
  BY DEF Busy, Puts, Flush, wvars
<1>4. TypeOK'
  BY <1>1, <1>2 DEF ImportInv, UploadInv, TypeOK, WriterSteps
<1>5. Buffers'
  BY <1>1, <1>2, <1>3 DEF ImportInv, UploadInv, Buffers, BufferHasOneUser, Flush, wvars,
    swift
<1>6. Progress'
  <2>1. part' <= file /\ part' >= 1
    BY <1>1, <1>2
  <2>2. \A v \in Busy' : worker'[v].part \in 1..part'
    BY <1>1, <1>2, <1>3 DEF ImportInv, UploadInv, Progress
  <2>3. \A p \in Part : p > part' => stored'[p] = "absent"
    BY <1>1, <1>2 DEF ImportInv, UploadInv, Progress, Part
  <2> QED BY <1>1, <1>2, <2>1, <2>2, <2>3 DEF Progress
<1>7. Waiting'
  <2>1. pending = Cardinality(Busy)
    BY <1>1, <1>2 DEF ImportInv, UploadInv, Waiting
  <2>2. Cardinality(Busy') = Cardinality(Busy)
    BY <1>3
  <2> QED BY <1>1, <1>2, <2>1, <2>2 DEF Waiting
<1>8. Running'
  BY <1>1, <1>2, <1>3 DEF ImportInv, UploadInv, Running, Flush, wvars, swift
<1>9. Segments'
  <2> SUFFICES ASSUME NEW p \in 1..part'
               PROVE  stored'[p] = "good" \/ err' \/ (writer' = "send" /\ p = part') \/ Puts(p)'
    BY DEF Segments
  <2>1. CASE p = part'
    BY <1>2, <2>1
  <2>2. CASE p # part'
    <3>1. p \in 1..part
      BY <1>1, <1>2, <2>2
    <3> QED BY <1>2, <1>3, <3>1 DEF ImportInv, UploadInv, Segments
  <2> QED BY <2>1, <2>2
<1>10. Published'
  BY <1>1, <1>2, <1>3 DEF ImportInv, UploadInv, Published, Flush, wvars, swift,
    Segments, Progress, Running
<1>11. Aborts'
  BY <1>1, <1>2, <1>3 DEF ImportInv, UploadInv, Aborts, FailedCloseLeavesNothing, Flush,
    wvars, swift, Running
<1>12. ImportTypeOK'
  BY <1>4 DEF ImportInv, ImportTypeOK
<1>13. Stage'
  BY <1>1, <1>2, <1>3 DEF ImportInv, UploadInv, Stage, Flush, wvars, swift
<1>14. Imported'
  BY <1>1, <1>2, <1>3 DEF ImportInv, UploadInv, Imported, HasAllParts, Flush,
    wvars, swift, Stage
<1>15. CleanedUp'
  BY <1>1, <1>2, <1>3 DEF ImportInv, UploadInv, CleanedUp, Empty, NoSegment, Flush,
    wvars, swift, Running, Stage
<1> QED BY <1>4, <1>5, <1>6, <1>7, <1>8, <1>9, <1>10, <1>11, <1>12, <1>13, <1>14, <1>15 DEF ImportInv, UploadInv

\* The last part is flushed.
LEMMA CloseFlushKeeps ==
  ASSUME ImportInv, Close, UNCHANGED importVars, import = "upload", buf # None
  PROVE  ImportInv'
<1> USE DEF importVars
<1>1. part \in 0..MaxPart /\ file \in 0..MaxPart /\ pending \in Nat /\ MaxPart \in Nat
      /\ Cardinality(Busy) \in Nat
  BY BusyIsFinite, UploadAssumption DEF ImportInv, UploadInv, TypeOK
<1>2. /\ writer = "copy" /\ buf # None /\ part + 1 = file /\ ~eof
      /\ pending' = pending + 1 /\ part' = part + 1 /\ writer' = "send" /\ eof'
      /\ UNCHANGED <<file, buf, err, free, serving, worker, stored, manifest, tries, listed, unheard>>
  BY DEF Close, swift, ImportInv, UploadInv, Progress
<1>3. Busy' = Busy /\ \A p : Puts(p)' <=> Puts(p)
  BY DEF Busy, Puts, Close, wvars
<1>4. TypeOK'
  BY <1>1, <1>2 DEF Close, ImportInv, UploadInv, TypeOK, WriterSteps
<1>5. Buffers'
  BY <1>1, <1>2, <1>3 DEF ImportInv, UploadInv, Buffers, BufferHasOneUser, Close, wvars,
    swift
<1>6. Progress'
  <2>1. part' <= file /\ part' >= 1
    BY <1>1, <1>2
  <2>2. \A v \in Busy' : worker'[v].part \in 1..part'
    BY <1>1, <1>2, <1>3 DEF ImportInv, UploadInv, Progress
  <2>3. \A p \in Part : p > part' => stored'[p] = "absent"
    BY <1>1, <1>2 DEF ImportInv, UploadInv, Progress, Part
  <2> QED BY <1>1, <1>2, <2>1, <2>2, <2>3 DEF Progress
<1>7. Waiting'
  <2>1. pending = Cardinality(Busy)
    BY <1>1, <1>2 DEF ImportInv, UploadInv, Waiting
  <2>2. Cardinality(Busy') = Cardinality(Busy)
    BY <1>3
  <2> QED BY <1>1, <1>2, <2>1, <2>2 DEF Waiting
<1>8. Running'
  BY <1>1, <1>2, <1>3 DEF ImportInv, UploadInv, Running, Close, wvars, swift
<1>9. Segments'
  <2> SUFFICES ASSUME NEW p \in 1..part'
               PROVE  stored'[p] = "good" \/ err' \/ (writer' = "send" /\ p = part') \/ Puts(p)'
    BY DEF Segments
  <2>1. CASE p = part'
    BY <1>2, <2>1
  <2>2. CASE p # part'
    <3>1. p \in 1..part
      BY <1>1, <1>2, <2>2
    <3> QED BY <1>2, <1>3, <3>1 DEF ImportInv, UploadInv, Segments
  <2> QED BY <2>1, <2>2
<1>10. Published'
  BY <1>1, <1>2, <1>3 DEF ImportInv, UploadInv, Published, Close, wvars, swift,
    Segments, Progress, Running
<1>11. Aborts'
  BY <1>1, <1>2, <1>3 DEF ImportInv, UploadInv, Aborts, FailedCloseLeavesNothing, Close,
    wvars, swift, Running
<1>12. ImportTypeOK'
  BY <1>4 DEF ImportInv, ImportTypeOK
<1>13. Stage'
  BY <1>1, <1>2, <1>3 DEF ImportInv, UploadInv, Stage, Close, wvars, swift
<1>14. Imported'
  BY <1>1, <1>2, <1>3 DEF ImportInv, UploadInv, Imported, HasAllParts, Close,
    wvars, swift, Stage
<1>15. CleanedUp'
  BY <1>1, <1>2, <1>3 DEF ImportInv, UploadInv, CleanedUp, Empty, NoSegment, Close,
    wvars, swift, Running, Stage
<1> QED BY <1>4, <1>5, <1>6, <1>7, <1>8, <1>9, <1>10, <1>11, <1>12, <1>13, <1>14, <1>15 DEF ImportInv, UploadInv

\* Nothing is left to flush.
LEMMA CloseEndsKeeps ==
  ASSUME ImportInv, Close, UNCHANGED importVars, import = "upload", buf = None
  PROVE  ImportInv'
<1> USE DEF importVars
<1>1. Busy' = Busy /\ \A p : Puts(p)' <=> Puts(p)
  BY DEF Busy, Puts, Close, wvars
<1>2. TypeOK'
  BY <1>1, UploadAssumption DEF ImportInv, UploadInv, TypeOK, Close, wvars, swift, Part,
    WriterSteps, Tries
<1>3. Buffers'
  BY <1>1 DEF ImportInv, UploadInv, Buffers, BufferHasOneUser, Close, wvars, swift
<1>4. Progress'
  BY <1>1 DEF ImportInv, UploadInv, Progress, Close, wvars, swift
<1>5. Waiting'
  BY <1>1 DEF ImportInv, UploadInv, Waiting, Close, wvars, swift
<1>6. Running'
  BY <1>1 DEF ImportInv, UploadInv, Running, Close, wvars, swift
<1>7. Segments'
  BY <1>1 DEF ImportInv, UploadInv, Segments, Close, wvars, swift, Progress, Running
<1>8. Published'
  BY <1>1 DEF ImportInv, UploadInv, Published, Close, wvars, swift, Segments, Progress,
    Running
<1>9. Aborts'
  BY <1>1 DEF ImportInv, UploadInv, Aborts, FailedCloseLeavesNothing, Close, wvars,
    swift, Running
<1>10. ImportTypeOK'
  BY <1>2 DEF ImportInv, ImportTypeOK
<1>11. Stage'
  BY <1>1 DEF ImportInv, UploadInv, Stage, Close, wvars, swift
<1>12. Imported'
  BY <1>1 DEF ImportInv, UploadInv, Imported, HasAllParts, Close, wvars, swift,
    Stage
<1>13. CleanedUp'
  BY <1>1 DEF ImportInv, UploadInv, CleanedUp, Empty, NoSegment, Close, wvars, swift,
    Running, Stage
<1> QED BY <1>2, <1>3, <1>4, <1>5, <1>6, <1>7, <1>8, <1>9, <1>10, <1>11, <1>12, <1>13 DEF ImportInv, UploadInv

\* The file cannot be read.
LEMMA ReadFailsKeeps ==
  ASSUME ImportInv, ReadFails, UNCHANGED importVars, import = "upload"
  PROVE  ImportInv'
<1> USE DEF importVars
<1>1. Busy' = Busy /\ \A p : Puts(p)' <=> Puts(p)
  BY DEF Busy, Puts, ReadFails, wvars
<1>2. TypeOK'
  BY <1>1, UploadAssumption DEF ImportInv, UploadInv, TypeOK, ReadFails, wvars, swift,
    Part, WriterSteps, Tries
<1>3. Buffers'
  BY <1>1 DEF ImportInv, UploadInv, Buffers, BufferHasOneUser, ReadFails, wvars, swift
<1>4. Progress'
  BY <1>1 DEF ImportInv, UploadInv, Progress, ReadFails, wvars, swift
<1>5. Waiting'
  BY <1>1 DEF ImportInv, UploadInv, Waiting, ReadFails, wvars, swift
<1>6. Running'
  BY <1>1 DEF ImportInv, UploadInv, Running, ReadFails, wvars, swift
<1>7. Segments'
  BY <1>1 DEF ImportInv, UploadInv, Segments, ReadFails, wvars, swift, Progress, Running
<1>8. Published'
  BY <1>1 DEF ImportInv, UploadInv, Published, ReadFails, wvars, swift, Segments,
    Progress, Running
<1>9. Aborts'
  BY <1>1 DEF ImportInv, UploadInv, Aborts, FailedCloseLeavesNothing, ReadFails, wvars,
    swift, Running
<1>10. ImportTypeOK'
  BY <1>2 DEF ImportInv, ImportTypeOK
<1>11. Stage'
  BY <1>1 DEF ImportInv, UploadInv, Stage, ReadFails, wvars, swift
<1>12. Imported'
  BY <1>1 DEF ImportInv, UploadInv, Imported, HasAllParts, ReadFails, wvars,
    swift, Stage
<1>13. CleanedUp'
  BY <1>1 DEF ImportInv, UploadInv, CleanedUp, Empty, NoSegment, ReadFails, wvars,
    swift, Running, Stage
<1> QED BY <1>2, <1>3, <1>4, <1>5, <1>6, <1>7, <1>8, <1>9, <1>10, <1>11, <1>12, <1>13 DEF ImportInv, UploadInv

\* Close goes on when all parts are done.
LEMMA FinishKeeps ==
  ASSUME ImportInv, Finish, UNCHANGED importVars, import = "upload"
  PROVE  ImportInv'
<1> USE DEF importVars
<1>1. writer = "close" /\ pending = 0 /\ Busy = {}
  BY BusyIsFinite, UploadAssumption DEF Finish, AllPartsDone, ImportInv, UploadInv, Waiting
<1>2. /\ worker \in [Worker -> Work] /\ \A v \in Worker : worker[v].step \in {"idle", "left"}
      /\ Idle \in Work /\ [Idle EXCEPT !.step = "left"] \in Work
  <2>1. worker \in [Worker -> Work]
    BY DEF ImportInv, UploadInv, TypeOK, Work, Steps
  <2>2. \A v \in Worker : worker[v].step \in {"idle", "left"}
    BY <1>1, <2>1 DEF Busy, Work, Steps
  <2>3. Idle \in Work /\ [Idle EXCEPT !.step = "left"] \in Work
    BY UploadAssumption DEF Idle, Work, Steps, Tries
  <2> QED BY <2>1, <2>2, <2>3
<1>3. /\ worker' \in [Worker -> Work]
      /\ \A v \in Worker : /\ worker'[v].step = "left"
                           /\ worker'[v].buf = None \/ worker'[v].buf = worker[v].buf
  <2>1. worker' = [w \in Worker |-> IF worker[w].step = "idle" THEN [Idle EXCEPT !.step = "left"]
                                   ELSE worker[w]]
    BY DEF Finish
  <2>2. [Idle EXCEPT !.step = "left"].buf = None /\ [Idle EXCEPT !.step = "left"].step = "left"
    BY DEF Idle
  <2> QED BY <1>2, <2>1, <2>2
<1>4. Busy' = {} /\ (\A p : ~Puts(p)) /\ \A p : ~Puts(p)'
  BY <1>2, <1>3 DEF Busy, Puts
<1>5. /\ writer' = (IF part = 0 \/ err THEN "list" ELSE "publish") /\ serving' = FALSE
      /\ UNCHANGED <<file, eof, part, buf, pending, err, free, stored, manifest, tries, listed, unheard>>
  BY DEF Finish, swift
<1>6. TypeOK'
  BY <1>3, <1>5 DEF ImportInv, UploadInv, TypeOK, Work, Steps, WriterSteps
<1>7. Buffers'
  BY <1>1, <1>3, <1>5 DEF ImportInv, UploadInv, Buffers, BufferHasOneUser
<1>8. Progress'
  BY <1>1, <1>4, <1>5 DEF ImportInv, UploadInv, Progress
<1>9. Waiting'
  BY <1>1, <1>4, <1>5, FS_EmptySet DEF Waiting
<1>10. Running'
  BY <1>1, <1>3, <1>5 DEF ImportInv, UploadInv, Running, Tries
<1>11. Segments'
  BY <1>1, <1>4, <1>5 DEF ImportInv, UploadInv, Segments
<1>12. Published'
  BY <1>5 DEF Published
<1>13. Aborts'
  BY <1>5 DEF Aborts, FailedCloseLeavesNothing
<1>14. ImportTypeOK'
  BY <1>6 DEF ImportInv, ImportTypeOK
<1>15. Stage'
  BY <1>1, <1>2, <1>3, <1>4, <1>5 DEF ImportInv, UploadInv, Stage, Finish, wvars, swift,
    Idle, AllPartsDone
<1>16. Imported'
  BY <1>1, <1>2, <1>3, <1>4, <1>5 DEF ImportInv, UploadInv, Imported,
    HasAllParts, Finish, wvars, swift, Idle, AllPartsDone, Stage
<1>17. CleanedUp'
  BY DEF CleanedUp
<1> QED BY <1>6, <1>7, <1>8, <1>9, <1>10, <1>11, <1>12, <1>13, <1>14, <1>15, <1>16, <1>17 DEF ImportInv, UploadInv

\* The manifest is put.
LEMMA PublishKeeps ==
  ASSUME ImportInv, Publish, UNCHANGED importVars, import = "upload"
  PROVE  ImportInv'
<1> USE DEF importVars
<1>1. writer = "publish" /\ tries \in 0..3 /\ tries < 3 /\ manifest \in BOOLEAN
  BY DEF Publish, ImportInv, UploadInv, TypeOK, Running, Tries
<1>2. /\ tries' = tries + 1 /\ writer' \in {"done", "list", "publish"} /\ manifest' \in BOOLEAN
      /\ writer' = "publish" => tries' # 3
  BY <1>1 DEF Publish, Tries
<1>3. tries' \in 0..3 /\ (writer' = "publish" => tries' < 3)
  BY <1>1, <1>2
<1>4. Busy' = Busy /\ \A p : Puts(p)' <=> Puts(p)
  BY DEF Busy, Puts, Publish, wvars
<1>5. TypeOK'
  BY <1>2, <1>3 DEF ImportInv, UploadInv, TypeOK, Publish, WriterSteps, Tries
<1>6. Buffers'
  BY <1>1, <1>2, <1>3, <1>4 DEF ImportInv, UploadInv, Buffers, BufferHasOneUser,
    Publish, wvars, swift, Tries
<1>7. Progress'
  BY <1>1, <1>2, <1>3, <1>4 DEF ImportInv, UploadInv, Progress, Publish, wvars, swift,
    Tries
<1>8. Waiting'
  BY <1>1, <1>2, <1>3, <1>4 DEF ImportInv, UploadInv, Waiting, Publish, wvars, swift,
    Tries
<1>9. Running'
  <2>1. ~serving /\ ~err /\ \A w \in Worker : worker[w].step = "left"
    BY <1>1 DEF ImportInv, UploadInv, Running
  <2> QED BY <1>2, <1>3, <2>1 DEF Publish, Running, Tries
<1>10. Segments'
  BY <1>1, <1>2, <1>3, <1>4 DEF ImportInv, UploadInv, Segments, Publish, wvars, swift,
    Tries, Progress, Running
<1>11. Published'
  <2> SUFFICES ASSUME writer' = "done" PROVE manifest' /\ \A p \in 1..file : stored[p] = "good"
    BY DEF Published, Publish
  <2>1. manifest' /\ writer = "publish"
    BY DEF Publish, Tries
  <2>2. \A p : ~Puts(p)
    BY <2>1 DEF ImportInv, UploadInv, Running, Puts
  <2>3. part = file /\ ~err
    BY <2>1 DEF ImportInv, UploadInv, Progress, Running
  <2> QED BY <2>1, <2>2, <2>3 DEF ImportInv, UploadInv, Segments
<1>12. Aborts'
  BY <1>1, <1>2, <1>3, <1>4 DEF ImportInv, UploadInv, Aborts, FailedCloseLeavesNothing,
    Publish, wvars, swift, Tries, Running
<1>13. ImportTypeOK'
  BY <1>5 DEF ImportInv, ImportTypeOK
<1>14. Stage'
  BY <1>1, <1>2, <1>3, <1>4 DEF ImportInv, UploadInv, Stage, Publish, wvars, swift,
    Tries
<1>15. Imported'
  BY <1>1, <1>2, <1>3, <1>4 DEF ImportInv, UploadInv, Imported, HasAllParts,
    Publish, wvars, swift, Tries, Stage
<1>16. CleanedUp'
  BY <1>1, <1>2, <1>3, <1>4 DEF ImportInv, UploadInv, CleanedUp, Empty, NoSegment,
    Publish, wvars, swift, Tries, Running, Stage
<1> QED BY <1>5, <1>6, <1>7, <1>8, <1>9, <1>10, <1>11, <1>12, <1>13, <1>14, <1>15, <1>16 DEF ImportInv, UploadInv

\* An abort lists the segments.
LEMMA ListKeeps ==
  ASSUME ImportInv, ListSegments, UNCHANGED importVars, import = "upload"
  PROVE  ImportInv'
<1> USE DEF importVars
<1>1. Busy' = Busy /\ \A p : Puts(p)' <=> Puts(p)
  BY DEF Busy, Puts, ListSegments, wvars
<1>2. TypeOK'
  BY <1>1, UploadAssumption DEF ImportInv, UploadInv, TypeOK, ListSegments, wvars,
    swift, Part, WriterSteps, Tries
<1>3. Buffers'
  BY <1>1 DEF ImportInv, UploadInv, Buffers, BufferHasOneUser, ListSegments, wvars,
    swift
<1>4. Progress'
  BY <1>1 DEF ImportInv, UploadInv, Progress, ListSegments, wvars, swift
<1>5. Waiting'
  BY <1>1 DEF ImportInv, UploadInv, Waiting, ListSegments, wvars, swift
<1>6. Running'
  BY <1>1 DEF ImportInv, UploadInv, Running, ListSegments, wvars, swift
<1>7. Segments'
  BY <1>1 DEF ImportInv, UploadInv, Segments, ListSegments, wvars, swift, Progress,
    Running
<1>8. Published'
  BY <1>1 DEF ImportInv, UploadInv, Published, ListSegments, wvars, swift, Segments,
    Progress, Running
<1>9. Aborts'
  BY <1>1 DEF ImportInv, UploadInv, Aborts, FailedCloseLeavesNothing, ListSegments,
    wvars, swift, Running
<1>10. ImportTypeOK'
  BY <1>2 DEF ImportInv, ImportTypeOK
<1>11. Stage'
  BY <1>1 DEF ImportInv, UploadInv, Stage, ListSegments, wvars, swift
<1>12. Imported'
  BY <1>1 DEF ImportInv, UploadInv, Imported, HasAllParts, ListSegments, wvars,
    swift, Stage
<1>13. CleanedUp'
  BY <1>1 DEF ImportInv, UploadInv, CleanedUp, Empty, NoSegment, ListSegments, wvars,
    swift, Running, Stage
<1> QED BY <1>2, <1>3, <1>4, <1>5, <1>6, <1>7, <1>8, <1>9, <1>10, <1>11, <1>12, <1>13 DEF ImportInv, UploadInv

\* An abort deletes a segment.
LEMMA DeleteSegmentKeeps ==
  ASSUME ImportInv, DeleteSegment, UNCHANGED importVars, import = "upload"
  PROVE  ImportInv'
<1> USE DEF importVars
<1>1. /\ writer = "delete" /\ stored' \in [Part -> {"absent", "good", "bad"}]
      /\ \A p \in Part : /\ stored'[p] = stored[p] \/ stored'[p] = "absent"
                         /\ p \in listed \ listed' => stored'[p] = "absent" \/ unheard'
      /\ listed' \subseteq listed /\ unheard' \in BOOLEAN /\ (unheard => unheard')
      /\ UNCHANGED <<file, wvars, pending, err, free, serving, worker, manifest, tries>>
  <2>1. PICK p \in listed :
           /\ listed' = listed \ {p}
           /\ \/ stored' = [stored EXCEPT ![p] = "absent"] /\ UNCHANGED unheard
              \/ unheard' = TRUE /\ UNCHANGED stored
    BY DEF DeleteSegment
  <2>2. stored \in [Part -> {"absent", "good", "bad"}] /\ listed \subseteq Part /\ unheard \in BOOLEAN
    BY DEF ImportInv, UploadInv, TypeOK
  <2>3. /\ writer = "delete"
        /\ UNCHANGED <<file, wvars, pending, err, free, serving, worker, manifest, tries>>
    BY DEF DeleteSegment
  <2> QED BY <2>1, <2>2, <2>3
<1>2. Busy' = Busy /\ \A p : Puts(p)' <=> Puts(p)
  BY DEF Busy, Puts, DeleteSegment, wvars
<1>3. TypeOK'
  BY <1>1 DEF ImportInv, UploadInv, TypeOK, wvars
<1>4. Buffers'
  BY <1>1, <1>2 DEF ImportInv, UploadInv, Buffers, BufferHasOneUser, DeleteSegment,
    wvars, swift
<1>5. Progress'
  BY <1>1, <1>2 DEF ImportInv, UploadInv, Progress, wvars
<1>6. Waiting'
  BY <1>1, <1>2 DEF ImportInv, UploadInv, Waiting, DeleteSegment, wvars, swift
<1>7. Running'
  BY <1>1, <1>2 DEF ImportInv, UploadInv, Running, DeleteSegment, wvars, swift
<1>8. Segments'
  BY <1>1 DEF Segments, wvars
<1>9. Published'
  BY <1>1, <1>2 DEF ImportInv, UploadInv, Published, DeleteSegment, wvars, swift,
    Segments, Progress, Running
<1>10. Aborts'
  <2>1. writer' = "delete"
    BY <1>1 DEF wvars
  <2>2. ASSUME ~serving', ~unheard', NEW p \in Part, stored'[p] # "absent" PROVE p \in listed'
    BY <1>1, <2>2 DEF ImportInv, UploadInv, Aborts
  <2> QED BY <2>1, <2>2 DEF Aborts, FailedCloseLeavesNothing
<1>11. ImportTypeOK'
  BY <1>3 DEF ImportInv, ImportTypeOK
<1>12. Stage'
  BY <1>1, <1>2 DEF ImportInv, UploadInv, Stage, DeleteSegment, wvars, swift
<1>13. Imported'
  BY <1>1, <1>2 DEF ImportInv, UploadInv, Imported, HasAllParts, DeleteSegment,
    wvars, swift, Stage
<1>14. CleanedUp'
  BY <1>1, <1>2 DEF ImportInv, UploadInv, CleanedUp, Empty, NoSegment, DeleteSegment,
    wvars, swift, Running, Stage
<1> QED BY <1>3, <1>4, <1>5, <1>6, <1>7, <1>8, <1>9, <1>10, <1>11, <1>12, <1>13, <1>14 DEF ImportInv, UploadInv

\* An abort has deleted what it listed.
LEMMA AbortedKeeps ==
  ASSUME ImportInv, Aborted, UNCHANGED importVars, import = "upload"
  PROVE  ImportInv'
<1> USE DEF importVars
<1>1. Busy' = Busy /\ \A p : Puts(p)' <=> Puts(p)
  BY DEF Busy, Puts, Aborted, wvars
<1>2. TypeOK'
  BY <1>1, UploadAssumption DEF ImportInv, UploadInv, TypeOK, Aborted, wvars, swift,
    Part, WriterSteps, Tries
<1>3. Buffers'
  BY <1>1 DEF ImportInv, UploadInv, Buffers, BufferHasOneUser, Aborted, wvars, swift
<1>4. Progress'
  BY <1>1 DEF ImportInv, UploadInv, Progress, Aborted, wvars, swift
<1>5. Waiting'
  BY <1>1 DEF ImportInv, UploadInv, Waiting, Aborted, wvars, swift
<1>6. Running'
  BY <1>1 DEF ImportInv, UploadInv, Running, Aborted, wvars, swift
<1>7. Segments'
  BY <1>1 DEF ImportInv, UploadInv, Segments, Aborted, wvars, swift, Progress, Running
<1>8. Published'
  BY <1>1 DEF ImportInv, UploadInv, Published, Aborted, wvars, swift, Segments,
    Progress, Running
<1>9. Aborts'
  BY <1>1 DEF ImportInv, UploadInv, Aborts, FailedCloseLeavesNothing, Aborted, wvars,
    swift, Running
<1>10. ImportTypeOK'
  BY <1>2 DEF ImportInv, ImportTypeOK
<1>11. Stage'
  BY <1>1 DEF ImportInv, UploadInv, Stage, Aborted, wvars, swift
<1>12. Imported'
  BY <1>1 DEF ImportInv, UploadInv, Imported, HasAllParts, Aborted, wvars,
    swift, Stage
<1>13. CleanedUp'
  BY <1>1 DEF ImportInv, UploadInv, CleanedUp, Empty, NoSegment, Aborted, wvars, swift,
    Running, Stage
<1> QED BY <1>2, <1>3, <1>4, <1>5, <1>6, <1>7, <1>8, <1>9, <1>10, <1>11, <1>12, <1>13 DEF ImportInv, UploadInv

\* A worker receives a part.
LEMMA SendKeeps ==
  ASSUME ImportInv, NEW w \in Worker, Send(w), UNCHANGED importVars, import = "upload"
  PROVE  ImportInv'
<1> USE DEF importVars
<1>1. part \in 0..MaxPart /\ file \in 0..MaxPart /\ pending \in Nat /\ MaxPart \in Nat
      /\ Cardinality(Busy) \in Nat
  BY BusyIsFinite, UploadAssumption DEF ImportInv, UploadInv, TypeOK
<1>2. /\ writer = "send" /\ worker[w].step = "idle" /\ serving /\ part >= 1 /\ part \in Part /\ buf \in Buffer
      /\ w \notin Busy /\ worker \in [Worker -> Work]
  <2>1. writer = "send" /\ worker[w].step = "idle"
    BY DEF Send
  <2>2. serving /\ part >= 1 /\ buf \in Buffer
    BY <2>1 DEF ImportInv, UploadInv, TypeOK, Running, Progress, Buffers
  <2>3. w \notin Busy /\ worker \in [Worker -> Work]
    BY <2>1 DEF Busy, ImportInv, UploadInv, TypeOK, Work, Steps
  <2> QED BY <1>1, <2>1, <2>2, <2>3 DEF Part
<1>3. PICK x \in Work : /\ worker' = [worker EXCEPT ![w] = x] /\ x.part = part
                       /\ x.buf = buf /\ x.step = "put" 
  <2>1. [step |-> "put", part |-> part, try |-> 1, buf |-> buf] \in Work
    BY <1>1, <1>2 DEF Work, Steps, Tries
  <2> QED BY <2>1 DEF Send
<1>4. /\ worker' \in [Worker -> Work] /\ worker'[w] = x
      /\ \A v \in Worker : v # w => worker'[v] = worker[v]
  BY <1>3, WorkerMoves
<1>5. \A p : Puts(p)' <=> \/ \E v \in Worker \ {w} : /\ worker[v].part = p
                                                     /\ worker[v].step \in {"put", "fail"}
                          \/ x.part = p /\ x.step \in {"put", "fail"}
  BY <1>3, WorkerMoves
<1>6. Busy' = Busy \cup {w}
  BY <1>3, <1>4 DEF Busy
<1>7. /\ buf' = None /\ writer' = (IF eof THEN "close" ELSE "copy")
      /\ UNCHANGED <<file, eof, part, pending, err, free, serving, stored, manifest, tries, listed, unheard>>
  BY DEF Send, swift
<1>8. TypeOK'
  BY <1>4, <1>7 DEF ImportInv, UploadInv, TypeOK, Work, Steps, WriterSteps
<1>9. Buffers'
  BY <1>2, <1>3, <1>4, <1>7 DEF ImportInv, UploadInv, Buffers, BufferHasOneUser
<1>10. Progress'
  <2>1. \A v \in Busy' : worker'[v].part \in 1..part
    BY <1>1, <1>2, <1>3, <1>4, <1>6 DEF ImportInv, UploadInv, Progress
  <2> QED BY <1>2, <1>7, <2>1 DEF ImportInv, UploadInv, Progress
<1>11. Waiting'
  <2>1. Cardinality(Busy') = Cardinality(Busy) + 1
    BY <1>2, <1>6, BusyIsFinite, FS_AddElement
  <2>2. pending = Cardinality(Busy) + 1
    BY <1>2 DEF ImportInv, UploadInv, Waiting
  <2> QED BY <1>1, <1>7, <2>1, <2>2 DEF Waiting
<1>12. Running'
  BY <1>2, <1>7 DEF ImportInv, UploadInv, Running
<1>13. Segments'
  <2>1. \A p : Puts(p) \/ p = part => Puts(p)'
    BY <1>2, <1>3, <1>5 DEF Puts
  <2> QED BY <1>2, <1>7, <2>1 DEF ImportInv, UploadInv, Segments
<1>14. Published'
  BY <1>7 DEF Published
<1>15. Aborts'
  BY <1>7 DEF Aborts, FailedCloseLeavesNothing
<1>16. ImportTypeOK'
  BY <1>8 DEF ImportInv, ImportTypeOK
<1>17. Stage'
  BY <1>1, <1>2, <1>3, <1>4, <1>5, <1>6, <1>7 DEF ImportInv, UploadInv, Stage, Send,
    wvars, swift
<1>18. Imported'
  BY <1>1, <1>2, <1>3, <1>4, <1>5, <1>6, <1>7 DEF ImportInv, UploadInv, Imported,
    HasAllParts, Send, wvars, swift, Stage
<1>19. CleanedUp'
  BY DEF CleanedUp
<1> QED BY <1>8, <1>9, <1>10, <1>11, <1>12, <1>13, <1>14, <1>15, <1>16, <1>17, <1>18, <1>19 DEF ImportInv, UploadInv

\* A worker puts a segment, or tries to.
LEMMA PutPartKeeps ==
  ASSUME ImportInv, NEW w \in Worker, PutPart(w), UNCHANGED importVars
  PROVE  ImportInv'
<1> USE DEF importVars
<1>1. worker[w].step = "put"
  BY DEF PutPart
<1>2. /\ w \in Busy /\ serving /\ worker[w].part \in 1..part /\ worker[w].part \in Part
      /\ worker \in [Worker -> Work] /\ worker[w] \in Work
      /\ writer \notin {"publish", "done"}
  BY <1>1, BusyWorker
<1>3. PICK x \in Work : /\ worker' = [worker EXCEPT ![w] = x] /\ x.part = worker[w].part
                       /\ x.buf = worker[w].buf /\ x.step \in {"put", "give", "fail"}
  <2>1. CASE PutAccepted(w)
    <3>1. [worker[w] EXCEPT !.step = "give"] \in Work
      BY <1>2 DEF Work, Steps
    <3> QED BY <1>2, <2>1, <3>1 DEF PutAccepted, Work
  <2>2. CASE PutRefused(w) /\ worker[w].try < Tries /\ worker' = [worker EXCEPT ![w].try = @ + 1]
    <3>1. [worker[w] EXCEPT !.try = @ + 1] \in Work
      BY <1>2, <2>2 DEF Work, Tries
    <3> QED BY <1>1, <1>2, <2>2, <3>1 DEF Work
  <2>3. CASE PutRefused(w) /\ worker' = [worker EXCEPT ![w].step = "fail"]
    <3>1. [worker[w] EXCEPT !.step = "fail"] \in Work
      BY <1>2 DEF Work, Steps
    <3> QED BY <1>2, <2>3, <3>1 DEF Work
  <2> QED BY <2>1, <2>2, <2>3 DEF PutPart
<1>4. /\ worker' \in [Worker -> Work] /\ worker'[w] = x
      /\ \A v \in Worker : v # w => worker'[v] = worker[v]
      /\ Busy' = Busy
  BY <1>2, <1>3, WorkerMoves
<1>5. \A p : Puts(p)' <=> \/ \E v \in Worker \ {w} : /\ worker[v].part = p
                                                     /\ worker[v].step \in {"put", "fail"}
                          \/ x.part = p /\ x.step \in {"put", "fail"}
  BY <1>3, WorkerMoves
<1>6. /\ stored' \in [Part -> {"absent", "good", "bad"}]
      /\ \A p \in Part : p # worker[w].part => stored'[p] = stored[p]
      /\ x.step = "give" => stored'[worker[w].part] = "good"
  <2>1. stored \in [Part -> {"absent", "good", "bad"}]
    BY DEF ImportInv, UploadInv, TypeOK
  <2>2. stored' = stored \/ \E s \in {"good", "bad"} : stored' = [stored EXCEPT ![worker[w].part] = s]
    BY DEF PutPart, PutAccepted, PutRefused
  <2>3. ASSUME x.step = "give" PROVE stored'[worker[w].part] = "good"
    <3>1. ~(\/ worker' = [worker EXCEPT ![w].try = @ + 1]
            \/ worker' = [worker EXCEPT ![w].step = "fail"])
      BY <1>1, <1>2, <1>4, <2>3 DEF Work
    <3>2. stored' = [stored EXCEPT ![worker[w].part] = "good"]
      BY <3>1 DEF PutPart, PutAccepted
    <3> QED BY <1>2, <2>1, <3>2
  <2>4. \A p \in Part : p # worker[w].part => stored'[p] = stored[p]
    BY <2>1, <2>2
  <2>5. stored' \in [Part -> {"absent", "good", "bad"}]
    BY <2>1, <2>2
  <2> QED BY <2>3, <2>4, <2>5
<1>7. UNCHANGED <<file, wvars, pending, err, free, serving, manifest, tries, listed, unheard>>
  BY DEF PutPart
<1>8. TypeOK'
  BY <1>4, <1>6, <1>7 DEF ImportInv, UploadInv, TypeOK, Work, Steps, wvars
<1>9. Buffers'
  BY <1>1, <1>3, <1>4, <1>7 DEF ImportInv, UploadInv, Buffers, BufferHasOneUser, wvars
<1>10. Progress'
  <2>1. \A v \in Busy : worker'[v].part \in 1..part
    BY <1>2, <1>3, <1>4 DEF ImportInv, UploadInv, Progress, Busy
  <2>2. \A p \in Part : p > part => stored'[p] = "absent"
    <3>1. part \in Nat
      BY DEF ImportInv, UploadInv, TypeOK
    <3>2. \A p \in Part : p > part => p # worker[w].part
      BY <1>2, <3>1 DEF Part
    <3> QED BY <1>6, <3>2 DEF ImportInv, UploadInv, Progress
  <2> QED BY <1>4, <1>7, <2>1, <2>2 DEF ImportInv, UploadInv, Progress, wvars
<1>11. Waiting'
  BY <1>4, <1>7 DEF ImportInv, UploadInv, Waiting, wvars
<1>12. Running'
  BY <1>2, <1>7 DEF ImportInv, UploadInv, Running, wvars
<1>13. Segments'
  <2> SUFFICES ASSUME writer \in {"copy", "write", "send", "close", "publish"}, NEW p \in 1..part
               PROVE  stored'[p] = "good" \/ err \/ (writer = "send" /\ p = part) \/ Puts(p)'
    BY <1>7 DEF Segments, wvars
  <2>1. stored[p] = "good" \/ err \/ (writer = "send" /\ p = part) \/ Puts(p)
    BY DEF ImportInv, UploadInv, Segments
  <2>2. CASE p = worker[w].part
    BY <1>3, <1>5, <1>6, <2>2
  <2>3. CASE p # worker[w].part
    <3>1. p \in Part
      BY UploadAssumption DEF ImportInv, UploadInv, TypeOK, Part
    <3> QED BY <1>5, <1>6, <2>1, <2>3, <3>1 DEF Puts
  <2> QED BY <2>2, <2>3
<1>14. Published'
  BY <1>2, <1>7 DEF Published, wvars
<1>15. Aborts'
  BY <1>2, <1>7 DEF Aborts, FailedCloseLeavesNothing, wvars
<1>16. ImportTypeOK'
  BY <1>8 DEF ImportInv, ImportTypeOK
<1>17. Stage'
  BY <1>1, <1>2, <1>3, <1>4, <1>5, <1>6, <1>7 DEF ImportInv, UploadInv, Stage, PutPart,
    wvars, swift, PutAccepted, PutRefused
<1>18. Imported'
  BY <1>1, <1>2, <1>3, <1>4, <1>5, <1>6, <1>7 DEF ImportInv, UploadInv, Imported,
    HasAllParts, PutPart, wvars, swift, PutAccepted, PutRefused, Stage
<1>19. CleanedUp'
  BY <1>2, <1>7 DEF CleanedUp
<1> QED BY <1>8, <1>9, <1>10, <1>11, <1>12, <1>13, <1>14, <1>15, <1>16, <1>17, <1>18, <1>19 DEF ImportInv, UploadInv

\* A worker gives its buffer back.
LEMMA GiveBufferKeeps ==
  ASSUME ImportInv, NEW w \in Worker, GiveBuffer(w), UNCHANGED importVars
  PROVE  ImportInv'
<1> USE DEF importVars
<1>1. worker[w].step = "give"
  BY DEF GiveBuffer
<1>2. /\ w \in Busy /\ serving /\ worker[w].part \in 1..part /\ worker[w].part \in Part
      /\ worker \in [Worker -> Work] /\ worker[w] \in Work
      /\ writer \notin {"publish", "done"}
  BY <1>1, BusyWorker
<1>3. PICK x \in Work : /\ worker' = [worker EXCEPT ![w] = x] /\ x.part = worker[w].part
                       /\ x.buf = None /\ x.step = "release"
  <2>1. [worker[w] EXCEPT !.step = "release", !.buf = None] \in Work
    BY <1>2 DEF Work, Steps
  <2>2. worker' = [worker EXCEPT ![w] = [worker[w] EXCEPT !.step = "release", !.buf = None]]
    BY <1>2 DEF GiveBuffer
  <2> QED BY <1>2, <2>1, <2>2 DEF Work
<1>4. /\ worker' \in [Worker -> Work] /\ worker'[w] = x
      /\ \A v \in Worker : v # w => worker'[v] = worker[v]
      /\ Busy' = Busy
  BY <1>2, <1>3, WorkerMoves
<1>5. \A p : Puts(p)' <=> \/ \E v \in Worker \ {w} : /\ worker[v].part = p
                                                     /\ worker[v].step \in {"put", "fail"}
                          \/ x.part = p /\ x.step \in {"put", "fail"}
  BY <1>3, WorkerMoves
<1>6. UNCHANGED <<file, wvars, pending, err, serving, swift, tries, listed, unheard>> /\ free' = free \cup {worker[w].buf}
  BY DEF GiveBuffer
<1>7. worker[w].buf \in Buffer
  BY <1>1, <1>2 DEF ImportInv, UploadInv, Buffers, Work
<1>8. TypeOK'
  BY <1>4, <1>6, <1>7 DEF ImportInv, UploadInv, TypeOK, Work, Steps, wvars, swift
<1>9. Buffers'
  BY <1>1, <1>2, <1>3, <1>4, <1>6, <1>7 DEF ImportInv, UploadInv, Buffers, BufferHasOneUser, wvars
<1>10. Progress'
  <2>1. \A v \in Busy : worker'[v].part \in 1..part
    BY <1>2, <1>3, <1>4 DEF ImportInv, UploadInv, Progress, Busy
  <2> QED BY <1>4, <1>6, <2>1 DEF ImportInv, UploadInv, Progress, wvars, swift
<1>11. Waiting'
  BY <1>4, <1>6 DEF ImportInv, UploadInv, Waiting, wvars
<1>12. Running'
  BY <1>2, <1>6 DEF ImportInv, UploadInv, Running, wvars
<1>13. Segments'
  <2>1. \A p : Puts(p) => Puts(p)'
    BY <1>1, <1>5 DEF Puts
  <2> QED BY <1>6, <2>1 DEF ImportInv, UploadInv, Segments, wvars, swift
<1>14. Published'
  BY <1>2, <1>6 DEF Published, wvars
<1>15. Aborts'
  BY <1>2, <1>6 DEF Aborts, FailedCloseLeavesNothing, wvars
<1>16. ImportTypeOK'
  BY <1>8 DEF ImportInv, ImportTypeOK
<1>17. Stage'
  BY <1>1, <1>2, <1>3, <1>4, <1>5, <1>6, <1>7 DEF ImportInv, UploadInv, Stage,
    GiveBuffer, wvars, swift
<1>18. Imported'
  BY <1>1, <1>2, <1>3, <1>4, <1>5, <1>6, <1>7 DEF ImportInv, UploadInv, Imported,
    HasAllParts, GiveBuffer, wvars, swift, Stage
<1>19. CleanedUp'
  BY <1>2, <1>6 DEF CleanedUp
<1> QED BY <1>8, <1>9, <1>10, <1>11, <1>12, <1>13, <1>14, <1>15, <1>16, <1>17, <1>18, <1>19 DEF ImportInv, UploadInv

\* A worker has tried three times.
LEMMA FailPartKeeps ==
  ASSUME ImportInv, NEW w \in Worker, FailPart(w), UNCHANGED importVars
  PROVE  ImportInv'
<1> USE DEF importVars
<1>1. worker[w].step = "fail"
  BY DEF FailPart
<1>2. /\ w \in Busy /\ serving /\ worker[w].part \in 1..part /\ worker[w].part \in Part
      /\ worker \in [Worker -> Work] /\ worker[w] \in Work
      /\ writer \notin {"publish", "done"}
  BY <1>1, BusyWorker
<1>3. PICK x \in Work : /\ worker' = [worker EXCEPT ![w] = x] /\ x.part = worker[w].part
                       /\ x.buf = None /\ x.step = "release"
  <2>1. [worker[w] EXCEPT !.step = "release", !.buf = None] \in Work
    BY <1>2 DEF Work, Steps
  <2>2. worker' = [worker EXCEPT ![w] = [worker[w] EXCEPT !.step = "release", !.buf = None]]
    BY <1>2 DEF FailPart
  <2> QED BY <1>2, <2>1, <2>2 DEF Work
<1>4. /\ worker' \in [Worker -> Work] /\ worker'[w] = x
      /\ \A v \in Worker : v # w => worker'[v] = worker[v]
      /\ Busy' = Busy
  BY <1>2, <1>3, WorkerMoves
<1>5. \A p : Puts(p)' <=> \/ \E v \in Worker \ {w} : /\ worker[v].part = p
                                                     /\ worker[v].step \in {"put", "fail"}
                          \/ x.part = p /\ x.step \in {"put", "fail"}
  BY <1>3, WorkerMoves
<1>6. UNCHANGED <<file, wvars, pending, free, serving, swift, tries, listed, unheard>> /\ err' = TRUE
  BY DEF FailPart
<1>7. worker[w].buf \in Buffer
  BY <1>1, <1>2 DEF ImportInv, UploadInv, Buffers, Work
<1>8. TypeOK'
  BY <1>4, <1>6, <1>7 DEF ImportInv, UploadInv, TypeOK, Work, Steps, wvars, swift
<1>9. Buffers'
  BY <1>1, <1>2, <1>3, <1>4, <1>6, <1>7 DEF ImportInv, UploadInv, Buffers, BufferHasOneUser, wvars
<1>10. Progress'
  <2>1. \A v \in Busy : worker'[v].part \in 1..part
    BY <1>2, <1>3, <1>4 DEF ImportInv, UploadInv, Progress, Busy
  <2> QED BY <1>4, <1>6, <2>1 DEF ImportInv, UploadInv, Progress, wvars, swift
<1>11. Waiting'
  BY <1>4, <1>6 DEF ImportInv, UploadInv, Waiting, wvars
<1>12. Running'
  BY <1>2, <1>6 DEF ImportInv, UploadInv, Running, wvars
<1>13. Segments'
  BY <1>6 DEF Segments
<1>14. Published'
  BY <1>2, <1>6 DEF Published, wvars
<1>15. Aborts'
  BY <1>2, <1>6 DEF Aborts, FailedCloseLeavesNothing, wvars
<1>16. ImportTypeOK'
  BY <1>8 DEF ImportInv, ImportTypeOK
<1>17. Stage'
  BY <1>1, <1>2, <1>3, <1>4, <1>5, <1>6, <1>7 DEF ImportInv, UploadInv, Stage, FailPart,
    wvars, swift
<1>18. Imported'
  BY <1>1, <1>2, <1>3, <1>4, <1>5, <1>6, <1>7 DEF ImportInv, UploadInv, Imported,
    HasAllParts, FailPart, wvars, swift, Stage
<1>19. CleanedUp'
  BY <1>2, <1>6 DEF CleanedUp
<1> QED BY <1>8, <1>9, <1>10, <1>11, <1>12, <1>13, <1>14, <1>15, <1>16, <1>17, <1>18, <1>19 DEF ImportInv, UploadInv

\* A worker is done with a part.
LEMMA ReleasePartKeeps ==
  ASSUME ImportInv, NEW w \in Worker, ReleasePart(w), UNCHANGED importVars
  PROVE  ImportInv'
<1> USE DEF importVars
<1>1. part \in 0..MaxPart /\ file \in 0..MaxPart /\ pending \in Nat /\ MaxPart \in Nat
      /\ Cardinality(Busy) \in Nat
  BY BusyIsFinite, UploadAssumption DEF ImportInv, UploadInv, TypeOK
<1>2. worker[w].step = "release" 
  BY DEF ReleasePart
<1>3. /\ w \in Busy /\ serving /\ worker \in [Worker -> Work] /\ worker[w] \in Work
      /\ writer \notin {"publish", "done"}
  BY <1>2, BusyWorker
<1>4. PICK x \in Work : worker' = [worker EXCEPT ![w] = x] /\ x.buf = None /\ x.step = "idle" 
  <2>1. [Idle EXCEPT !.step = "idle"] \in Work
    BY UploadAssumption DEF Idle, Work, Steps, Tries
  <2> QED BY <1>3, <2>1 DEF ReleasePart, NextPart, Idle
<1>5. /\ worker' \in [Worker -> Work] /\ worker'[w] = x
      /\ \A v \in Worker : v # w => worker'[v] = worker[v]
  BY <1>4, WorkerMoves
<1>6. \A p : Puts(p)' <=> \/ \E v \in Worker \ {w} : /\ worker[v].part = p
                                                     /\ worker[v].step \in {"put", "fail"}
                          \/ x.part = p /\ x.step \in {"put", "fail"}
  BY <1>4, WorkerMoves
<1>7. Busy' = Busy \ {w}
  BY <1>4, <1>5 DEF Busy
<1>8. /\ pending' = pending - 1
      /\ UNCHANGED <<file, wvars, err, free, serving, swift, tries, listed, unheard>>
  BY DEF ReleasePart
<1>9. /\ pending = Cardinality(Busy) + (IF writer = "send" THEN 1 ELSE 0)
      /\ Cardinality(Busy') = Cardinality(Busy) - 1 /\ Cardinality(Busy) >= 1
  <2>1. Cardinality(Busy') = Cardinality(Busy) - 1
    BY <1>3, <1>7, BusyIsFinite, FS_RemoveElement
  <2>2. Cardinality(Busy) # 0
    BY <1>3, BusyIsFinite
  <2> QED BY <1>1, <2>1, <2>2 DEF ImportInv, UploadInv, Waiting
<1>10. TypeOK'
  <2>1. pending' \in Nat
    BY <1>1, <1>8, <1>9
  <2> QED BY <1>5, <1>8, <2>1 DEF ImportInv, UploadInv, TypeOK, Work, Steps, wvars, swift
<1>11. Buffers'
  BY <1>4, <1>5, <1>8 DEF ImportInv, UploadInv, Buffers, BufferHasOneUser, wvars
<1>12. Progress'
  <2>1. \A v \in Busy' : worker'[v].part \in 1..part
    BY <1>5, <1>7 DEF ImportInv, UploadInv, Progress, Busy
  <2> QED BY <1>8, <2>1 DEF ImportInv, UploadInv, Progress, wvars, swift
<1>13. Waiting'
  BY <1>1, <1>8, <1>9 DEF Waiting, wvars
<1>14. Running'
  BY <1>3, <1>8 DEF ImportInv, UploadInv, Running, wvars
<1>15. Segments'
  <2>1. \A p : Puts(p) => Puts(p)'
    BY <1>2, <1>6 DEF Puts
  <2> QED BY <1>8, <2>1 DEF ImportInv, UploadInv, Segments, wvars, swift
<1>16. Published'
  BY <1>3, <1>8 DEF Published, wvars
<1>17. Aborts'
  BY <1>3, <1>8 DEF Aborts, FailedCloseLeavesNothing, wvars
<1>18. ImportTypeOK'
  BY <1>10 DEF ImportInv, ImportTypeOK
<1>19. Stage'
  BY <1>1, <1>2, <1>3, <1>4, <1>5, <1>6, <1>7, <1>8, <1>9 DEF ImportInv, UploadInv,
    Stage, ReleasePart, wvars, swift, NextPart, Idle
<1>20. Imported'
  BY <1>1, <1>2, <1>3, <1>4, <1>5, <1>6, <1>7, <1>8, <1>9 DEF ImportInv, UploadInv,
    Imported, HasAllParts, ReleasePart, wvars, swift, NextPart, Idle, Stage
<1>21. CleanedUp'
  BY <1>3, <1>8 DEF CleanedUp
<1> QED BY <1>10, <1>11, <1>12, <1>13, <1>14, <1>15, <1>16, <1>17, <1>18, <1>19, <1>20, <1>21 DEF ImportInv, UploadInv

\* The pool frees buffers.
LEMMA ExpireKeeps ==
  ASSUME ImportInv, ExpireBuffers, UNCHANGED importVars
  PROVE  ImportInv'
<1> USE DEF importVars
<1>1. Busy' = Busy /\ \A p : Puts(p)' <=> Puts(p)
  BY DEF Busy, Puts, ExpireBuffers, wvars
<1>2. TypeOK'
  BY <1>1, UploadAssumption DEF ImportInv, UploadInv, TypeOK, ExpireBuffers, wvars,
    swift, Part, WriterSteps, Tries
<1>3. Buffers'
  BY <1>1 DEF ImportInv, UploadInv, Buffers, BufferHasOneUser, ExpireBuffers, wvars,
    swift
<1>4. Progress'
  BY <1>1 DEF ImportInv, UploadInv, Progress, ExpireBuffers, wvars, swift
<1>5. Waiting'
  BY <1>1 DEF ImportInv, UploadInv, Waiting, ExpireBuffers, wvars, swift
<1>6. Running'
  BY <1>1 DEF ImportInv, UploadInv, Running, ExpireBuffers, wvars, swift
<1>7. Segments'
  BY <1>1 DEF ImportInv, UploadInv, Segments, ExpireBuffers, wvars, swift, Progress,
    Running
<1>8. Published'
  BY <1>1 DEF ImportInv, UploadInv, Published, ExpireBuffers, wvars, swift, Segments,
    Progress, Running
<1>9. Aborts'
  BY <1>1 DEF ImportInv, UploadInv, Aborts, FailedCloseLeavesNothing, ExpireBuffers,
    wvars, swift, Running
<1>10. ImportTypeOK'
  BY <1>2 DEF ImportInv, ImportTypeOK
<1>11. Stage'
  BY <1>1 DEF ImportInv, UploadInv, Stage, ExpireBuffers, wvars, swift
<1>12. Imported'
  BY <1>1 DEF ImportInv, UploadInv, Imported, HasAllParts, ExpireBuffers,
    wvars, swift, Stage
<1>13. CleanedUp'
  BY <1>1 DEF ImportInv, UploadInv, CleanedUp, Empty, NoSegment, ExpireBuffers, wvars,
    swift, Running, Stage
<1> QED BY <1>2, <1>3, <1>4, <1>5, <1>6, <1>7, <1>8, <1>9, <1>10, <1>11, <1>12, <1>13 DEF ImportInv, UploadInv

-----------------------------------------------------------------------------
(* The steps of the import.                                                *)

\* While the upload does nothing it stays as it has to be.
LEMMA UploadRests ==
  ASSUME UploadInv, UNCHANGED loVars
  PROVE  TypeOK' /\ Buffers' /\ Progress' /\ Waiting' /\ Running' /\ Segments' /\ Aborts'
<1> USE DEF loVars, swift
<1>1. Busy' = Busy /\ \A p : Puts(p)' <=> Puts(p)
  BY DEF Busy, Puts
<1>2. TypeOK'
  BY DEF UploadInv, TypeOK
<1>3. Buffers' /\ Progress' /\ Waiting' /\ Running' /\ Segments' /\ Aborts'
  BY <1>1 DEF UploadInv, Buffers, BufferHasOneUser, Progress, Waiting, Running, Segments,
    Aborts, FailedCloseLeavesNothing
<1> QED BY <1>2, <1>3

\* The steps up to the deletes.
LEMMA ImportGoesOn ==
  ASSUME ImportInv, UNCHANGED loVars,
         Decompress \/ CreateContainer \/ Upload \/ CreateImage \/ SetBootMode
  PROVE  ImportInv'
<1> USE DEF loVars, swift, Then, Fails
<1>1. TypeOK' /\ Buffers' /\ Progress' /\ Waiting' /\ Running' /\ Segments' /\ Aborts'
  BY UploadRests DEF ImportInv
<1>2. CASE Decompress
  <2> USE <1>2 DEF Decompress
  <2>1. ImportTypeOK'
    BY <1>1 DEF ImportInv, ImportTypeOK
  <2>2. Published' /\ Stage'
    BY DEF ImportInv, UploadInv, Published, Stage
  <2>3. Imported' /\ CleanedUp'
    BY DEF ImportInv, UploadInv, Imported, HasAllParts, CleanedUp, Running, Stage
  <2> QED BY <1>1, <2>1, <2>2, <2>3 DEF ImportInv, UploadInv
<1>3. CASE CreateContainer
  <2> USE <1>3 DEF CreateContainer
  <2>1. ImportTypeOK'
    BY <1>1 DEF ImportInv, ImportTypeOK
  <2>2. Published' /\ Stage'
    BY DEF ImportInv, UploadInv, Published, Stage
  <2>3. Imported' /\ CleanedUp'
    BY DEF ImportInv, UploadInv, Imported, HasAllParts, CleanedUp, Running, Stage
  <2> QED BY <1>1, <2>1, <2>2, <2>3 DEF ImportInv, UploadInv
<1>4. CASE Upload
  <2> USE <1>4 DEF Upload
  <2>1. ImportTypeOK'
    BY <1>1 DEF ImportInv, ImportTypeOK
  <2>2. Published' /\ Stage'
    BY DEF ImportInv, UploadInv, Published, Stage
  <2>3. Imported' /\ CleanedUp'
    BY DEF ImportInv, UploadInv, Imported, HasAllParts, CleanedUp, Running, Stage
  <2> QED BY <1>1, <2>1, <2>2, <2>3 DEF ImportInv, UploadInv
<1>5. CASE CreateImage
  <2> USE <1>5 DEF CreateImage
  <2>1. ImportTypeOK'
    BY <1>1 DEF ImportInv, ImportTypeOK
  <2>2. Published' /\ Stage'
    BY DEF ImportInv, UploadInv, Published, Stage
  <2>3. Imported' /\ CleanedUp'
    BY DEF ImportInv, UploadInv, Imported, HasAllParts, CleanedUp, Running, Stage
  <2> QED BY <1>1, <2>1, <2>2, <2>3 DEF ImportInv, UploadInv
<1>6. CASE SetBootMode
  <2> USE <1>6 DEF SetBootMode
  <2>1. ImportTypeOK'
    BY <1>1 DEF ImportInv, ImportTypeOK
  <2>2. Published' /\ Stage'
    BY DEF ImportInv, UploadInv, Published, Stage
  <2>3. Imported' /\ CleanedUp'
    BY DEF ImportInv, UploadInv, Imported, HasAllParts, CleanedUp, Running, Stage
  <2> QED BY <1>1, <2>1, <2>2, <2>3 DEF ImportInv, UploadInv
<1> QED BY <1>2, <1>3, <1>4, <1>5, <1>6

\* The object is deleted, with its segments when there is a manifest.
LEMMA DeleteObjectKeeps ==
  ASSUME ImportInv, DeleteObject,
         UNCHANGED <<file, wvars, pending, err, free, serving, worker, tries, listed, unheard>>
  PROVE  ImportInv'
<1>1. /\ import = "deleteObject" /\ import' = "deleteContainer" /\ UNCHANGED outcome
      /\ UNCHANGED <<vhd, container, image, copied>>
      /\ UNCHANGED <<file, writer, eof, part, buf, pending, err, free, serving, worker, tries,
                     listed, unheard>>
  BY DEF DeleteObject, Then, wvars
<1>2. writer \in {"done", "failed"} /\ stored \in [Part -> {"absent", "good", "bad"}]
      /\ manifest \in BOOLEAN
  BY <1>1 DEF ImportInv, UploadInv, TypeOK, Stage
<1>3. /\ stored' \in [Part -> {"absent", "good", "bad"}] /\ manifest' \in BOOLEAN
      /\ \A p \in Part : stored'[p] = stored[p] \/ stored'[p] = "absent"
  BY <1>2 DEF DeleteObject, NoSegment, swift
<1>4. /\ logged \subseteq logged' /\ logged' \subseteq logged \cup {"noObject", "object"}
      /\ \/ manifest' = FALSE /\ stored' = NoSegment
         \/ ~manifest /\ UNCHANGED swift
         \/ "object" \in logged'
  BY DEF DeleteObject, Log
<1>5. Busy' = Busy /\ \A p : Puts(p)' <=> Puts(p)
  BY <1>1 DEF Busy, Puts
<1>6. TypeOK'
  BY <1>1, <1>3 DEF ImportInv, UploadInv, TypeOK
<1>7. Buffers' /\ Waiting' /\ Running'
  BY <1>1, <1>5 DEF ImportInv, UploadInv, Buffers, BufferHasOneUser, Waiting, Running
<1>8. Progress'
  BY <1>1, <1>3, <1>5 DEF ImportInv, UploadInv, Progress
<1>9. Segments' /\ Published'
  BY <1>1, <1>2 DEF Segments, Published
<1>10. Aborts'
  BY <1>1, <1>2, <1>3 DEF ImportInv, UploadInv, Aborts, FailedCloseLeavesNothing
<1>11. ImportTypeOK'
  BY <1>1, <1>4, <1>6 DEF ImportInv, ImportTypeOK
<1>12. Stage' /\ Imported'
  BY <1>1 DEF ImportInv, Stage, Imported, HasAllParts
<1>13. CleanedUp'
  <2> SUFFICES ASSUME ~serving, ~unheard, "object" \notin logged' PROVE Empty'
    BY <1>1 DEF CleanedUp
  <2>1. CASE manifest' = FALSE /\ stored' = NoSegment
    BY <2>1 DEF Empty, NoSegment
  <2>2. CASE ~manifest /\ UNCHANGED swift
    <3>1. writer = "failed"
      BY <1>1, <1>2, <2>2 DEF ImportInv, UploadInv, Published
    <3>2. \A p \in Part : stored[p] = "absent"
      BY <3>1 DEF ImportInv, UploadInv, Aborts, FailedCloseLeavesNothing
    <3>3. stored = NoSegment
      BY <1>2, <3>2 DEF NoSegment
    <3> QED BY <2>2, <3>3 DEF Empty, NoSegment, swift
  <2> QED BY <1>4, <2>1, <2>2
<1> QED BY <1>6, <1>7, <1>8, <1>9, <1>10, <1>11, <1>12, <1>13 DEF ImportInv, UploadInv

\* The container and the file are deleted.
LEMMA LastDeletesKeep ==
  ASSUME ImportInv, UNCHANGED loVars, DeleteContainer \/ DeleteFile
  PROVE  ImportInv'
<1>1. TypeOK' /\ Buffers' /\ Progress' /\ Waiting' /\ Running' /\ Segments' /\ Aborts'
  BY UploadRests DEF ImportInv
<1>2. /\ import \in {"deleteContainer", "deleteFile"} /\ import' \in {"deleteFile", "ended"}
      /\ UNCHANGED <<outcome, image, copied, file, writer, serving, unheard, manifest, stored>>
      /\ logged \subseteq logged' /\ logged' \subseteq logged \cup {"notEmpty", "container", "file"}
      /\ vhd' \in {vhd, "absent"} /\ container' \in {container, FALSE}
  BY DEF DeleteContainer, DeleteFile, Then, Log, loVars, swift
<1>3. ImportTypeOK'
  BY <1>1, <1>2 DEF ImportInv, ImportTypeOK
<1>4. Published' /\ Stage' /\ Imported'
  BY <1>2 DEF ImportInv, Published, Stage, Imported, HasAllParts
<1>5. CleanedUp'
  <2> SUFFICES ASSUME ~serving, ~unheard, "object" \notin logged'
               PROVE  Empty' /\ ("container" \notin logged' => ~container')
    BY <1>2 DEF CleanedUp
  <2>1. Empty /\ Empty'
    BY <1>2 DEF ImportInv, CleanedUp, Empty, NoSegment
  <2>2. CASE DeleteContainer
    BY <2>1, <2>2 DEF DeleteContainer, Log
  <2>3. CASE DeleteFile
    <3>1. import = "deleteFile" /\ UNCHANGED container
      BY <2>3 DEF DeleteFile
    <3>2. "container" \notin logged' => ~container
      BY <1>2, <3>1 DEF ImportInv, CleanedUp
    <3> QED BY <2>1, <3>1, <3>2
  <2> QED BY <2>1, <2>2, <2>3
<1> QED BY <1>1, <1>3, <1>4, <1>5 DEF ImportInv, UploadInv

\* SoftLayer ends reading the object: while the import waits for it, the
\* object has all parts and no other.
LEMMA ImageReadyKeeps ==
  ASSUME ImportInv, ImageReady
  PROVE  ImportInv'
<1>1. /\ image = "importing" /\ image' = "ready"
      /\ UNCHANGED <<import, outcome, vhd, container, logged>> /\ UNCHANGED loVars
      /\ copied' = IF manifest THEN {p \in Part : stored[p] = "good"} ELSE {}
  BY DEF ImageReady
<1>2. TypeOK' /\ Buffers' /\ Progress' /\ Waiting' /\ Running' /\ Segments' /\ Aborts'
  BY <1>1, UploadRests DEF ImportInv
<1>3. ImportTypeOK'
  BY <1>1, <1>2 DEF ImportInv, ImportTypeOK
<1>4. Published' /\ Stage' /\ CleanedUp'
  BY <1>1 DEF ImportInv, UploadInv, Published, Stage, CleanedUp, Empty, NoSegment, loVars, swift
<1>5. Imported'
  <2>1. outcome # "imported"
    BY <1>1 DEF ImportInv, Imported, HasAllParts
  <2>2. ASSUME import = "setBootMode" PROVE copied' = 1..file
    <3>1. writer = "done" /\ manifest /\ \A p \in 1..file : stored[p] = "good"
      BY <2>2 DEF ImportInv, UploadInv, Stage, Published
    <3>2. part = file /\ \A p \in Part : p > part => stored[p] = "absent"
      BY <3>1 DEF ImportInv, UploadInv, Progress
    <3>3. file \in 0..MaxPart /\ MaxPart \in Nat
      BY UploadAssumption DEF ImportInv, UploadInv, TypeOK
    <3>4. \A p \in Part : stored[p] = "good" <=> p \in 1..file
      BY <3>1, <3>2, <3>3 DEF Part
    <3>5. 1..file \subseteq Part
      BY <3>3 DEF Part
    <3> QED BY <1>1, <3>1, <3>4, <3>5
  <2> QED BY <1>1, <2>1, <2>2 DEF Imported, HasAllParts, loVars
<1> QED BY <1>2, <1>3, <1>4, <1>5 DEF ImportInv, UploadInv

-----------------------------------------------------------------------------
(* The invariant and the theorems.                                         *)

\* The invariant holds at the start.
LEMMA ImportStarts == ASSUME ImportInit PROVE ImportInv
<1> USE DEF ImportInit, Init
<1>1. TypeOK
  <2>1. Idle \in [step : {"idle", "put", "give", "fail", "release", "left"},
                  part : 0..MaxPart, try : 0..Tries, buf : Buffer \cup {None}]
    BY UploadAssumption DEF Idle, Tries
  <2>2. worker \in [Worker -> [step : {"idle", "put", "give", "fail", "release", "left"},
                              part : 0..MaxPart, try : 0..Tries, buf : Buffer \cup {None}]]
    BY <2>1
  <2>3. part \in 0..MaxPart /\ tries \in 0..Tries /\ pending \in Nat /\ file \in 0..MaxPart
    BY UploadAssumption DEF Tries
  <2>4. stored \in [Part -> {"absent", "good", "bad"}]
    OBVIOUS
  <2>5. writer \in WriterSteps /\ free \in SUBSET Buffer /\ listed \in SUBSET Part
    BY DEF WriterSteps
  <2> QED BY <2>2, <2>3, <2>4, <2>5 DEF TypeOK
<1>2. Busy = {} /\ Cardinality(Busy) = 0
  <2>1. Busy = {}
    BY DEF Busy, Idle
  <2> QED BY <2>1, FS_EmptySet
<1>3. Buffers /\ Waiting /\ Running
  BY <1>2 DEF Buffers, BufferHasOneUser, Waiting, Running, Idle
<1>4. Progress
  BY <1>1, <1>2 DEF Progress, TypeOK
<1>5. Segments /\ Published /\ Aborts
  BY DEF Segments, Published, Aborts, FailedCloseLeavesNothing
<1>6. ImportTypeOK
  BY <1>1 DEF ImportTypeOK
<1>7. Stage /\ Imported /\ CleanedUp
  BY DEF Stage, Imported, HasAllParts, CleanedUp
<1> QED BY <1>1, <1>3, <1>4, <1>5, <1>6, <1>7 DEF ImportInv, UploadInv

\* Every step keeps it.
LEMMA ImportKeeps == ASSUME ImportInv, [ImportNext]_allVars PROVE ImportInv'
<1>1. ASSUME UNCHANGED allVars PROVE ImportInv'
  <2>1. UNCHANGED loVars /\ UNCHANGED importVars
    BY <1>1 DEF allVars
  <2>2. TypeOK' /\ Buffers' /\ Progress' /\ Waiting' /\ Running' /\ Segments' /\ Aborts'
    BY <2>1, UploadRests DEF ImportInv
  <2>3. ImportTypeOK' /\ Published' /\ Stage' /\ Imported' /\ CleanedUp'
    BY <2>1, <2>2 DEF loVars, swift, importVars, ImportInv, UploadInv, ImportTypeOK, Published,
      Stage, Imported, HasAllParts, CleanedUp, Empty, NoSegment
  <2> QED BY <2>2, <2>3 DEF ImportInv, UploadInv
<1>2. ASSUME ImportStep PROVE ImportInv'
  BY <1>2, ImportGoesOn, DeleteObjectKeeps, LastDeletesKeep DEF ImportStep
<1>3. ASSUME UploadStep PROVE ImportInv'
  <2>1. import = "upload" /\ UNCHANGED importVars /\ WriterStep
    BY <1>3 DEF UploadStep
  <2>2. CASE Open \/ Write \/ GetBuffer \/ Flush
    BY <2>1, <2>2, OpenKeeps, WriteKeeps, GetBufferKeeps, FlushKeeps
  <2>3. CASE Close
    BY <2>1, <2>3, CloseFlushKeeps, CloseEndsKeeps
  <2>4. CASE ReadFails \/ Finish \/ Publish
    BY <2>1, <2>4, ReadFailsKeeps, FinishKeeps, PublishKeeps
  <2>5. CASE ListSegments \/ DeleteSegment \/ Aborted
    BY <2>1, <2>5, ListKeeps, DeleteSegmentKeeps, AbortedKeeps
  <2>6. CASE \E w \in Worker : Send(w)
    BY <2>1, <2>6, SendKeeps
  <2> QED BY <2>1, <2>2, <2>3, <2>4, <2>5, <2>6 DEF WriterStep
<1>4. ASSUME NEW w \in Worker, WorkerGoesOn(w) PROVE ImportInv'
  <2>1. UNCHANGED importVars /\ WorkerStep(w)
    BY <1>4 DEF WorkerGoesOn
  <2> QED BY <2>1, PutPartKeeps, GiveBufferKeeps, FailPartKeeps, ReleasePartKeeps DEF WorkerStep
<1>5. ASSUME PoolStep PROVE ImportInv'
  BY <1>5, ExpireKeeps DEF PoolStep
<1> QED BY <1>1, <1>2, <1>3, <1>4, <1>5, ImageReadyKeeps DEF ImportNext, Exited

\* The invariant holds always.
THEOREM ImportInductive == ImportSpec => []ImportInv
<1>1. ImportInit => ImportInv
  BY ImportStarts
<1>2. ImportInv /\ [ImportNext]_allVars => ImportInv'
  BY ImportKeeps
<1> QED BY <1>1, <1>2, PTL DEF ImportSpec

\* The variables always have the types the code gives them: above all the
\* wait group never goes below zero, which would panic.
THEOREM ImportTypeCorrect == ImportSpec => []ImportTypeOK
<1>1. ImportInv => ImportTypeOK
  BY DEF ImportInv
<1> QED BY <1>1, ImportInductive, PTL

\* No buffer is filled while a worker sends from it, nor lent twice, for any
\* number of workers and of buffers.
THEOREM BuffersAreNotShared == ImportSpec => []BufferHasOneUser
<1>1. ImportInv => BufferHasOneUser
  BY DEF ImportInv, UploadInv, Buffers
<1> QED BY <1>1, ImportInductive, PTL

\* A Close that fails leaves no segment behind: the abort lists when no
\* worker can store any more.
THEOREM FailedCloseIsClean == ImportSpec => []FailedCloseLeavesNothing
<1>1. ImportInv => FailedCloseLeavesNothing
  BY DEF ImportInv, UploadInv, Aborts
<1> QED BY <1>1, ImportInductive, PTL

\* The names of the first nine parts are in the order of the parts.
LEMMA NineInOrder ==
  ASSUME NEW n \in Nat, n <= 9
  PROVE  InOrder(1..n)
  BY DEF InOrder, SegmentBefore, Lead

\* The id of an image is answered only for an image with all parts of the
\* file, whatever their number up to MaxPart, and in their order if there are
\* nine at most.
THEOREM ImportedIsWhole == ImportSpec => []ImportedImageIsWhole
<1>1. ImportInv => ImportedImageIsWhole
  <2> SUFFICES ASSUME ImportInv, outcome = "imported"
               PROVE  image = "ready" /\ copied = 1..file /\ (file <= 9 => InOrder(copied))
    BY DEF ImportedImageIsWhole
  <2>1. image = "ready" /\ copied = 1..file
    BY DEF ImportInv, Imported, HasAllParts
  <2>2. file \in Nat
    BY UploadAssumption DEF ImportInv, UploadInv, TypeOK
  <2> QED BY <2>1, <2>2, NineInOrder
<1> QED BY <1>1, ImportInductive, PTL

\* An import whose upload came to Close leaves no container behind.
THEOREM ClosedImportIsClean == ImportSpec => []ClosedImportLeavesNothing
<1>1. ImportInv => ClosedImportLeavesNothing
  BY DEF ImportInv, CleanedUp, ClosedImportLeavesNothing
<1> QED BY <1>1, ImportInductive, PTL

=============================================================================

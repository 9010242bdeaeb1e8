--------------------------- MODULE StemcellImport ---------------------------
(***************************************************************************)
(* create_stemcell of a tarball (softlayer_stemcell_service_create.go):    *)
(* decompress it, make a Swift container, upload the image as a segmented  *)
(* object (LargeObject), let SoftLayer import it, and delete object,       *)
(* container and file in deferred functions, the last registered first.    *)
(* The goroutines of the upload live until the process exits, so workers   *)
(* that a failed upload left behind run next to the deferred deletes.      *)
(***************************************************************************)
EXTENDS LargeObject

VARIABLES
    import,     \* the next step of CreateFromTarball
    outcome,    \* what it will answer
    vhd,        \* the decompressed file
    container,  \* the Swift container exists
    image,      \* the image template at SoftLayer
    copied,     \* the parts of the file in the image, joined by SegmentBefore
    logged      \* the errors of the deferred functions, which are only logged

importVars == <<import, outcome, vhd, container, image, copied, logged>>
allVars    == <<loVars, importVars>>

ImportInit ==
    /\ Init
    /\ import = "decompress" /\ outcome = "none" /\ vhd = "absent"
    /\ container = FALSE /\ image = "absent" /\ copied = {}
    /\ logged = {}

Then(step) == import' = step /\ UNCHANGED outcome
Fails(step) == import' = step /\ outcome' = "failed"
Log(what) == logged' = logged \cup {what}

\* The file is made whole, or with an error, partly.  The deferred delete
\* takes the path that decompressTarBall answers: none after an error.
Decompress ==
    /\ import = "decompress"
    /\ \/ vhd' = "whole" /\ Then("createContainer")
       \/ "uuid" \in MayFail /\ vhd' = "whole" /\ Fails("deleteFile")
       \/ "decompress" \in MayFail /\ vhd' \in {"absent", "partial"} /\ Fails("deleteFile")
    /\ UNCHANGED <<container, image, copied, logged>>

CreateContainer ==
    /\ import = "createContainer"
    /\ \/ container' = TRUE /\ Then("upload")
       \/ /\ "createContainer" \in MayFail /\ Fails("deleteContainer")
          /\ container' \in BOOLEAN
    /\ UNCHANGED <<vhd, image, copied, logged>>

\* UploadSwiftLargeObject has returned.
Upload ==
    /\ import = "upload"
    /\ \/ writer = "done" /\ Then("createImage")
       \/ writer = "failed" /\ Fails("deleteObject")
    /\ UNCHANGED <<vhd, container, image, copied, logged>>

\* CreateFromExternalSource answers the new image while SoftLayer reads the
\* object.
CreateImage ==
    /\ import = "createImage"
    /\ \/ /\ image' = "importing"
          /\ Then("setBootMode") \/ ("createImage" \in MayLose /\ Fails("deleteObject"))
       \/ "createImage" \in MayFail /\ Fails("deleteObject") /\ UNCHANGED image
    /\ UNCHANGED <<vhd, container, copied, logged>>

\* setImageBootModeAsHVM: "Unable to find the primary block device" until the
\* image is there, asked again without a pause and without a deadline.
SetBootModeEarly ==    \* the answer taken for success
    /\ import = "setBootMode" /\ import' = "deleteObject" /\ outcome' = "imported"
    /\ UNCHANGED <<vhd, container, image, copied, logged>>
SetBootMode ==
    /\ import = "setBootMode"
    /\ \/ image = "ready" /\ import' = "deleteObject" /\ outcome' = "imported"
       \/ "setBootMode" \in MayFail /\ Fails("deleteObject")
    /\ UNCHANGED <<vhd, container, image, copied, logged>>

\* DeleteSwiftLargeObject finds the segments through the manifest: without
\* it nothing is deleted ("Object Not Found").  A request refused on the way
\* leaves any of them.
NoSegment == [p \in Part |-> "absent"]
DeleteManifest ==    \* ObjectDelete: no segments
    /\ import = "deleteObject" /\ manifest' = FALSE /\ Then("deleteContainer")
    /\ UNCHANGED <<stored, vhd, container, image, copied, logged>>
DeleteObject ==
    /\ import = "deleteObject" /\ Then("deleteContainer")
    /\ \/ manifest /\ manifest' = FALSE /\ stored' = NoSegment /\ UNCHANGED logged
       \/ ~manifest /\ Log("noObject") /\ UNCHANGED swift
       \/ /\ "deleteObject" \in MayFail /\ manifest /\ Log("object")
          /\ manifest' \in BOOLEAN
          /\ \E s \in SUBSET Part :
               stored' = [p \in Part |-> IF p \in s THEN "absent" ELSE stored[p]]
    /\ UNCHANGED <<vhd, container, image, copied>>

\* Swift deletes no container with objects in it.
Empty == ~manifest /\ stored = NoSegment
DeleteContainer ==
    /\ import = "deleteContainer" /\ Then("deleteFile")
    /\ \/ Empty /\ container' = FALSE /\ UNCHANGED logged
       \/ ~Empty /\ Log("notEmpty") /\ UNCHANGED container
       \/ "deleteContainer" \in MayFail /\ Log("container") /\ UNCHANGED container
    /\ UNCHANGED <<vhd, image, copied>>

DeleteFile ==
    /\ import = "deleteFile" /\ Then("ended")
    /\ IF vhd = "whole" THEN vhd' = "absent" /\ UNCHANGED logged
       ELSE Log("file") /\ UNCHANGED vhd
    /\ UNCHANGED <<container, image, copied>>

\* SoftLayer ends reading the object, which has what it has by then.
ImageReady ==
    /\ image = "importing" /\ image' = "ready"
    /\ copied' = IF manifest THEN {p \in Part : stored[p] = "good"} ELSE {}
    /\ UNCHANGED <<import, outcome, vhd, container, logged, loVars>>

ImportStep ==
    \/ /\ \/ Decompress \/ CreateContainer \/ Upload \/ CreateImage \/ SetBootMode
          \/ DeleteContainer \/ DeleteFile
       /\ UNCHANGED loVars
    \/ DeleteObject /\ UNCHANGED <<file, wvars, pending, err, free, serving, worker,
                                   tries, listed, unheard>>

\* The writer runs inside the upload; the workers and the pool run until the
\* process exits, and a put into a container that is gone is refused.
UploadStep == import = "upload" /\ WriterStep /\ UNCHANGED importVars
WorkerGoesOn(w) ==
    /\ import # "ended" /\ WorkerStep(w) /\ UNCHANGED importVars
    /\ container \/ UNCHANGED stored
PoolStep == import # "ended" /\ ExpireBuffers /\ UNCHANGED importVars

Exited == import = "ended" /\ image # "importing" /\ UNCHANGED allVars

ImportNext ==
    \/ ImportStep
    \/ UploadStep
    \/ \E w \in Worker : WorkerGoesOn(w)
    \/ PoolStep
    \/ ImageReady
    \/ Exited

ImportSpec == ImportInit /\ [][ImportNext]_allVars

\* Every goroutine that can run is run some day, every request to Swift is
\* answered or times out, and SoftLayer ends the imports it began.
FairImportSpec ==
    /\ ImportSpec
    /\ WF_allVars(ImportStep) /\ WF_allVars(UploadStep)
    /\ \A w \in Worker : WF_allVars(WorkerGoesOn(w))
    /\ WF_allVars(ImageReady)

-----------------------------------------------------------------------------
(* Properties.                                                             *)

\* Types of all variables, those of the upload included.
ImportTypeOK ==
    /\ TypeOK
    /\ import \in {"decompress", "createContainer", "upload", "createImage", "setBootMode",
                   "deleteObject", "deleteContainer", "deleteFile", "ended"}
    /\ outcome \in {"none", "imported", "failed"}
    /\ vhd \in {"absent", "partial", "whole"}
    /\ container \in BOOLEAN
    /\ image \in {"absent", "importing", "ready"}
    /\ copied \in SUBSET Part
    /\ logged \in SUBSET {"noObject", "object", "notEmpty", "container", "file"}

\* An import that answers an image id has an image with every part of the
\* file: no segment is missing when SoftLayer reads the object, and the object
\* is there until SoftLayer has read it.  The parts are in their order if
\* there are nine at most: from ten on the names putPart makes, decimals without
\* the padding that NewLargeObject's comment gives them, sort otherwise.
InOrder(parts) == \A p, q \in parts : p < q => SegmentBefore(p, q)
ImportedImageIsWhole ==
    outcome = "imported" =>
        image = "ready" /\ copied = 1..file /\ (file <= 9 => InOrder(copied))

\* If the upload came as far as Close, the import leaves no container behind,
\* and so no object and no segment, whether it succeeded or failed, except
\* when Swift refused one of the requests that clean up.
ClosedImportLeavesNothing ==
    import = "ended" /\ ~serving /\ ~unheard /\ {"object", "container"} \cap logged = {}
        => ~container

\* Every import ends: neither the upload nor the wait for the image hangs.
ImportEnds == <>(import = "ended")
=============================================================================

---------------------------- MODULE ReceiptFiles ----------------------------
(***************************************************************************)
(* The photos of one submission on disk and the paths its image row gives  *)
(* for them.  Photos are uploaded to the temporary directory and moved to  *)
(* the permanent one when the receipt is verified, or straight after the   *)
(* analysis when the review is bypassed; deleting the receipt, or the      *)
(* submission before its analysis, deletes them.  A move on disk and the   *)
(* write of the row that follows it are two steps, and each request works  *)
(* on the copy of the row it read first.  Thumbnails move with their photo *)
(* and are left out, and so is a second receipt, for a submission whose    *)
(* first one was deleted before the analysis was done.                     *)
(***************************************************************************)
EXTENDS Naturals

CONSTANTS
    Last,       \* photos are numbered 0 .. Last, in upload order
    Uploader,   \* the POST /images request
    Verifier,   \* POST /receipts/{id}/verify requests
    Deleter,    \* DELETE /receipts/{id} requests
    Discarder,  \* DELETE /images/{id} requests
    Mover,      \* the analysis that bypasses review (at most one)
    MaxFaults   \* bound on requests that die half-way

Request == Uploader \cup Verifier \cup Deleter \cup Discarder \cup Mover

ASSUME PhotosAssumption == Last \in Nat /\ MaxFaults \in Nat
ASSUME RequestAssumption ==
    /\ Verifier \cap (Deleter \cup Discarder) = {} /\ Deleter \cap Discarder = {}
    /\ Mover \cap (Verifier \cup Deleter \cup Discarder) = {}
    /\ Uploader \cap (Verifier \cup Deleter \cup Discarder \cup Mover) = {}
    /\ \A b, c \in Mover : b = c
    /\ \A b, c \in Uploader : b = c

Photo == 0 .. Last

\* temp_<uuid>.png, receipt_<id>.png and <uuid>_receipt_<id>.png
Temp(p)  == <<"temp", p>>
Main     == <<"perm", 0>>
Spare(n) == <<"perm", n>>
Path     == {"temp", "perm"} \X Nat

VARIABLES
    disk,       \* the photo at each existing path
    spares,     \* uuid names given so far
    row,        \* whether the image row exists
    adrift,     \* whether its INSERT is under way and nobody waits for it
    status,     \* images.status, by whether it is claimed and analyzed
    paths,      \* images.image_path (photo 0) and images.additional_images
    seen,       \* whether an analysis has read the photos
    receipt,    \* receipts.status
    pc,
    copy,       \* the paths of the row each request read
    at,         \* the photo a request is moving
    overlapped, \* history: whether a request began while another was running
    cleaned,    \* history: whether the upload unlinked photos that were read
    faults

vars == <<disk, spares, row, adrift, status, paths, seen, receipt, pc, copy, at, overlapped,
          cleaned, faults>>
\* What the rest of the requests leave alone.
upload == <<adrift, seen, cleaned>>

Place == {"idle", "store", "clean", "image", "mark", "move", "write", "verify", "drop", "unlink",
          "done"}

TypeOK ==
    /\ DOMAIN disk \subseteq Path
    /\ \A f \in DOMAIN disk : disk[f] \in Photo
    /\ spares \in Nat
    /\ row \in BOOLEAN /\ adrift \in BOOLEAN /\ seen \in BOOLEAN
    /\ status \in {"queued", "processing", "analyzed"}
    /\ paths \in [Photo -> Path]
    /\ receipt \in {"none", "unverified", "verified", "deleted"}
    /\ pc \in [Request -> Place]
    /\ copy \in [Request -> [Photo -> Path]]
    /\ at \in [Request -> 0 .. Last + 1]
    /\ overlapped \in BOOLEAN /\ cleaned \in BOOLEAN
    /\ faults \in 0 .. MaxFaults

Uploaded == [p \in Photo |-> Temp(p)]

\* Before the upload: the row will have the paths of the temporary files.
Init ==
    /\ disk = [f \in {} |-> 0]
    /\ spares = 0
    /\ row = FALSE /\ adrift = FALSE /\ seen = FALSE
    /\ status = "queued"
    /\ paths = Uploaded
    /\ receipt = "none"
    /\ pc = [h \in Request |-> "idle"]
    /\ copy = [h \in Request |-> Uploaded]
    /\ at = [h \in Request |-> 0]
    /\ overlapped = FALSE /\ cleaned = FALSE
    /\ faults = 0

-----------------------------------------------------------------------------
InFlight(h) == pc[h] \notin {"idle", "done"}
Starts(h) ==
    /\ pc[h] = "idle"
    /\ overlapped' = (overlapped \/ \E g \in Request : InFlight(g))

Go(h, p) == pc' = [pc EXCEPT ![h] = p]

Fault == faults < MaxFaults /\ faults' = faults + 1

-----------------------------------------------------------------------------
(* Uploading the photos: POST /images *)

UploadStart(h) ==
    /\ h \in Uploader
    /\ Starts(h)
    /\ Go(h, "store")
    /\ UNCHANGED <<disk, spares, row, status, paths, receipt, copy, at, faults, upload>>

\* One photo is read from the request and written to its temporary file.
Store(h) ==
    /\ pc[h] = "store" /\ at[h] \in Photo
    /\ disk' = [f \in DOMAIN disk \cup {Temp(at[h])} |->
                  IF f = Temp(at[h]) THEN at[h] ELSE disk[f]]
    /\ at' = [at EXCEPT ![h] = @ + 1]
    /\ UNCHANGED <<spares, row, status, paths, receipt, pc, copy, overlapped, faults, upload>>

\* INSERT INTO images
InsertRow(h) ==
    /\ pc[h] = "store" /\ at[h] \notin Photo
    /\ row' = TRUE
    /\ Go(h, "done")
    /\ UNCHANGED <<disk, spares, status, paths, receipt, copy, at, overlapped, faults, upload>>

Without(files) == disk' = [f \in DOMAIN disk \ files |-> disk[f]]
Uploads == {Temp(p) : p \in Photo}

\* A photo is refused, the client goes away or the INSERT fails: the photos
\* stored so far are unlinked.
UploadFails(h) ==
    /\ pc[h] = "store"
    /\ Without(Uploads)
    /\ Go(h, "done")
    /\ UNCHANGED <<spares, row, status, paths, receipt, copy, at, overlapped, faults, upload>>

\* The answer of the INSERT is lost: it takes effect now, or later, ...
InsertLost(h) ==
    /\ Fault
    /\ pc[h] = "store" /\ at[h] \notin Photo
    /\ adrift' = TRUE
    /\ Go(h, "clean")
    /\ UNCHANGED <<disk, spares, row, status, paths, seen, receipt, copy, at, overlapped, cleaned>>

InsertLands ==
    /\ adrift
    /\ row' = TRUE
    /\ adrift' = FALSE
    /\ UNCHANGED <<disk, spares, status, paths, seen, receipt, pc, copy, at, overlapped, cleaned,
                   faults>>

\* ... and when the upload hears of the failure it unlinks the photos, read
\* or not.
CleanUp(h) ==
    /\ pc[h] = "clean"
    /\ Without(Uploads)
    /\ cleaned' = (cleaned \/ (seen /\ Uploads \cap DOMAIN disk # {}))
    /\ Go(h, "done")
    /\ UNCHANGED <<spares, row, adrift, status, paths, seen, receipt, copy, at, overlapped, faults>>

-----------------------------------------------------------------------------
(* The analysis, as far as it matters here.  An attempt whose claim was    *)
(* taken over goes on all the same.                                        *)

Claim ==
    /\ row /\ status = "queued"
    /\ status' = "processing"
    /\ UNCHANGED <<disk, spares, row, paths, receipt, pc, copy, at, overlapped, faults, upload>>

\* The photos are read for the model, all of them or the analysis fails, ...
ReadPhotos ==
    /\ row /\ status = "processing" /\ receipt = "none"
    /\ \A p \in Photo : paths[p] \in DOMAIN disk
    /\ seen' = TRUE
    /\ UNCHANGED <<disk, spares, row, status, paths, receipt, pc, copy, at, overlapped,
                   adrift, cleaned, faults>>

\* ... and it answers: nobody looks at the files again, and the row is there
\* when the receipt that refers to it is inserted.
Analysed == row /\ seen /\ receipt = "none"

\* persist_receipt of a submission to review
Persist ==
    /\ Analysed
    /\ receipt' = "unverified"
    /\ UNCHANGED <<disk, spares, row, status, paths, pc, copy, at, overlapped, faults, upload>>

\* An analysis that has its receipt, or finds it after a failure, marks the
\* image ...
MarkAnalyzed ==
    /\ row /\ receipt \in {"unverified", "verified"}
    /\ status' = "analyzed"
    /\ UNCHANGED <<disk, spares, row, paths, receipt, pc, copy, at, overlapped, faults, upload>>

\* ... and one that fails, or does not hear that it marked the image, puts it
\* back, or to rest: mark_failed, mark_terminal.
MarkFailed ==
    /\ row /\ status # "queued"
    /\ status' = "queued"
    /\ UNCHANGED <<disk, spares, row, paths, receipt, pc, copy, at, overlapped, faults, upload>>

-----------------------------------------------------------------------------
(* Requests on the receipt and the image begin *)

\* Mutant: the receipt is verified first and its photos are moved after that.
VerifyBeforeMoving(h) ==
    /\ h \in Verifier
    /\ Starts(h)
    /\ IF receipt = "unverified"
       THEN receipt' = "verified" /\ Go(h, "image")
       ELSE UNCHANGED receipt /\ Go(h, "done")
    /\ UNCHANGED <<disk, spares, row, status, paths, copy, at, faults, upload>>

\* The receipt is looked up; a missing (404) or verified (409) one ends it.
VerifyStart(h) ==
    /\ h \in Verifier
    /\ Starts(h)
    /\ Go(h, IF receipt = "unverified" THEN "image" ELSE "done")
    /\ UNCHANGED <<disk, spares, row, status, paths, receipt, copy, at, faults, upload>>

\* persist_receipt of a submission that bypasses review; the moves use the
\* row of the claim, which nobody has changed since.
MoverStart(h) ==
    /\ h \in Mover
    /\ Analysed
    /\ Starts(h)
    /\ receipt' = "verified"
    /\ copy' = [copy EXCEPT ![h] = paths]
    /\ Go(h, "mark")
    /\ UNCHANGED <<disk, spares, row, status, paths, at, faults, upload>>

\* The row cannot refer to a receipt that was deleted; a row that is gone is
\* not missed.
MoverMarks(h) ==
    /\ pc[h] = "mark"
    /\ IF row /\ receipt = "deleted"
       THEN Go(h, "done") /\ UNCHANGED status
       ELSE Go(h, "move") /\ status' = IF row THEN "analyzed" ELSE status
    /\ UNCHANGED <<disk, spares, row, paths, receipt, copy, at, overlapped, faults, upload>>

\* The receipt row goes first.
DeleteStart(h) ==
    /\ h \in Deleter
    /\ Starts(h)
    /\ IF receipt \in {"unverified", "verified"}
       THEN receipt' = "deleted" /\ Go(h, "image")
       ELSE UNCHANGED receipt /\ Go(h, "done")
    /\ UNCHANGED <<disk, spares, row, status, paths, copy, at, faults, upload>>

\* A submission that is being analysed, or was, is kept (409).
DiscardStart(h) ==
    /\ h \in Discarder
    /\ Starts(h)
    /\ IF row /\ status = "queued"
       THEN copy' = [copy EXCEPT ![h] = paths] /\ Go(h, "drop")
       ELSE UNCHANGED copy /\ Go(h, "done")
    /\ UNCHANGED <<disk, spares, row, status, paths, receipt, at, faults, upload>>

\* get_image_by_id: the copy the rest of the request works on.
ReadImage(h) ==
    /\ pc[h] = "image"
    /\ copy' = IF row THEN [copy EXCEPT ![h] = paths] ELSE copy
    /\ Go(h, CASE row /\ h \in Verifier -> "move"
               [] row /\ h \in Deleter  -> "drop"
               [] ~row /\ h \in Verifier -> "verify"
               [] OTHER -> "done")
    /\ UNCHANGED <<disk, spares, row, status, paths, receipt, at, overlapped, faults, upload>>

-----------------------------------------------------------------------------
(* Moving the photos: store_perm_image, update_image_path and              *)
(* move_additional_images                                                  *)

\* Mutant: a photo is moved onto an existing file.
OneName == Main

\* The first free name: receipt_<id>.png, else one with a new uuid.
Destination == IF Main \in DOMAIN disk THEN Spare(spares + 1) ELSE Main

MoveFile(from, to) ==
    disk' = [f \in (DOMAIN disk \ {from}) \cup {to} |->
               IF f = to THEN disk[from] ELSE disk[f]]

\* What follows the last photo.
After(h) == IF h \in Verifier THEN "verify" ELSE "done"

\* A file that is not there is not moved; the list of additional photos is
\* written back all the same.
Move(h) ==
    LET from == copy[h][at[h]] IN
    /\ pc[h] = "move"
    /\ IF from \in DOMAIN disk
       THEN /\ MoveFile(from, Destination)
            /\ spares' = IF Destination = Main THEN spares ELSE spares + 1
            /\ copy' = [copy EXCEPT ![h][at[h]] = Destination]
            /\ Go(h, "write")
            /\ UNCHANGED at
       ELSE /\ UNCHANGED <<disk, spares, copy>>
            /\ IF at[h] = 0
               THEN /\ Go(h, IF Last = 0 THEN After(h) ELSE "move")
                    /\ at' = [at EXCEPT ![h] = 1]
               ELSE Go(h, "write") /\ UNCHANGED at
    /\ UNCHANGED <<row, status, paths, receipt, overlapped, faults, upload>>

\* Mutants: the additional photos are moved and their list is not written
\* back; the list takes the place of the first photo's path too.
WritePrimaryOnly(h) ==
    /\ pc[h] = "write"
    /\ paths' = IF row /\ at[h] = 0 THEN [paths EXCEPT ![0] = copy[h][0]] ELSE paths
    /\ at' = [at EXCEPT ![h] = @ + 1]
    /\ Go(h, IF at[h] = Last THEN After(h) ELSE "move")
    /\ UNCHANGED <<disk, spares, row, status, receipt, copy, overlapped, faults, upload>>
WriteListOnly(h) ==
    /\ pc[h] = "write"
    /\ paths' = IF row THEN [p \in Photo \ {0} |-> copy[h][p]] ELSE paths
    /\ at' = [at EXCEPT ![h] = @ + 1]
    /\ Go(h, IF at[h] = Last THEN After(h) ELSE "move")
    /\ UNCHANGED <<disk, spares, row, status, receipt, copy, overlapped, faults, upload>>

\* Photo 0 has a column of its own; the others are one JSON list, written
\* whole from the request's copy.
WritePath(h) ==
    /\ pc[h] = "write"
    /\ paths' = IF ~row THEN paths
                ELSE IF at[h] = 0 THEN [paths EXCEPT ![0] = copy[h][0]]
                ELSE [copy[h] EXCEPT ![0] = paths[0]]
    /\ at' = [at EXCEPT ![h] = @ + 1]
    /\ Go(h, IF at[h] = Last THEN After(h) ELSE "move")
    /\ UNCHANGED <<disk, spares, row, status, receipt, copy, overlapped, faults, upload>>

\* UPDATE receipts SET status = 'verified': no row, no effect (404).
VerifyWrite(h) ==
    /\ pc[h] = "verify"
    /\ receipt' = IF receipt = "deleted" THEN receipt ELSE "verified"
    /\ Go(h, "done")
    /\ UNCHANGED <<disk, spares, row, status, paths, copy, at, overlapped, faults, upload>>

-----------------------------------------------------------------------------
(* The rest of deleting the receipt, or the submission *)

DropRow(h) ==
    /\ pc[h] = "drop"
    /\ row' = FALSE
    /\ Go(h, "unlink")
    /\ UNCHANGED <<disk, spares, status, paths, receipt, copy, at, overlapped, faults, upload>>

\* Mutant: only the first photo is unlinked.
UnlinkPrimary(h) ==
    /\ pc[h] = "unlink"
    /\ Without({copy[h][0]})
    /\ Go(h, "done")
    /\ UNCHANGED <<spares, row, status, paths, receipt, copy, at, overlapped, faults, upload>>

\* Every part of the row that was read, if its file is there.
Unlink(h) ==
    /\ pc[h] = "unlink"
    /\ Without({copy[h][p] : p \in Photo})
    /\ Go(h, "done")
    /\ UNCHANGED <<spares, row, status, paths, receipt, copy, at, overlapped, faults, upload>>

\* An exception or the end of the process: the request never goes on, and an
\* INSERT it has sent may still take effect.
Dies(h) ==
    /\ Fault
    /\ InFlight(h)
    /\ adrift' = (adrift \/ (pc[h] = "store" /\ at[h] \notin Photo))
    /\ Go(h, "done")
    /\ UNCHANGED <<disk, spares, row, status, paths, seen, receipt, copy, at, overlapped, cleaned>>

Next ==
    \/ InsertLands \/ Claim \/ ReadPhotos \/ Persist \/ MarkAnalyzed \/ MarkFailed
    \/ \E h \in Request :
          \/ UploadStart(h) \/ Store(h) \/ InsertRow(h) \/ UploadFails(h)
          \/ InsertLost(h) \/ CleanUp(h)
          \/ VerifyStart(h) \/ MoverStart(h) \/ DeleteStart(h) \/ DiscardStart(h)
          \/ ReadImage(h) \/ MoverMarks(h)
          \/ Move(h) \/ WritePath(h) \/ VerifyWrite(h)
          \/ DropRow(h) \/ Unlink(h)
          \/ Dies(h)

Spec == Init /\ [][Next]_vars

-----------------------------------------------------------------------------
(* Properties *)

\* Whatever requests overlap or die, no photo of a submission with a receipt is
\* overwritten, or unlinked before its row is gone (store_perm_image never
\* moves onto a file; both deletions drop the row first), except by an upload
\* whose INSERT took effect without an answer, and only if the photos were
\* read before that: without them there is no receipt (_build_image_messages).
PhotosSurvive ==
    row /\ receipt # "none" /\ ~cleaned => \A p \in Photo : \E f \in DOMAIN disk : disk[f] = p

\* A receipt verified by a request, not by its own analysis, has no photo
\* left in the temporary directory (verify_receipt moves, then verifies).
VerifiedIsPermanent ==
    row /\ receipt = "verified" /\ (\A h \in Mover : pc[h] = "idle") =>
        \A p \in Photo : Temp(p) \notin DOMAIN disk

\* No step puts another photo into a file that is there, and while the row
\* stays, a file goes only by becoming a new one in the permanent directory,
\* with the same photo (store_perm_image takes a free path; delete_receipt and
\* delete_image unlink when the row is deleted), unless the step is that of an
\* upload which was not told that its row is there.
FileKept ==
    /\ \A f \in DOMAIN disk \cap DOMAIN disk' : disk'[f] = disk[f]
    /\ row /\ row' /\ (\A h \in Uploader : pc'[h] = pc[h]) =>
          \A f \in DOMAIN disk \ DOMAIN disk' :
              \E g \in DOMAIN disk' \ DOMAIN disk : g[1] = "perm" /\ disk'[g] = disk[f]
FilesAreKept == [][FileKept]_vars

Quiet == \A h \in Request : ~InFlight(h)

\* Requests that neither overlap nor die leave a row that finds each of its
\* photos (MULTI_IMAGE_RECEIPTS.md: verification handles the additional files
\* too) ...
RowFindsPhotos ==
    Quiet /\ row /\ ~overlapped /\ faults = 0 =>
        \A p \in Photo : paths[p] \in DOMAIN disk /\ disk[paths[p]] = p

\* ... and no file of a submission that was deleted, or not accepted.
NothingLeft == Quiet /\ ~row /\ ~overlapped /\ faults = 0 => DOMAIN disk = {}

\* A deleted submission leaves no file behind (docstring of delete_receipt: the
\* receipt plus its stored image).
DeletedLeavesNothing == Quiet /\ ~row /\ faults = 0 => DOMAIN disk = {}
=============================================================================

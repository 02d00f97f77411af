------------------------ MODULE ReceiptFiles_proofs ------------------------
(***************************************************************************)
(* Theorems about ReceiptFiles, for any number of photos, of requests and  *)
(* of requests that die.                                                   *)
(***************************************************************************)
EXTENDS ReceiptFiles, TLAPS

USE PhotosAssumption DEF PhotosAssumption

-----------------------------------------------------------------------------
(* The inductive invariant *)

\* A request moves the photos one after another.
InOrder == \A h \in Request :
    /\ pc[h] \in {"idle", "image", "mark"} => at[h] = 0
    /\ pc[h] \in {"move", "write"} => at[h] \in Photo

\* The next new name is free.
SparesGiven == \A f \in DOMAIN disk : f[1] = "perm" => f[2] <= spares

\* A temporary file has the photo it was written for.
TempNames == \A p \in Photo : Temp(p) \in DOMAIN disk => disk[Temp(p)] = p

\* Until the row is inserted nobody knows of the submission.
Unknown ==
    /\ ~row /\ ~seen /\ receipt = "none"
    /\ \A g \in Request \ Uploader : pc[g] \in {"idle", "done"}
Uploading == \A h \in Uploader :
    /\ pc[h] = "idle" => Unknown /\ ~adrift /\ DOMAIN disk = {}
    /\ pc[h] = "store" =>
          Unknown /\ ~adrift /\ DOMAIN disk = {Temp(p) : p \in {q \in Photo : q < at[h]}}
Drifting == adrift => Unknown
OnlyUploads == \A h \in Request :
    /\ pc[h] \in {"store", "clean"} => h \in Uploader
    /\ h \in Uploader => pc[h] \in {"idle", "store", "clean", "done"}

\* Before there is a receipt the photos are where they were uploaded.
NotMoved ==
    /\ receipt = "none" => paths = Uploaded
    /\ receipt # "none" => seen
    /\ \A h \in Request : pc[h] \in {"image", "mark", "move", "write", "verify"} =>
          receipt # "none"

\* Files are unlinked when the row is gone.
RowFirst == \A h \in Request : pc[h] = "unlink" => ~row

\* The photos stay from the moment they are read.
PhotosStay == row /\ seen /\ ~cleaned => \A p \in Photo : \E f \in DOMAIN disk : disk[f] = p

Control == InOrder /\ Uploading /\ Drifting /\ OnlyUploads /\ NotMoved /\ RowFirst
IInv == TypeOK /\ Control /\ SparesGiven /\ TempNames /\ PhotosStay

LEMMA PhotoPaths == \A p \in Photo : Temp(p) \in Path
BY DEF Photo, Temp, Path

LEMMA DestinationFree ==
    ASSUME TypeOK, SparesGiven
    PROVE  /\ Destination \in Path \ DOMAIN disk
           /\ Destination[1] = "perm"
           /\ Destination[2] <= IF Destination = Main THEN spares ELSE spares + 1
BY DEF Destination, Main, Spare, Path, SparesGiven, TypeOK

LEMMA InitInv == Init => IInv
<1> SUFFICES ASSUME Init PROVE IInv
  OBVIOUS
<1>1. DOMAIN disk = {}
  BY DEF Init
<1>2. TypeOK
  <2>1. paths \in [Photo -> Path] /\ copy \in [Request -> [Photo -> Path]]
    BY PhotoPaths DEF Init, Uploaded
  <2>2. pc \in [Request -> Place] /\ at \in [Request -> 0 .. Last + 1]
    BY DEF Init, Place
  <2>3. spares \in Nat /\ faults \in 0 .. MaxFaults
    BY DEF Init
  <2>4. row \in BOOLEAN /\ adrift \in BOOLEAN /\ seen \in BOOLEAN
    BY Zenon DEF Init
  <2>5. overlapped \in BOOLEAN /\ cleaned \in BOOLEAN
    BY Zenon DEF Init
  <2>6. receipt = "none" /\ status = "queued"
    BY DEF Init
  <2> QED
    BY <1>1, <2>1, <2>2, <2>3, <2>4, <2>5, <2>6 DEF TypeOK
<1>3. Control
  BY <1>1 DEF Init, Control, InOrder, Uploading, Unknown, Drifting, OnlyUploads, NotMoved,
              RowFirst, Request
<1>4. SparesGiven /\ TempNames /\ PhotosStay
  BY <1>1 DEF Init, SparesGiven, TempNames, PhotosStay
<1> QED
  BY <1>2, <1>3, <1>4 DEF IInv

-----------------------------------------------------------------------------
(* Steps *)

\* A step that leaves the disk.
LEMMA SameDisk ==
    ASSUME IInv, UNCHANGED <<disk, spares, cleaned>>,
           row' /\ seen' => row /\ seen
    PROVE  SparesGiven' /\ TempNames' /\ PhotosStay'
BY DEF IInv, SparesGiven, TempNames, PhotosStay

LEMMA GoType ==
    ASSUME TypeOK, NEW h \in Request, NEW p \in Place, Go(h, p)
    PROVE  pc' \in [Request -> Place] /\ pc'[h] = p /\ \A g \in Request \ {h} : pc'[g] = pc[g]
BY DEF TypeOK, Go

\* The upload is over, but for its clean-up.
Known == ~adrift /\ \A u \in Uploader : pc[u] \notin {"idle", "store"}

\* It is when somebody knows of the submission.
LEMMA UnderWay ==
    ASSUME IInv,
           \/ row \/ seen \/ receipt # "none"
           \/ \E h \in Request : pc[h] \notin {"idle", "store", "clean", "done"}
    PROVE  Known
BY DEF IInv, Control, Uploading, Unknown, Drifting, OnlyUploads, Known

\* A request goes on to a place that asks for nothing but the row and the
\* receipt, after the upload.
LEMMA LaterControl ==
    ASSUME IInv, NEW h \in Request, NEW p \in Place, Go(h, p), Known,
           UNCHANGED <<adrift, seen>>,
           h \in Uploader => p = "done", p \notin {"idle", "store", "clean"},
           p \in {"image", "mark"} => at'[h] = 0, p \in {"move", "write"} => at'[h] \in Photo,
           \A g \in Request \ {h} : at'[g] = at[g],
           row' => row, p = "unlink" => ~row',
           receipt' = "none" => receipt = "none" /\ paths' = paths,
           receipt # "none" \/ receipt' = "none" \/ seen,
           p \in {"image", "mark", "move", "write", "verify"} => receipt' # "none"
    PROVE  Control'
<1>1. pc'[h] = p /\ \A g \in Request \ {h} : pc'[g] = pc[g]
  BY GoType DEF IInv
<1>2. InOrder'
  BY <1>1 DEF IInv, Control, InOrder
<1>3. Uploading' /\ Drifting'
  BY <1>1 DEF Known, Uploading, Drifting, Request
<1>4. OnlyUploads'
  BY <1>1 DEF IInv, Control, OnlyUploads
<1>5. NotMoved'
  BY <1>1 DEF IInv, Control, NotMoved, Uploaded
<1>6. RowFirst'
  BY <1>1 DEF IInv, Control, RowFirst
<1> QED
  BY <1>2, <1>3, <1>4, <1>5, <1>6 DEF Control

LEMMA Analysing ==
    ASSUME IInv, Claim \/ ReadPhotos \/ Persist \/ MarkAnalyzed \/ MarkFailed
    PROVE  IInv'
<1> USE DEF IInv
<1>1. /\ row
      /\ UNCHANGED <<disk, spares, row, paths, pc, copy, at, overlapped, faults, adrift, cleaned>>
  BY DEF Claim, ReadPhotos, Persist, Analysed, MarkAnalyzed, MarkFailed, upload
<1>2. Known
  BY <1>1, UnderWay
<1>3. seen' = seen \/ (seen' = TRUE /\ ReadPhotos)
  BY DEF Claim, ReadPhotos, Persist, MarkAnalyzed, MarkFailed, upload
<1>4. receipt' = receipt \/ (receipt' = "unverified" /\ seen)
  BY DEF Claim, ReadPhotos, Persist, Analysed, MarkAnalyzed, MarkFailed
<1>5. TypeOK'
  <2>1. status' \in {"queued", "processing", "analyzed"}
    BY DEF TypeOK, Claim, ReadPhotos, Persist, MarkAnalyzed, MarkFailed
  <2>2. seen' \in BOOLEAN
    BY <1>3 DEF TypeOK
  <2> QED
    BY <1>1, <1>4, <2>1, <2>2 DEF TypeOK
<1>6. Control'
  <2>1. seen => seen'
    BY <1>3
  <2>2. receipt' = "none" => receipt = "none"
    BY <1>4
  <2>3. Uploading' /\ Drifting'
    BY <1>1, <1>2 DEF Known, Uploading, Drifting
  <2>4. NotMoved'
    BY <1>1, <1>4, <2>1, <2>2 DEF Control, NotMoved, Uploaded
  <2> QED
    BY <1>1, <2>3, <2>4 DEF Control, InOrder, OnlyUploads, RowFirst
<1>7. SparesGiven' /\ TempNames'
  BY <1>1 DEF SparesGiven, TempNames
<1>8. PhotosStay'
  <2>1. CASE ReadPhotos
    BY <1>1, <2>1 DEF PhotosStay, ReadPhotos, Control, NotMoved, Uploaded, TempNames
  <2>2. CASE ~ReadPhotos
    BY <1>1, <1>3, <2>2 DEF PhotosStay
  <2> QED
    BY <2>1, <2>2
<1> QED
  BY <1>5, <1>6, <1>7, <1>8

LEMMA UploadInv ==
    ASSUME IInv, NEW h \in Request,
           UploadStart(h) \/ Store(h) \/ InsertRow(h) \/ UploadFails(h) \/ InsertLost(h)
    PROVE  IInv'
<1> USE DEF IInv
<1>1. /\ h \in Uploader /\ Unknown /\ ~adrift
      /\ UNCHANGED <<spares, status, paths, receipt, copy, seen, cleaned>>
      /\ pc[h] \in {"idle", "store"}
      /\ DOMAIN disk = IF pc[h] = "idle" THEN {}
                       ELSE {Temp(p) : p \in {q \in Photo : q < at[h]}}
  BY DEF UploadStart, Starts, Store, InsertRow, UploadFails, InsertLost, Control, Uploading,
         OnlyUploads, upload
<1>2. receipt = "none" /\ ~row /\ ~seen
      /\ \A g \in Request \ {h} : pc[g] \in {"idle", "done"} /\ g \notin Uploader
  BY <1>1, RequestAssumption DEF Unknown, RequestAssumption
<1>3. {"store", "clean", "done"} \subseteq Place /\ \A g \in Uploader : g = h
  BY <1>1, RequestAssumption DEF Place, RequestAssumption
<1>4. CASE UploadStart(h)
  <2>1. /\ UNCHANGED <<disk, row, adrift, at, faults>> /\ Go(h, "store") /\ pc[h] = "idle"
        /\ overlapped' \in BOOLEAN
    BY <1>4 DEF UploadStart, Starts, upload
  <2>2. pc' \in [Request -> Place] /\ pc'[h] = "store" /\ \A g \in Request \ {h} : pc'[g] = pc[g]
    BY <1>3, <2>1, GoType
  <2>3. TypeOK'
    BY <1>1, <2>1, <2>2 DEF TypeOK
  <2>4. at[h] = 0
    BY <2>1 DEF Control, InOrder
  <2>5. {Temp(p) : p \in {q \in Photo : q < 0}} = {}
    BY DEF Photo
  <2>6. Control'
    BY <1>1, <1>2, <1>3, <2>1, <2>2, <2>4, <2>5
       DEF Control, InOrder, Uploading, Unknown, Drifting, OnlyUploads, NotMoved, RowFirst,
           Uploaded
  <2> QED
    BY <1>1, <2>1, <2>3, <2>6, SameDisk
<1>5. CASE Store(h)
  <2> DEFINE k == at[h]
  <2>1. /\ disk' = [f \in DOMAIN disk \cup {Temp(k)} |-> IF f = Temp(k) THEN k ELSE disk[f]]
        /\ k \in Photo /\ pc[h] = "store" /\ pc' = pc /\ at' = [at EXCEPT ![h] = @ + 1]
        /\ UNCHANGED <<row, adrift, overlapped, faults>>
    BY <1>5 DEF Store, upload
  <2>2. at'[h] = k + 1 /\ at' \in [Request -> 0 .. Last + 1]
    BY <2>1 DEF TypeOK, Photo
  <2> HIDE DEF k
  <2>3. Temp(k) \in Path /\ DOMAIN disk' = DOMAIN disk \cup {Temp(k)}
    BY <2>1, PhotoPaths
  <2>4. TypeOK'
    BY <1>1, <2>1, <2>2, <2>3 DEF TypeOK
  <2>5. DOMAIN disk' = {Temp(p) : p \in {q \in Photo : q < at'[h]}}
    <3>1. DOMAIN disk = {Temp(p) : p \in {q \in Photo : q < k}}
      BY <1>1, <2>1 DEF k
    <3>2. {q \in Photo : q < k + 1} = {q \in Photo : q < k} \cup {k}
      BY <2>1 DEF Photo
    <3>3. {Temp(p) : p \in {q \in Photo : q < k} \cup {k}}
            = {Temp(p) : p \in {q \in Photo : q < k}} \cup {Temp(k)}
      OBVIOUS
    <3> QED
      BY <2>2, <2>3, <3>1, <3>2, <3>3
  <2>6. Control'
    <3>1. InOrder' /\ Drifting'
      BY <1>1, <2>1, <2>2 DEF Control, InOrder, Drifting
    <3>2. Uploading'
      BY <1>1, <1>3, <2>1, <2>5 DEF Uploading, Unknown
    <3> QED
      BY <1>1, <2>1, <3>1, <3>2 DEF Control, OnlyUploads, NotMoved, RowFirst, Uploaded
  <2>7. SparesGiven' /\ TempNames' /\ PhotosStay'
    BY <1>1, <1>2, <2>1, <2>3 DEF SparesGiven, TempNames, PhotosStay, Temp
  <2> QED
    BY <2>4, <2>6, <2>7
<1>6. CASE InsertRow(h) \/ UploadFails(h) \/ InsertLost(h)
  <2>1. /\ pc[h] = "store" /\ UNCHANGED <<at, overlapped>>
        /\ Go(h, "done") \/ Go(h, "clean")
    BY <1>6 DEF InsertRow, UploadFails, InsertLost
  <2>2. row' \in BOOLEAN /\ adrift' \in BOOLEAN
    BY <1>6 DEF InsertRow, UploadFails, InsertLost, upload, TypeOK
  <2>3. adrift' => ~row'
    BY <1>1, <1>2, <1>6 DEF InsertRow, UploadFails, InsertLost, upload
  <2>4. faults' \in 0 .. MaxFaults
    BY <1>6 DEF InsertRow, UploadFails, InsertLost, Fault, TypeOK
  <2>5. /\ DOMAIN disk' \subseteq DOMAIN disk
        /\ \A f \in DOMAIN disk' : disk'[f] = disk[f]
    BY <1>6 DEF InsertRow, UploadFails, InsertLost, Without
  <2>6. /\ pc' \in [Request -> Place] /\ pc'[h] \in {"clean", "done"}
        /\ \A g \in Request \ {h} : pc'[g] = pc[g]
    BY <1>3, <2>1, GoType
  <2>7. TypeOK'
    BY <1>1, <2>1, <2>2, <2>4, <2>5, <2>6 DEF TypeOK
  <2>8. Control'
    BY <1>1, <1>2, <1>3, <2>1, <2>3, <2>6
       DEF Control, InOrder, Uploading, Unknown, Drifting, OnlyUploads, NotMoved, RowFirst,
           Uploaded
  <2>9. SparesGiven' /\ TempNames' /\ PhotosStay'
    BY <1>1, <1>2, <2>5 DEF SparesGiven, TempNames, PhotosStay
  <2> QED
    BY <2>7, <2>8, <2>9
<1> QED
  BY <1>4, <1>5, <1>6

\* The INSERT that nobody waits for is the first that anybody hears of the
\* submission.
LEMMA LandsInv == ASSUME IInv, InsertLands PROVE IInv'
<1> USE DEF IInv
<1>1. /\ adrift /\ row' = TRUE /\ adrift' = FALSE /\ Unknown
      /\ UNCHANGED <<disk, spares, status, paths, seen, receipt, pc, copy, at, overlapped, cleaned,
                     faults>>
  BY DEF InsertLands, Control, Drifting
<1>2. TypeOK'
  <2>1. row' \in BOOLEAN /\ adrift' \in BOOLEAN
    BY <1>1
  <2> QED
    BY <1>1, <2>1 DEF TypeOK
<1>3. \A h \in Request : pc[h] \in {"idle", "clean", "done", "store"}
  BY <1>1 DEF Unknown, Control, OnlyUploads
<1>4. Control'
  BY <1>1, <1>3 DEF Control, InOrder, Uploading, Drifting, OnlyUploads, NotMoved, RowFirst, Uploaded
<1>5. SparesGiven' /\ TempNames' /\ PhotosStay'
  BY <1>1 DEF Unknown, SparesGiven, TempNames, PhotosStay
<1> QED
  BY <1>2, <1>4, <1>5

LEMMA StartInv ==
    ASSUME IInv, NEW h \in Request,
           VerifyStart(h) \/ MoverStart(h) \/ DeleteStart(h) \/ DiscardStart(h)
    PROVE  IInv'
<1> USE DEF IInv
<1>1. /\ pc[h] = "idle" /\ overlapped' \in BOOLEAN /\ h \notin Uploader /\ at[h] = 0
      /\ UNCHANGED <<disk, spares, row, status, paths, at, faults, adrift, seen, cleaned>>
  BY RequestAssumption DEF upload, VerifyStart, MoverStart, DeleteStart, DiscardStart, Starts,
                           RequestAssumption, Control, InOrder
<1>2. copy' \in [Request -> [Photo -> Path]]
  BY DEF VerifyStart, MoverStart, DeleteStart, DiscardStart, TypeOK
<1>3. PICK p \in {"image", "mark", "drop", "done"} : Go(h, p)
  BY DEF VerifyStart, MoverStart, DeleteStart, DiscardStart
<1>4. p \in Place
  BY DEF Place
<1>5. pc' \in [Request -> Place] /\ pc'[h] = p /\ \A g \in Request \ {h} : pc'[g] = pc[g]
  BY <1>3, <1>4, GoType
<1>6. /\ receipt' \in {"none", "unverified", "verified", "deleted"}
      /\ receipt' = "none" => receipt = "none" /\ p \notin {"image", "mark"}
      /\ receipt = "none" => receipt' = "none" \/ seen
      /\ p = "drop" => row
      /\ p \in {"image", "mark"} => receipt # "none" \/ row
  BY <1>5 DEF TypeOK, VerifyStart, MoverStart, DeleteStart, DiscardStart, Go, Analysed
<1>7. TypeOK'
  BY <1>1, <1>2, <1>5, <1>6 DEF TypeOK
<1>8. Control'
  <2>1. CASE p = "done"
    <3>1. receipt' = receipt
      BY <1>5, <2>1 DEF VerifyStart, MoverStart, DeleteStart, DiscardStart, Go, TypeOK
    <3>2. InOrder' /\ OnlyUploads' /\ RowFirst'
      BY <1>1, <1>5, <2>1 DEF Control, InOrder, OnlyUploads, RowFirst
    <3>3. Uploading' /\ Drifting'
      BY <1>1, <1>5, <2>1, <3>1 DEF Control, Uploading, Drifting, Unknown, Request
    <3>4. NotMoved'
      BY <1>1, <1>5, <2>1, <3>1 DEF Control, NotMoved, Uploaded
    <3> QED
      BY <3>2, <3>3, <3>4 DEF Control
  <2>2. CASE p # "done"
    <3>1. row \/ receipt # "none"
      BY <1>6, <2>2
    <3>2. Known
      BY <3>1, UnderWay
    <3> QED
      BY <1>1, <1>3, <1>4, <1>6, <3>2, LaterControl DEF Uploaded
  <2> QED
    BY <2>1, <2>2
<1>9. SparesGiven' /\ TempNames' /\ PhotosStay'
  BY <1>1, SameDisk
<1> QED
  BY <1>7, <1>8, <1>9

LEMMA ReadImageInv ==
    ASSUME IInv, NEW h \in Request, ReadImage(h) \/ MoverMarks(h)
    PROVE  IInv'
<1> USE DEF IInv
<1>1. /\ pc[h] \in {"image", "mark"} /\ at[h] = 0
      /\ UNCHANGED <<disk, spares, row, paths, receipt, at, overlapped, faults>>
      /\ UNCHANGED <<adrift, seen, cleaned>> /\ h \notin Uploader
  BY DEF ReadImage, MoverMarks, Control, InOrder, OnlyUploads, upload
<1>2. PICK p \in {"move", "drop", "verify", "done"} : Go(h, p)
  BY DEF ReadImage, MoverMarks
<1>3. p \in Place /\ receipt # "none"
  BY <1>1 DEF Place, Control, NotMoved
<1>4. copy' \in [Request -> [Photo -> Path]] /\ status' \in {"queued", "processing", "analyzed"}
  BY DEF ReadImage, MoverMarks, TypeOK
<1>5. TypeOK'
  BY <1>1, <1>2, <1>3, <1>4, GoType DEF TypeOK
<1>6. Control'
  BY <1>1, <1>2, <1>3, UnderWay, LaterControl DEF Photo
<1> QED
  BY <1>1, <1>5, <1>6, SameDisk

LEMMA MoveInv ==
    ASSUME IInv, NEW h \in Request, Move(h)
    PROVE  IInv'
<1> DEFINE from == copy[h][at[h]]
<1> USE DEF IInv
<1>1. /\ pc[h] = "move" /\ at[h] \in Photo /\ from \in Path /\ receipt # "none"
      /\ UNCHANGED <<row, status, paths, receipt, overlapped, faults, adrift, seen, cleaned>>
      /\ h \notin Uploader
  BY DEF Move, Control, InOrder, NotMoved, OnlyUploads, TypeOK, upload
<1>2. CASE from \in DOMAIN disk
  <2> DEFINE to == Destination
  <2>1. /\ disk' = [f \in (DOMAIN disk \ {from}) \cup {to} |->
                      IF f = to THEN disk[from] ELSE disk[f]]
        /\ spares' = IF to = Main THEN spares ELSE spares + 1
        /\ copy' = [copy EXCEPT ![h][at[h]] = to]
        /\ Go(h, "write") /\ at' = at
    BY <1>2 DEF Move, MoveFile
  <2>2. "write" \in Place
    BY DEF Place
  <2>3. /\ to \in Path \ DOMAIN disk /\ to[1] = "perm"
        /\ to[2] <= IF to = Main THEN spares ELSE spares + 1
    BY DestinationFree
  <2> HIDE DEF from, to
  <2>4. DOMAIN disk' \subseteq Path /\ \A f \in DOMAIN disk' : disk'[f] \in Photo
    BY <1>2, <2>1, <2>3 DEF TypeOK
  <2>5. spares' \in Nat /\ copy' \in [Request -> [Photo -> Path]]
    <3>1. [copy[h] EXCEPT ![at[h]] = to] \in [Photo -> Path]
      BY <1>1, <2>3 DEF TypeOK
    <3>2. copy' = [copy EXCEPT ![h] = [copy[h] EXCEPT ![at[h]] = to]]
      BY <2>1
    <3> QED
      BY <2>1, <3>1, <3>2 DEF TypeOK
  <2>6. TypeOK'
    BY <1>1, <2>1, <2>2, <2>4, <2>5, GoType DEF TypeOK
  <2>7. Control'
    BY <1>1, <2>1, <2>2, UnderWay, LaterControl
  <2>8. SparesGiven'
    <3>1. spares <= spares' /\ to[2] <= spares'
      BY <2>1, <2>3 DEF TypeOK
    <3>2. \A f \in DOMAIN disk : f \in Path
      BY DEF TypeOK
    <3> QED
      BY <2>1, <2>3, <2>5, <3>1, <3>2 DEF SparesGiven, Path, TypeOK
  <2>9. TempNames'
    BY <2>1, <2>3 DEF TempNames, Temp
  <2>10. PhotosStay'
    <3> SUFFICES ASSUME row, seen, ~cleaned, NEW p \in Photo
                 PROVE  \E f \in DOMAIN disk' : disk'[f] = p
      BY <1>1 DEF PhotosStay
    <3>1. PICK f \in DOMAIN disk : disk[f] = p
      BY <1>1 DEF PhotosStay
    <3>2. CASE f = from
      BY <2>1, <3>1, <3>2
    <3>3. CASE f # from
      BY <2>1, <2>3, <3>1, <3>3
    <3> QED
      BY <3>2, <3>3
  <2> QED
    BY <2>6, <2>7, <2>8, <2>9, <2>10
<1>3. CASE from \notin DOMAIN disk
  <2>1. UNCHANGED <<disk, spares, copy>>
    BY <1>3 DEF Move
  <2>2. \/ /\ at[h] = 0 /\ at' = [at EXCEPT ![h] = 1]
           /\ \/ Last = 0 /\ Go(h, After(h))
              \/ Last # 0 /\ Go(h, "move")
        \/ at' = at /\ Go(h, "write")
    BY <1>3 DEF Move
  <2>3. After(h) \in {"verify", "done"} /\ {"verify", "done", "move", "write"} \subseteq Place
    BY DEF After, Place
  <2>4. TypeOK'
    BY <1>1, <2>1, <2>2, <2>3, GoType DEF TypeOK
  <2>5. Control'
    <3>1. CASE at' = at /\ Go(h, "write")
      BY <1>1, <2>3, <3>1, UnderWay, LaterControl
    <3>2. CASE at[h] = 0 /\ at' = [at EXCEPT ![h] = 1] /\ Last # 0 /\ Go(h, "move")
      <4>1. at'[h] \in Photo /\ \A g \in Request \ {h} : at'[g] = at[g]
        BY <3>2 DEF TypeOK, Photo
      <4> QED
        BY <1>1, <2>3, <3>2, <4>1, UnderWay, LaterControl
    <3>3. CASE at[h] = 0 /\ at' = [at EXCEPT ![h] = 1] /\ Go(h, After(h))
      <4>1. \A g \in Request \ {h} : at'[g] = at[g]
        BY <3>3 DEF TypeOK
      <4> QED
        BY <1>1, <2>3, <3>3, <4>1, UnderWay, LaterControl
    <3> QED
      BY <2>2, <3>1, <3>2, <3>3
  <2> QED
    BY <1>1, <2>1, <2>4, <2>5, SameDisk
<1> QED
  BY <1>2, <1>3

LEMMA WritePathInv ==
    ASSUME IInv, NEW h \in Request, WritePath(h)
    PROVE  IInv'
<1> USE DEF IInv
<1>1. /\ pc[h] = "write" /\ at[h] \in Photo /\ at' = [at EXCEPT ![h] = @ + 1]
      /\ receipt # "none"
      /\ UNCHANGED <<disk, spares, row, status, receipt, copy, overlapped, faults>>
      /\ UNCHANGED <<adrift, seen, cleaned>> /\ h \notin Uploader
  BY DEF WritePath, Control, InOrder, NotMoved, OnlyUploads, upload
<1>2. paths' \in [Photo -> Path]
  BY DEF WritePath, TypeOK
<1>3. \/ at[h] = Last /\ Go(h, After(h))
      \/ at[h] # Last /\ Go(h, "move")
  BY DEF WritePath
<1>4. After(h) \in {"verify", "done"} /\ {"verify", "done", "move"} \subseteq Place
  BY DEF After, Place
<1>5. /\ at' \in [Request -> 0 .. Last + 1] /\ at'[h] = at[h] + 1
      /\ \A g \in Request \ {h} : at'[g] = at[g]
  BY <1>1 DEF TypeOK, Photo
<1>6. TypeOK'
  BY <1>1, <1>2, <1>3, <1>4, <1>5, GoType DEF TypeOK
<1>7. Control'
  <2>1. CASE at[h] = Last /\ Go(h, After(h))
    BY <1>1, <1>4, <1>5, <2>1, UnderWay, LaterControl
  <2>2. CASE at[h] # Last /\ Go(h, "move")
    <3>1. at'[h] \in Photo
      BY <1>1, <1>5, <2>2 DEF Photo
    <3> QED
      BY <1>1, <1>4, <1>5, <2>2, <3>1, UnderWay, LaterControl
  <2> QED
    BY <1>3, <2>1, <2>2
<1> QED
  BY <1>1, <1>6, <1>7, SameDisk

LEMMA EndInv ==
    ASSUME IInv, NEW h \in Request, VerifyWrite(h) \/ DropRow(h) \/ Unlink(h) \/ CleanUp(h)
    PROVE  IInv'
<1> USE DEF IInv
<1>1. /\ UNCHANGED <<spares, status, paths, copy, at, overlapped, faults, adrift, seen>>
      /\ receipt' \in {receipt, "verified"} /\ (receipt' = "none" <=> receipt = "none")
      /\ row' \in {row, FALSE}
  <2>1. CASE VerifyWrite(h)
    BY <2>1 DEF VerifyWrite, Control, NotMoved, upload
  <2>2. CASE DropRow(h)
    BY <2>2 DEF DropRow, upload
  <2>3. CASE Unlink(h) \/ CleanUp(h)
    BY <2>3 DEF Unlink, CleanUp, upload
  <2> QED
    BY <2>1, <2>2, <2>3
<1>2. row' \in BOOLEAN /\ (row' => row)
  <2>1. CASE row' = row
    BY <2>1 DEF TypeOK
  <2>2. CASE row' = FALSE
    BY <2>2, Zenon
  <2> QED
    BY <1>1, <2>1, <2>2
<1>3. /\ DOMAIN disk' \subseteq DOMAIN disk /\ \A f \in DOMAIN disk' : disk'[f] = disk[f]
      /\ cleaned' = cleaned \/ CleanUp(h)
      /\ disk' = disk \/ ~row \/ CleanUp(h)
  <2>1. CASE VerifyWrite(h) \/ DropRow(h)
    BY <2>1 DEF VerifyWrite, DropRow, upload
  <2>2. CASE Unlink(h)
    BY <2>2 DEF Unlink, Without, Control, RowFirst, upload
  <2>3. CASE CleanUp(h)
    BY <2>3 DEF CleanUp, Without
  <2> QED
    BY <2>1, <2>2, <2>3
<1>4. PICK p \in {"unlink", "done"} : Go(h, p) /\ (p = "unlink" => ~row' /\ h \notin Uploader)
  BY DEF VerifyWrite, DropRow, Unlink, CleanUp, Control, OnlyUploads
<1>5. p \in Place
  BY DEF Place
<1>6. pc' \in [Request -> Place] /\ pc'[h] = p /\ \A g \in Request \ {h} : pc'[g] = pc[g]
  BY <1>4, <1>5, GoType
<1>7. TypeOK'
  <2>1. CASE CleanUp(h)
    <3>1. cleaned' \in BOOLEAN
      BY <2>1 DEF CleanUp, TypeOK
    <3> QED
      BY <1>1, <1>2, <1>3, <1>6, <3>1 DEF TypeOK
  <2>2. CASE cleaned' = cleaned
    BY <1>1, <1>2, <1>3, <1>6, <2>2 DEF TypeOK
  <2> QED
    BY <1>3, <2>1, <2>2
<1>8. Control'
  <2>1. CASE CleanUp(h)
    <3>1. /\ h \in Uploader /\ p = "done" /\ UNCHANGED <<row, receipt>> /\ pc[h] = "clean"
          /\ \A g \in Uploader : g = h
      BY <2>1, <1>6, RequestAssumption
         DEF CleanUp, Control, OnlyUploads, RequestAssumption, Go, TypeOK
    <3> QED
      BY <1>1, <1>6, <3>1
         DEF Control, InOrder, Uploading, Unknown, Drifting, OnlyUploads, NotMoved, RowFirst,
             Uploaded
  <2>2. CASE ~CleanUp(h)
    <3>1. pc[h] \notin {"idle", "store", "clean", "done"}
      BY <2>2 DEF VerifyWrite, DropRow, Unlink
    <3>2. Known
      BY <3>1, UnderWay
    <3>3. receipt # "none" \/ receipt' = "none"
      BY <1>1
    <3> QED
      BY <1>1, <1>2, <1>4, <1>5, <3>1, <3>2, <3>3, LaterControl
  <2> QED
    BY <2>1, <2>2
<1>9. SparesGiven' /\ TempNames'
  BY <1>1, <1>3 DEF SparesGiven, TempNames
<1>10. PhotosStay'
  <2>1. CASE CleanUp(h)
    <3> SUFFICES ASSUME row, seen, ~cleaned', NEW q \in Photo
                 PROVE  \E f \in DOMAIN disk' : disk'[f] = q
      BY <1>1, <1>2 DEF PhotosStay
    <3>1. ~cleaned /\ Uploads \cap DOMAIN disk = {} /\ DOMAIN disk' = DOMAIN disk \ Uploads
      BY <2>1 DEF CleanUp, Without
    <3>2. PICK f \in DOMAIN disk : disk[f] = q
      BY <3>1 DEF PhotosStay
    <3>3. f \in DOMAIN disk'
      BY <3>1, <3>2
    <3> QED
      BY <1>3, <3>2, <3>3
  <2>2. CASE ~CleanUp(h)
    BY <1>1, <1>2, <1>3, <2>2 DEF PhotosStay
  <2> QED
    BY <1>3, <2>1, <2>2
<1> QED
  BY <1>7, <1>8, <1>9, <1>10

LEMMA DiesInv == ASSUME IInv, NEW h \in Request, Dies(h) PROVE IInv'
<1> USE DEF IInv
<1>1. /\ Go(h, "done") /\ pc[h] \notin {"idle", "done"} /\ faults' \in 0 .. MaxFaults
      /\ UNCHANGED <<disk, spares, row, status, paths, seen, receipt, copy, at, overlapped, cleaned>>
  BY DEF Dies, Fault, InFlight, TypeOK
<1>2. adrift' \in BOOLEAN /\ (adrift' => adrift \/ pc[h] = "store") /\ (adrift => adrift')
  BY DEF Dies, TypeOK
<1>3. "done" \in Place
  BY DEF Place
<1>4. pc' \in [Request -> Place] /\ pc'[h] = "done" /\ \A g \in Request \ {h} : pc'[g] = pc[g]
  BY <1>1, <1>3, GoType
<1>5. TypeOK'
  BY <1>1, <1>2, <1>4 DEF TypeOK
<1>6. Control'
  <2>1. InOrder' /\ OnlyUploads' /\ NotMoved' /\ RowFirst'
    BY <1>1, <1>4 DEF Control, InOrder, OnlyUploads, NotMoved, RowFirst, Uploaded
  <2>2. Drifting'
    <3>1. adrift' => Unknown
      BY <1>2 DEF Control, Drifting, OnlyUploads, Uploading
    <3> QED
      BY <1>1, <1>4, <3>1 DEF Drifting, Unknown
  <2>3. Uploading'
    <3> SUFFICES ASSUME NEW u \in Uploader, pc'[u] \in {"idle", "store"}
                 PROVE  /\ pc'[u] = "idle" => Unknown' /\ ~adrift' /\ DOMAIN disk' = {}
                        /\ pc'[u] = "store" =>
                              /\ Unknown' /\ ~adrift'
                              /\ DOMAIN disk' = {Temp(p) : p \in {q \in Photo : q < at'[u]}}
      BY DEF Uploading
    <3>1. u # h /\ pc[u] = pc'[u] /\ h \notin Uploader
      BY <1>4, RequestAssumption DEF Request, RequestAssumption
    <3>2. pc[h] # "store" /\ adrift' = adrift
      BY <1>2, <3>1 DEF Control, OnlyUploads, TypeOK
    <3>3. Unknown => Unknown'
      BY <1>1, <1>4 DEF Unknown
    <3> QED
      BY <1>1, <3>1, <3>2, <3>3 DEF Control, Uploading
  <2> QED
    BY <2>1, <2>2, <2>3 DEF Control
<1> QED
  BY <1>1, <1>5, <1>6, SameDisk

LEMMA StepInv == IInv /\ [Next]_vars => IInv'
<1> SUFFICES ASSUME IInv, [Next]_vars PROVE IInv'
  OBVIOUS
<1>1. CASE UNCHANGED vars
  BY <1>1 DEF vars, IInv, TypeOK, Control, InOrder, Uploading, Unknown, Drifting, OnlyUploads,
              NotMoved, RowFirst, SparesGiven, TempNames, PhotosStay
<1> QED
  BY <1>1, Analysing, UploadInv, LandsInv, StartInv, ReadImageInv, MoveInv, WritePathInv, EndInv,
     DiesInv DEF Next

LEMMA Inductive == Spec => []IInv
BY InitInv, StepInv, PTL DEF Spec

-----------------------------------------------------------------------------
(* Temporary files *)

\* x gives the path of every photo that is still in the temporary directory.
Knows(x) == \A p \in Photo : Temp(p) \in DOMAIN disk => x[p] = Temp(p)

Cleared(n) == \A p \in Photo : p < n => Temp(p) \notin DOMAIN disk

\* Every copy of the row knows the temporary files, and a request has cleared
\* those of the photos before the one it is at.
Moving(h) ==
    /\ pc[h] \in {"mark", "move", "write"} => Knows(copy[h])
    /\ pc[h] = "move" => Cleared(at[h])
    /\ pc[h] = "write" => Cleared(at[h] + 1)
    /\ pc[h] = "verify" => ~row \/ Cleared(Last + 1)

ClearInv ==
    /\ Knows(paths)
    /\ \A h \in Request : Moving(h)
    /\ VerifiedIsPermanent

LEMMA InitClear == Init => ClearInv
BY DEF Init, Uploaded, ClearInv, Knows, Moving, VerifiedIsPermanent

\* What a step leaves alone of the others.
LEMMA OthersMove ==
    ASSUME ClearInv, NEW g \in Request, pc'[g] = pc[g], at'[g] = at[g], copy'[g] = copy[g],
           row' => row,
           \A p \in Photo : Temp(p) \in DOMAIN disk' => Temp(p) \in DOMAIN disk
    PROVE  Moving(g)'
BY DEF ClearInv, Moving, Knows, Cleared

\* The receipt is verified by a request that has cleared the directory.
LEMMA StaysPermanent ==
    ASSUME ClearInv, row' => row,
           \A p \in Photo : Temp(p) \in DOMAIN disk' => Temp(p) \in DOMAIN disk,
           \A h \in Mover : pc'[h] = "idle" => pc[h] = "idle",
           \/ receipt' = "verified" => receipt = "verified"
           \/ \E h \in Mover : pc'[h] # "idle"
           \/ ~row \/ Cleared(Last + 1)
    PROVE  VerifiedIsPermanent'
BY DEF ClearInv, VerifiedIsPermanent, Cleared, Photo

LEMMA MoveClear ==
    ASSUME IInv, ClearInv, NEW h \in Request, Move(h)
    PROVE  ClearInv'
<1> DEFINE from == copy[h][at[h]]
<1> USE DEF IInv
<1>1. /\ pc[h] = "move" /\ at[h] \in Photo /\ from \in Path /\ UNCHANGED <<row, paths, receipt>>
  BY DEF Move, Control, InOrder, TypeOK
<1>2. Knows(copy[h]) /\ Cleared(at[h])
  BY <1>1 DEF ClearInv, Moving
<1>3. CASE from \in DOMAIN disk
  <2> DEFINE to == Destination
  <2>1. /\ disk' = [f \in (DOMAIN disk \ {from}) \cup {to} |->
                      IF f = to THEN disk[from] ELSE disk[f]]
        /\ copy' = [copy EXCEPT ![h][at[h]] = to]
        /\ Go(h, "write") /\ at' = at
    BY <1>3 DEF Move, MoveFile
  <2>2. to[1] = "perm" /\ "write" \in Place
    BY DestinationFree DEF Place
  <2>3. copy' = [copy EXCEPT ![h] = [copy[h] EXCEPT ![at[h]] = to]]
    BY <2>1
  <2> HIDE DEF to, from
  <2>4. \A p \in Photo : Temp(p) \in DOMAIN disk' => Temp(p) \in DOMAIN disk /\ Temp(p) # from
    BY <2>1, <2>2, <1>3, DestinationFree DEF Temp
  <2>5. Temp(at[h]) \notin DOMAIN disk'
    BY <2>4, <1>1, <1>2 DEF Knows, from
  <2>6. /\ copy'[h] = [copy[h] EXCEPT ![at[h]] = to]
        /\ \A g \in Request \ {h} : copy'[g] = copy[g]
    BY <2>3 DEF TypeOK
  <2>7. Moving(h)'
    <3>1. pc'[h] = "write" /\ at'[h] = at[h]
      BY <2>1, <2>2, GoType
    <3>2. Knows(copy[h])'
      <4> SUFFICES ASSUME NEW p \in Photo, Temp(p) \in DOMAIN disk'
                   PROVE  copy'[h][p] = Temp(p)
        BY DEF Knows
      <4>1. p # at[h]
        BY <2>5
      <4> QED
        BY <1>2, <2>4, <2>6, <4>1 DEF Knows, TypeOK
    <3>3. Cleared(at[h] + 1)'
      <4> SUFFICES ASSUME NEW p \in Photo, p < at[h] + 1
                   PROVE  Temp(p) \notin DOMAIN disk'
        BY <3>1 DEF Cleared
      <4>1. p = at[h] \/ p < at[h]
        BY <1>1 DEF Photo
      <4> QED
        BY <1>2, <2>4, <2>5, <4>1 DEF Cleared
    <3> QED
      BY <3>1, <3>2, <3>3 DEF Moving
  <2>8. \A g \in Request \ {h} : Moving(g)'
    BY <1>1, <2>1, <2>2, <2>4, <2>6, GoType, OthersMove
  <2>9. VerifiedIsPermanent'
    BY <1>1, <2>1, <2>2, <2>4, GoType, StaysPermanent DEF Request
  <2> QED
    BY <1>1, <2>4, <2>7, <2>8, <2>9 DEF ClearInv, Knows
<1>4. CASE from \notin DOMAIN disk
  <2>1. UNCHANGED <<disk, copy>>
    BY <1>4 DEF Move
  <2>2. \/ /\ at[h] = 0 /\ at' = [at EXCEPT ![h] = 1]
           /\ \/ Last = 0 /\ Go(h, After(h))
              \/ Last # 0 /\ Go(h, "move")
        \/ at' = at /\ Go(h, "write")
    BY <1>4 DEF Move
  <2>3. After(h) \in {"verify", "done"} /\ {"verify", "done", "move", "write"} \subseteq Place
    BY DEF After, Place
  <2>4. Cleared(at[h] + 1)
    <3>1. Temp(at[h]) \notin DOMAIN disk
      BY <1>1, <1>2, <1>4 DEF Knows
    <3> QED
      BY <1>1, <1>2, <3>1 DEF Cleared, Photo
  <2>5. Moving(h)'
    BY <1>1, <1>2, <2>1, <2>2, <2>3, <2>4, GoType DEF Moving, Knows, Cleared, TypeOK
  <2>6. \A g \in Request \ {h} : Moving(g)'
    BY <1>1, <2>1, <2>2, <2>3, GoType, OthersMove DEF TypeOK
  <2>7. VerifiedIsPermanent'
    BY <1>1, <2>1, <2>2, <2>3, GoType, StaysPermanent DEF Request
  <2> QED
    BY <1>1, <2>1, <2>5, <2>6, <2>7 DEF ClearInv, Knows
<1> QED
  BY <1>3, <1>4

LEMMA WriteClear ==
    ASSUME IInv, ClearInv, NEW h \in Request, WritePath(h)
    PROVE  ClearInv'
<1> USE DEF IInv
<1>1. /\ pc[h] = "write" /\ at[h] \in Photo /\ at' = [at EXCEPT ![h] = @ + 1]
      /\ UNCHANGED <<disk, row, receipt, copy>>
  BY DEF WritePath, Control, InOrder
<1>2. Knows(copy[h]) /\ Cleared(at[h] + 1)
  BY <1>1 DEF ClearInv, Moving
<1>3. Knows(paths)'
  BY <1>1, <1>2 DEF WritePath, ClearInv, Knows, TypeOK
<1>4. \/ at[h] = Last /\ Go(h, After(h))
      \/ at[h] # Last /\ Go(h, "move")
  BY DEF WritePath
<1>5. After(h) \in {"verify", "done"} /\ {"verify", "done", "move"} \subseteq Place
  BY DEF After, Place
<1>6. at'[h] = at[h] + 1 /\ \A g \in Request \ {h} : at'[g] = at[g]
  BY <1>1 DEF TypeOK
<1>7. Moving(h)'
  BY <1>1, <1>2, <1>4, <1>5, <1>6, GoType DEF Moving, Knows, Cleared
<1>8. \A g \in Request \ {h} : Moving(g)'
  BY <1>1, <1>4, <1>5, <1>6, GoType, OthersMove
<1>9. VerifiedIsPermanent'
  BY <1>1, <1>4, <1>5, GoType, StaysPermanent DEF Request
<1> QED
  BY <1>1, <1>3, <1>7, <1>8, <1>9 DEF ClearInv

LEMMA StartClear ==
    ASSUME IInv, ClearInv, NEW h \in Request,
           \/ VerifyStart(h) \/ MoverStart(h) \/ DeleteStart(h) \/ DiscardStart(h)
           \/ ReadImage(h) \/ MoverMarks(h)
    PROVE  ClearInv'
<1> USE DEF IInv
<1>1. UNCHANGED <<disk, row, paths, at>>
  BY DEF VerifyStart, MoverStart, DeleteStart, DiscardStart, ReadImage, MoverMarks
<1>2. PICK p \in {"image", "done", "mark", "move", "verify", "drop"} : Go(h, p)
  BY DEF VerifyStart, MoverStart, DeleteStart, DiscardStart, ReadImage, MoverMarks
<1>3. p \in Place /\ p # "idle" /\ pc[h] \in {"idle", "image", "mark"} /\ at[h] = 0
  BY DEF Place, VerifyStart, MoverStart, DeleteStart, DiscardStart, ReadImage, MoverMarks,
         Starts, Control, InOrder
<1>4. pc'[h] = p /\ \A g \in Request \ {h} : pc'[g] = pc[g]
  BY <1>2, <1>3, GoType
<1>5. \A g \in Request \ {h} : copy'[g] = copy[g]
  BY DEF TypeOK, VerifyStart, MoverStart, DeleteStart, DiscardStart, ReadImage, MoverMarks
<1>6. /\ p \in {"mark", "move"} => copy'[h] = paths \/ (pc[h] = "mark" /\ copy' = copy)
      /\ p = "verify" => ~row
  <2>1. CASE VerifyStart(h) \/ DeleteStart(h) \/ DiscardStart(h)
    BY <2>1, <1>4 DEF VerifyStart, DeleteStart, DiscardStart, Go, TypeOK
  <2>2. CASE MoverStart(h)
    BY <2>2, <1>4 DEF MoverStart, Go, TypeOK
  <2>3. CASE MoverMarks(h)
    BY <2>3, <1>4 DEF MoverMarks, Go, TypeOK
  <2>4. CASE ReadImage(h)
    <3>1. \/ row /\ copy' = [copy EXCEPT ![h] = paths] /\ pc'[h] # "verify"
          \/ ~row /\ pc'[h] \notin {"mark", "move"}
      BY <2>4 DEF ReadImage, Go, TypeOK
    <3> QED
      BY <3>1, <1>4 DEF TypeOK
  <2> QED
    BY <2>1, <2>2, <2>3, <2>4
<1>7. \/ receipt' = "verified" => receipt = "verified"
      \/ h \in Mover
  BY DEF VerifyStart, MoverStart, DeleteStart, DiscardStart, ReadImage, MoverMarks
<1>8. Moving(h)'
  BY <1>1, <1>3, <1>4, <1>6 DEF Moving, ClearInv, Knows, Cleared, Photo
<1>9. \A g \in Request \ {h} : Moving(g)'
  BY <1>1, <1>4, <1>5, OthersMove
<1>10. VerifiedIsPermanent'
  BY <1>1, <1>3, <1>4, <1>7, StaysPermanent DEF Request
<1> QED
  BY <1>1, <1>8, <1>9, <1>10 DEF ClearInv, Knows

\* Nobody else knows of a submission that is being uploaded.
LEMMA UploadAlone ==
    ASSUME IInv, NEW h \in Request,
           UploadStart(h) \/ Store(h) \/ InsertRow(h) \/ UploadFails(h) \/ InsertLost(h)
    PROVE  /\ ~row /\ receipt = "none" /\ paths = Uploaded
           /\ UNCHANGED <<receipt, paths, copy>>
           /\ pc'[h] \in {"store", "clean", "done"}
           /\ \A g \in Request \ {h} : pc[g] \in {"idle", "done"} /\ pc'[g] = pc[g]
<1> USE DEF IInv
<1>1. /\ h \in Uploader /\ Unknown /\ UNCHANGED <<receipt, paths, copy>>
      /\ pc[h] \in {"idle", "store"}
  BY DEF UploadStart, Starts, Store, InsertRow, UploadFails, InsertLost, Control, Uploading,
         OnlyUploads
<1>2. \/ Go(h, "store") \/ Go(h, "clean") \/ Go(h, "done")
      \/ pc' = pc /\ pc[h] = "store"
  BY DEF UploadStart, Store, InsertRow, UploadFails, InsertLost
<1>3. {"store", "clean", "done"} \subseteq Place
  BY DEF Place
<1>4. pc'[h] \in {"store", "clean", "done"} /\ \A g \in Request \ {h} : pc'[g] = pc[g]
  BY <1>2, <1>3, GoType
<1>5. \A g \in Request \ {h} : g \notin Uploader
  BY <1>1, RequestAssumption DEF RequestAssumption
<1> QED
  BY <1>1, <1>4, <1>5 DEF Unknown, Control, NotMoved

LEMMA UploadClear ==
    ASSUME IInv, ClearInv, NEW h \in Request,
           UploadStart(h) \/ Store(h) \/ InsertRow(h) \/ UploadFails(h) \/ InsertLost(h)
    PROVE  ClearInv'
<1>1. Knows(paths)'
  BY UploadAlone DEF Knows, Uploaded
<1>2. \A g \in Request : pc'[g] \in {"idle", "store", "clean", "done"}
  BY UploadAlone
<1>3. \A g \in Request : Moving(g)'
  BY <1>2 DEF Moving
<1>4. VerifiedIsPermanent'
  BY UploadAlone DEF VerifiedIsPermanent
<1> QED
  BY <1>1, <1>3, <1>4 DEF ClearInv

LEMMA LandsClear == ASSUME IInv, ClearInv, InsertLands PROVE ClearInv'
<1>1. Unknown /\ UNCHANGED <<disk, paths, receipt, pc, copy, at>>
  BY DEF InsertLands, IInv, Control, Drifting
<1>2. \A g \in Request : pc[g] \in {"idle", "store", "clean", "done"}
  BY <1>1 DEF Unknown, IInv, Control, OnlyUploads
<1>3. \A g \in Request : Moving(g)'
  BY <1>1, <1>2 DEF Moving
<1>4. VerifiedIsPermanent'
  BY <1>1 DEF Unknown, VerifiedIsPermanent
<1> QED
  BY <1>1, <1>3, <1>4 DEF ClearInv, Knows

\* Only a bypass verifies the receipt, and none has begun.
LEMMA AnalysisClear ==
    ASSUME IInv, ClearInv, Claim \/ ReadPhotos \/ Persist \/ MarkAnalyzed \/ MarkFailed
    PROVE  ClearInv'
<1>1. /\ UNCHANGED <<disk, row, paths, pc, copy, at>>
      /\ receipt' = "verified" => receipt = "verified"
  BY DEF Claim, ReadPhotos, Persist, MarkAnalyzed, MarkFailed
<1>2. \A g \in Request : Moving(g)'
  BY <1>1, OthersMove
<1>3. VerifiedIsPermanent'
  BY <1>1 DEF ClearInv, VerifiedIsPermanent
<1> QED
  BY <1>1, <1>2, <1>3 DEF ClearInv, Knows

LEMMA EndClear ==
    ASSUME IInv, ClearInv, NEW h \in Request,
           VerifyWrite(h) \/ DropRow(h) \/ Unlink(h) \/ CleanUp(h) \/ Dies(h)
    PROVE  ClearInv'
<1> USE DEF IInv
<1>1. /\ UNCHANGED <<paths, at, copy>>
      /\ \A p \in Photo : Temp(p) \in DOMAIN disk' => Temp(p) \in DOMAIN disk
      /\ row' => row
  <2>1. \A p \in Photo : Temp(p) \in DOMAIN disk' => Temp(p) \in DOMAIN disk
    BY DEF VerifyWrite, DropRow, Unlink, CleanUp, Dies, Without
  <2>2. row' => row
    BY DEF VerifyWrite, DropRow, Unlink, CleanUp, Dies
  <2> QED
    BY <2>1, <2>2 DEF VerifyWrite, DropRow, Unlink, CleanUp, Dies
<1>2. PICK p \in {"unlink", "done"} : Go(h, p)
  BY DEF VerifyWrite, DropRow, Unlink, CleanUp, Dies
<1>3. p \in Place /\ pc[h] # "idle"
  BY DEF Place, VerifyWrite, DropRow, Unlink, CleanUp, Dies, InFlight
<1>4. pc'[h] = p /\ \A g \in Request \ {h} : pc'[g] = pc[g]
  BY <1>2, <1>3, GoType
<1>5. \A g \in Request : Moving(g)'
  <2>1. Moving(h)'
    BY <1>4 DEF Moving
  <2> QED
    BY <1>1, <1>4, <2>1, OthersMove
<1>6. VerifiedIsPermanent'
  <2>1. \/ receipt' = "verified" => receipt = "verified"
        \/ ~row \/ Cleared(Last + 1)
    BY DEF VerifyWrite, DropRow, Unlink, CleanUp, Dies, ClearInv, Moving
  <2> QED
    BY <1>1, <1>3, <1>4, <2>1, StaysPermanent DEF Request
<1> QED
  BY <1>1, <1>5, <1>6 DEF ClearInv, Knows

LEMMA StepClear == IInv /\ ClearInv /\ [Next]_vars => ClearInv'
<1> SUFFICES ASSUME IInv, ClearInv, [Next]_vars PROVE ClearInv'
  OBVIOUS
<1>1. CASE UNCHANGED vars
  BY <1>1 DEF vars, ClearInv, Knows, Moving, Cleared, VerifiedIsPermanent
<1> QED
  BY <1>1, UploadClear, LandsClear, AnalysisClear, StartClear, MoveClear, WriteClear, EndClear DEF Next

LEMMA InductiveClear == Spec => []ClearInv
BY Inductive, InitClear, StepClear, PTL DEF Spec

-----------------------------------------------------------------------------
(* Requests that neither overlap nor die *)

\* The files are the photos, under the paths x.
Match(x) ==
    /\ DOMAIN disk = {x[p] : p \in Photo}
    /\ \A p \in Photo : disk[x[p]] = p

\* What one request leaves to the next.
Left == IF row THEN Match(paths) ELSE DOMAIN disk = {}

\* What holds within a request.
Within(h) ==
    /\ pc[h] \in {"image", "verify"} => Left
    /\ pc[h] \in {"mark", "move", "drop"} => row /\ Match(copy[h]) /\ paths = copy[h]
    /\ pc[h] = "write" =>
          /\ row /\ Match(copy[h])
          /\ \A p \in Photo : p # at[h] => paths[p] = copy[h][p]
    /\ pc[h] = "unlink" => ~row /\ Match(copy[h])
    /\ pc[h] # "clean"

Orderly == ~overlapped /\ faults = 0

OneByOne ==
    Orderly =>
        /\ ~adrift
        /\ \A g, h \in Request : InFlight(g) /\ InFlight(h) => g = h
        /\ \A h \in Request : Within(h)
        /\ Quiet => Left

LEMMA InitOneByOne == Init => OneByOne
<1> SUFFICES ASSUME Init PROVE OneByOne
  OBVIOUS
<1>1. \A h \in Request : pc[h] = "idle"
  BY DEF Init
<1>2. ~row /\ ~adrift /\ DOMAIN disk = {}
  BY DEF Init
<1> QED
  BY <1>1, <1>2 DEF OneByOne, InFlight, Within, Left

\* The only request in flight takes a step.
LEMMA OnlyOne ==
    ASSUME OneByOne, Orderly, NEW h \in Request, InFlight(h) \/ Quiet, adrift' = adrift,
           \A g \in Request \ {h} : pc'[g] = pc[g],
           Within(h)', InFlight(h)' \/ Left'
    PROVE  OneByOne'
<1>1. \A g \in Request \ {h} : ~InFlight(g) /\ ~InFlight(g)'
  BY DEF OneByOne, Quiet, InFlight
<1>2. \A g \in Request \ {h} : Within(g)'
  BY <1>1 DEF Within, InFlight
<1>3. Quiet' => ~InFlight(h)'
  BY DEF Quiet
<1> QED
  BY <1>1, <1>2, <1>3 DEF OneByOne

LEMMA StartOneByOne ==
    ASSUME IInv, OneByOne, NEW h \in Request, Orderly',
           VerifyStart(h) \/ MoverStart(h) \/ DeleteStart(h) \/ DiscardStart(h)
    PROVE  OneByOne'
<1>1. Quiet /\ Orderly /\ UNCHANGED <<disk, row, paths, adrift>>
  BY DEF VerifyStart, MoverStart, DeleteStart, DiscardStart, Starts, Orderly, Quiet, upload
<1>2. Left /\ Left'
  BY <1>1 DEF OneByOne, Left, Match
<1>3. PICK p \in {"image", "mark", "drop", "done"} : Go(h, p)
  BY DEF VerifyStart, MoverStart, DeleteStart, DiscardStart
<1>4. p \in Place
  BY DEF Place
<1>5. pc'[h] = p /\ \A g \in Request \ {h} : pc'[g] = pc[g]
  BY <1>3, <1>4, GoType DEF IInv
<1>6. p \in {"mark", "drop"} => row /\ copy'[h] = paths
  <2>1. CASE VerifyStart(h) \/ DeleteStart(h)
    BY <2>1, <1>5 DEF VerifyStart, DeleteStart, Go, IInv, TypeOK
  <2>2. CASE MoverStart(h)
    BY <2>2 DEF MoverStart, Analysed, IInv, TypeOK
  <2>3. CASE DiscardStart(h)
    BY <2>3, <1>5 DEF DiscardStart, Go, IInv, TypeOK
  <2> QED
    BY <2>1, <2>2, <2>3
<1>7. Within(h)'
  <2>1. CASE p \in {"mark", "drop"}
    <3>1. row /\ copy'[h] = paths
      BY <1>6, <2>1
    <3>2. row' /\ paths' = copy'[h]
      BY <1>1, <3>1
    <3>3. Match(paths)'
      BY <1>2, <3>2 DEF Left
    <3>4. Match(copy[h])'
      BY <3>2, <3>3 DEF Match
    <3> QED
      BY <1>5, <2>1, <3>2, <3>4 DEF Within
  <2>2. CASE p \in {"image", "done"}
    BY <1>2, <1>5, <2>2 DEF Within
  <2> QED
    BY <2>1, <2>2
<1> QED
  BY <1>1, <1>2, <1>5, <1>7, OnlyOne

LEMMA UploadOneByOne ==
    ASSUME IInv, OneByOne, NEW h \in Request, Orderly',
           UploadStart(h) \/ Store(h) \/ InsertRow(h) \/ UploadFails(h) \/ InsertLost(h)
    PROVE  OneByOne'
<1> USE DEF IInv
<1>1. ~InsertLost(h)
  BY DEF InsertLost, Fault, Orderly, TypeOK
<1>2. Orderly /\ (InFlight(h) \/ Quiet) /\ adrift' = adrift
  <2>1. CASE UploadStart(h)
    BY <2>1 DEF UploadStart, Starts, Orderly, Quiet, upload
  <2>2. CASE Store(h) \/ InsertRow(h) \/ UploadFails(h)
    BY <2>2 DEF Store, InsertRow, UploadFails, Orderly, InFlight, upload
  <2> QED
    BY <1>1, <2>1, <2>2
<1>3. Within(h)'
  <2>1. pc'[h] \in {"store", "done"}
    BY <1>1 DEF UploadStart, Store, InsertRow, UploadFails, Go, TypeOK
  <2> QED
    BY <2>1 DEF Within
<1>4. CASE UploadStart(h) \/ Store(h)
  <2>1. pc'[h] = "store"
    BY <1>4 DEF UploadStart, Store, Go, TypeOK
  <2>2. InFlight(h)'
    BY <2>1 DEF InFlight
  <2> QED
    BY <1>2, <1>3, <2>2, UploadAlone, OnlyOne
<1>5. CASE InsertRow(h) \/ UploadFails(h)
  <2>1. DOMAIN disk = {Temp(p) : p \in {q \in Photo : q < at[h]}} /\ ~row
    BY <1>5 DEF InsertRow, UploadFails, Control, Uploading, Unknown, OnlyUploads
  <2>2. CASE InsertRow(h)
    <3>1. disk' = disk /\ row' /\ paths' = Uploaded /\ at[h] \notin Photo
      BY <2>2, UploadAlone DEF InsertRow
    <3>2. {q \in Photo : q < at[h]} = Photo
      BY <3>1 DEF TypeOK, Photo
    <3>3. DOMAIN disk = {Uploaded[p] : p \in Photo}
      BY <2>1, <3>2 DEF Uploaded
    <3>4. \A p \in Photo : disk[Uploaded[p]] = p
      BY <3>3 DEF Uploaded, TempNames
    <3>5. Match(paths)'
      BY <3>1, <3>3, <3>4 DEF Match
    <3>6. Left'
      BY <3>1, <3>5 DEF Left
    <3> QED
      BY <1>2, <1>3, <3>6, UploadAlone, OnlyOne
  <2>3. CASE UploadFails(h)
    <3>1. row' = row /\ DOMAIN disk' = DOMAIN disk \ Uploads
      BY <2>3 DEF UploadFails, Without
    <3>2. DOMAIN disk' = {}
      BY <2>1, <3>1 DEF Uploads
    <3>3. Left'
      BY <2>1, <3>1, <3>2 DEF Left
    <3> QED
      BY <1>2, <1>3, <3>3, UploadAlone, OnlyOne
  <2> QED
    BY <1>5, <2>2, <2>3
<1> QED
  BY <1>1, <1>4, <1>5

\* The analysis leaves the disk and the requests as they are.
LEMMA AnalysisOneByOne ==
    ASSUME OneByOne, Claim \/ ReadPhotos \/ Persist \/ MarkAnalyzed \/ MarkFailed
    PROVE  OneByOne'
<1>1. UNCHANGED <<disk, row, adrift, paths, pc, copy, at, overlapped, faults>>
  BY DEF Claim, ReadPhotos, Persist, MarkAnalyzed, MarkFailed, upload
<1>2. /\ Orderly' = Orderly /\ Left' = Left /\ Quiet' = Quiet /\ adrift' = adrift
      /\ \A h \in Request : Within(h)' = Within(h) /\ InFlight(h)' = InFlight(h)
  BY <1>1 DEF Orderly, InFlight, Quiet, Within, Left, Match
<1> QED
  BY <1>2 DEF OneByOne

LEMMA MoveOneByOne ==
    ASSUME IInv, OneByOne, Orderly, NEW h \in Request, Move(h)
    PROVE  OneByOne'
<1> DEFINE from == copy[h][at[h]]
<1> DEFINE to == Destination
<1> USE DEF IInv
<1>1. pc[h] = "move" /\ InFlight(h) /\ at[h] \in Photo /\ UNCHANGED <<row, adrift, paths>>
  BY DEF Move, InFlight, Control, InOrder, upload
<1>2. row /\ Match(copy[h]) /\ paths = copy[h] /\ copy[h] \in [Photo -> Path]
  BY <1>1 DEF OneByOne, Within, TypeOK
<1>3. from \in DOMAIN disk /\ disk[from] = at[h]
  BY <1>1, <1>2 DEF Match
<1>4. /\ disk' = [f \in (DOMAIN disk \ {from}) \cup {to} |->
                    IF f = to THEN disk[from] ELSE disk[f]]
      /\ copy' = [copy EXCEPT ![h][at[h]] = to]
      /\ Go(h, "write") /\ at' = at
  BY <1>3 DEF Move, MoveFile
<1>5. to \in Path \ DOMAIN disk /\ "write" \in Place
  BY DestinationFree DEF Place
<1>6. copy' = [copy EXCEPT ![h] = [copy[h] EXCEPT ![at[h]] = to]]
  BY <1>4
<1> HIDE DEF from, to
<1>7. copy'[h] = [copy[h] EXCEPT ![at[h]] = to]
  BY <1>6 DEF TypeOK
<1>8. pc'[h] = "write" /\ \A g \in Request \ {h} : pc'[g] = pc[g]
  BY <1>4, <1>5, GoType
<1>9. Match(copy[h])'
  <2>1. copy'[h][at[h]] = to /\ \A p \in Photo \ {at[h]} : copy'[h][p] = copy[h][p]
    BY <1>1, <1>2, <1>7
  <2>2. \A p \in Photo \ {at[h]} : copy[h][p] \in DOMAIN disk \ {from, to}
    BY <1>2, <1>3, <1>5 DEF Match
  <2>3. \A p \in Photo : disk'[copy'[h][p]] = p
    BY <1>1, <1>2, <1>3, <1>4, <2>1, <2>2 DEF Match
  <2>4. DOMAIN disk' = {copy'[h][p] : p \in Photo}
    <3>1. ASSUME NEW f \in DOMAIN disk' PROVE \E p \in Photo : f = copy'[h][p]
      <4>1. CASE f = to
        BY <1>1, <2>1, <4>1
      <4>2. CASE f # to
        <5>1. f \in DOMAIN disk \ {from}
          BY <1>4, <4>2
        <5>2. PICK p \in Photo : f = copy[h][p]
          BY <5>1, <1>2 DEF Match
        <5> QED
          BY <5>1, <5>2, <2>1 DEF from
      <4> QED
        BY <4>1, <4>2
    <3>2. \A p \in Photo : copy'[h][p] \in DOMAIN disk'
      BY <1>1, <1>4, <2>1, <2>2
    <3> QED
      BY <3>1, <3>2
  <2> QED
    BY <2>3, <2>4 DEF Match
<1>10. Within(h)'
  BY <1>1, <1>2, <1>4, <1>7, <1>8, <1>9 DEF Within
<1> QED
  BY <1>1, <1>8, <1>10, OnlyOne DEF InFlight

LEMMA WriteOneByOne ==
    ASSUME IInv, OneByOne, Orderly, NEW h \in Request, WritePath(h)
    PROVE  OneByOne'
<1> USE DEF IInv
<1>1. /\ pc[h] = "write" /\ InFlight(h) /\ at[h] \in Photo
      /\ UNCHANGED <<disk, row, adrift, copy>>
  BY DEF WritePath, InFlight, Control, InOrder, upload
<1>2. /\ row /\ Match(copy[h])
      /\ \A p \in Photo : p # at[h] => paths[p] = copy[h][p]
  BY <1>1 DEF OneByOne, Within
<1>3. paths' = copy[h]
  <2>1. paths \in [Photo -> Path] /\ copy[h] \in [Photo -> Path]
    BY DEF TypeOK
  <2>2. CASE at[h] = 0
    BY <1>2, <2>1, <2>2 DEF WritePath
  <2>3. CASE at[h] # 0
    <3>1. 0 \in Photo /\ paths[0] = copy[h][0]
      BY <1>2, <2>3 DEF Photo
    <3> QED
      BY <1>2, <2>1, <2>3, <3>1 DEF WritePath
  <2> QED
    BY <2>2, <2>3
<1>4. Match(paths)' /\ Match(copy[h])'
  BY <1>1, <1>2, <1>3 DEF Match
<1>5. PICK p \in {"verify", "done", "move"} : Go(h, p)
  BY DEF WritePath, After
<1>6. p \in Place
  BY DEF Place
<1>7. pc'[h] = p /\ \A g \in Request \ {h} : pc'[g] = pc[g]
  BY <1>5, <1>6, GoType
<1>8. Left' /\ Within(h)'
  BY <1>1, <1>2, <1>3, <1>4, <1>7 DEF Left, Within
<1> QED
  BY <1>1, <1>7, <1>8, OnlyOne

LEMMA OtherOneByOne ==
    ASSUME IInv, OneByOne, Orderly, NEW h \in Request,
           ReadImage(h) \/ MoverMarks(h) \/ VerifyWrite(h) \/ DropRow(h) \/ Unlink(h)
    PROVE  OneByOne'
<1> USE DEF IInv
<1>1. InFlight(h) /\ Within(h) /\ adrift' = adrift
  BY DEF ReadImage, MoverMarks, VerifyWrite, DropRow, Unlink, InFlight, OneByOne, upload
<1>2. PICK p \in {"move", "drop", "verify", "done", "unlink"} : Go(h, p)
  BY DEF ReadImage, MoverMarks, VerifyWrite, DropRow, Unlink
<1>3. p \in Place
  BY DEF Place
<1>4. pc'[h] = p /\ \A g \in Request \ {h} : pc'[g] = pc[g]
  BY <1>2, <1>3, GoType
<1>5. CASE ReadImage(h)
  <2>1. UNCHANGED <<disk, row, paths>> /\ Left
    BY <1>1, <1>5 DEF ReadImage, Within
  <2>2. Left'
    BY <2>1 DEF Left, Match
  <2>3. \/ row /\ copy' = [copy EXCEPT ![h] = paths] /\ pc'[h] \in {"move", "drop", "done"}
        \/ ~row /\ pc'[h] \in {"verify", "done"}
    BY <1>5 DEF ReadImage, Go, TypeOK
  <2>4. row => copy'[h] = paths
    BY <2>3 DEF TypeOK
  <2>5. Within(h)'
    <3>1. CASE row /\ copy'[h] = paths /\ pc'[h] \in {"move", "drop", "done"}
      <4>1. row' /\ Match(copy[h])' /\ paths' = copy'[h]
        BY <2>1, <3>1 DEF Left, Match
      <4> QED
        BY <3>1, <4>1 DEF Within
    <3>2. CASE pc'[h] \in {"verify", "done"}
      BY <2>2, <3>2 DEF Within
    <3> QED
      BY <2>3, <2>4, <3>1, <3>2
  <2> QED
    BY <1>1, <1>4, <2>2, <2>5, OnlyOne
<1>6. CASE VerifyWrite(h)
  <2>1. UNCHANGED <<disk, row, paths>> /\ Left /\ pc'[h] = "done"
    BY <1>1, <1>6 DEF VerifyWrite, Within, Go, TypeOK
  <2>2. Left' /\ Within(h)'
    BY <2>1 DEF Left, Match, Within
  <2> QED
    BY <1>1, <1>4, <2>2, OnlyOne
<1>7. CASE DropRow(h)
  <2>1. UNCHANGED <<disk, copy>> /\ ~row' /\ Match(copy[h]) /\ pc'[h] = "unlink"
    BY <1>1, <1>7 DEF DropRow, Within, Go, TypeOK
  <2>2. Within(h)' /\ InFlight(h)'
    BY <2>1 DEF Match, Within, InFlight
  <2> QED
    BY <1>1, <1>4, <2>2, OnlyOne
<1>8. CASE Unlink(h)
  <2>1. /\ ~row /\ Match(copy[h]) /\ row' = row /\ pc'[h] = "done"
        /\ disk' = [f \in DOMAIN disk \ {copy[h][q] : q \in Photo} |-> disk[f]]
    BY <1>1, <1>8 DEF Unlink, Without, Within, Go, TypeOK
  <2>2. DOMAIN disk' = {}
    BY <2>1 DEF Match
  <2>3. Left' /\ Within(h)'
    BY <2>1, <2>2 DEF Left, Within
  <2> QED
    BY <1>1, <1>4, <2>3, OnlyOne
<1>9. CASE MoverMarks(h)
  <2>1. UNCHANGED <<disk, row, paths, copy>> /\ row /\ Match(copy[h]) /\ paths = copy[h]
    BY <1>1, <1>9 DEF MoverMarks, Within
  <2>2. pc'[h] \in {"move", "done"}
    BY <1>9 DEF MoverMarks, Go, TypeOK
  <2>3. Left' /\ Within(h)'
    BY <2>1, <2>2 DEF Left, Match, Within
  <2> QED
    BY <1>1, <1>4, <2>3, OnlyOne
<1> QED
  BY <1>5, <1>6, <1>7, <1>8, <1>9

LEMMA StepOneByOne == IInv /\ OneByOne /\ [Next]_vars => OneByOne'
<1> SUFFICES ASSUME IInv, OneByOne, [Next]_vars, Orderly' PROVE OneByOne'
  BY DEF OneByOne
<1>1. CASE UNCHANGED vars
  <2>1. /\ Orderly /\ Left' = Left /\ Quiet' = Quiet /\ adrift' = adrift
        /\ \A h \in Request : Within(h)' = Within(h) /\ InFlight(h)' = InFlight(h)
    BY <1>1 DEF vars, Orderly, InFlight, Quiet, Within, Left, Match
  <2> QED
    BY <2>1 DEF OneByOne
<1>2. ASSUME NEW h \in Request,
             \/ ReadImage(h) \/ MoverMarks(h) \/ Move(h) \/ WritePath(h) \/ VerifyWrite(h)
             \/ DropRow(h) \/ Unlink(h)
      PROVE  OneByOne'
  <2>1. Orderly
    BY <1>2 DEF Move, WritePath, ReadImage, MoverMarks, VerifyWrite, DropRow, Unlink, Orderly
  <2> QED
    BY <1>2, <2>1, MoveOneByOne, WriteOneByOne, OtherOneByOne
<1>3. ASSUME NEW h \in Request, Dies(h)
      PROVE  OneByOne'
  BY <1>3 DEF Dies, Fault, Orderly, IInv, TypeOK
<1>4. CASE InsertLands \/ \E h \in Request : CleanUp(h)
  BY <1>4 DEF InsertLands, CleanUp, OneByOne, Orderly, Within
<1> QED
  BY <1>1, <1>2, <1>3, <1>4, AnalysisOneByOne, UploadOneByOne, StartOneByOne DEF Next

LEMMA InductiveOneByOne == Spec => []OneByOne
BY Inductive, InitOneByOne, StepOneByOne, PTL DEF Spec

-----------------------------------------------------------------------------
(* Theorems *)

\* The disk, the row and the requests stay in their types.
THEOREM TypeCorrect == Spec => []TypeOK
<1>1. IInv => TypeOK
  BY DEF IInv
<1> QED
  BY <1>1, Inductive, PTL

\* However many requests overlap and die, each photo of a submission with a
\* receipt is on disk while its row is there, unless the upload was not told of
\* the row and unlinked photos that had been read (store_perm_image,
\* delete_receipt, delete_image, upload_image).
THEOREM NoPhotoIsLost == Spec => []PhotosSurvive
<1>1. IInv => PhotosSurvive
  BY DEF IInv, PhotosStay, PhotosSurvive, Control, NotMoved
<1> QED
  BY <1>1, Inductive, PTL

\* No request verifies a receipt before its photos have left the temporary
\* directory, whoever else moves them and wherever requests die
\* (verify_receipt, store_perm_image, move_additional_images).
THEOREM NothingStaysTemporary == Spec => []VerifiedIsPermanent
<1>1. ClearInv => VerifiedIsPermanent
  BY DEF ClearInv
<1> QED
  BY <1>1, InductiveClear, PTL

\* Requests that come one after another, and to their end, leave a row that
\* finds each photo (verify_receipt, update_image_path).
THEOREM RowsFindPhotos == Spec => []RowFindsPhotos
<1>1. OneByOne => RowFindsPhotos
  BY DEF OneByOne, Orderly, RowFindsPhotos, Left, Match
<1> QED
  BY <1>1, InductiveOneByOne, PTL

\* They leave no file of a submission that was deleted, or not accepted
\* (delete_receipt, delete_image, upload_image).
THEOREM NothingIsLeft == Spec => []NothingLeft
<1>1. OneByOne => NothingLeft
  BY DEF OneByOne, Orderly, NothingLeft, Left
<1> QED
  BY <1>1, InductiveOneByOne, PTL

\* However requests overlap and die, no photo is written over another, and
\* while the row is there every file that goes, but by the clean-up of an upload
\* that was not told of it, is found again under a new permanent name (store_perm_image, move_additional_images, delete_receipt,
\* delete_image, upload_image).
THEOREM NoFileIsOverwritten == Spec => FilesAreKept
<1>1. IInv /\ [Next]_vars => [FileKept]_vars
  <2> SUFFICES ASSUME IInv, Next PROVE FileKept
    BY DEF vars, FileKept
  <2>1. ASSUME disk' = disk PROVE FileKept
    BY <2>1 DEF FileKept
  <2>2. CASE InsertLands \/ Claim \/ ReadPhotos \/ Persist \/ MarkAnalyzed \/ MarkFailed
    BY <2>1, <2>2 DEF InsertLands, Claim, ReadPhotos, Persist, MarkAnalyzed, MarkFailed
  <2>3. ASSUME NEW h \in Request, Store(h) PROVE FileKept
    <3>1. /\ at[h] \in Photo
          /\ disk' = [f \in DOMAIN disk \cup {Temp(at[h])} |->
                        IF f = Temp(at[h]) THEN at[h] ELSE disk[f]]
      BY <2>3 DEF Store
    <3>2. Temp(at[h]) \in DOMAIN disk => disk[Temp(at[h])] = at[h]
      BY <3>1 DEF IInv, TempNames
    <3> QED
      BY <3>1, <3>2 DEF FileKept
  <2>4. ASSUME NEW h \in Request, UploadFails(h) \/ CleanUp(h) \/ Unlink(h)
        PROVE  FileKept
    <3>1. \/ ~row
          \/ h \in Uploader /\ pc'[h] # pc[h]
      BY <2>4 DEF UploadFails, CleanUp, Unlink, IInv, Control, RowFirst, OnlyUploads,
                  Uploading, Unknown, Go, TypeOK
    <3>2. /\ DOMAIN disk' \subseteq DOMAIN disk
          /\ \A f \in DOMAIN disk' : disk'[f] = disk[f]
      BY <2>4 DEF UploadFails, CleanUp, Unlink, Without
    <3> QED
      BY <3>1, <3>2 DEF FileKept
  <2>5. ASSUME NEW h \in Request, Move(h) PROVE FileKept
    <3> DEFINE from == copy[h][at[h]]
               to   == Destination
    <3>1. CASE from \in DOMAIN disk
      <4>1. disk' = [f \in (DOMAIN disk \ {from}) \cup {to} |->
                       IF f = to THEN disk[from] ELSE disk[f]]
        BY <2>5, <3>1 DEF Move, MoveFile
      <4>2. to \notin DOMAIN disk /\ to[1] = "perm"
        BY DestinationFree DEF IInv
      <4> HIDE DEF from, to
      <4> QED
        BY <4>1, <4>2 DEF FileKept
    <3>2. CASE from \notin DOMAIN disk
      BY <2>1, <2>5, <3>2 DEF Move
    <3> QED
      BY <3>1, <3>2
  <2>6. ASSUME NEW h \in Request,
               \/ UploadStart(h) \/ InsertRow(h) \/ InsertLost(h) \/ VerifyStart(h)
               \/ MoverStart(h) \/ DeleteStart(h) \/ DiscardStart(h) \/ ReadImage(h) \/ MoverMarks(h)
               \/ WritePath(h) \/ VerifyWrite(h) \/ DropRow(h) \/ Dies(h)
        PROVE  FileKept
    BY <2>1, <2>6 DEF UploadStart, InsertRow, InsertLost, VerifyStart, MoverStart, DeleteStart,
                      DiscardStart, ReadImage, MoverMarks, WritePath, VerifyWrite, DropRow,
                      Dies
  <2> QED
    BY <2>2, <2>3, <2>4, <2>5, <2>6 DEF Next
<1> QED
  BY <1>1, Inductive, PTL DEF Spec, FilesAreKept
=============================================================================

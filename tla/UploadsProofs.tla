--------------------------- MODULE UploadsProofs ---------------------------
(***************************************************************************)
(* Proofs about Uploads and the panel over it, for any number of files,    *)
(* deletions, passes, loads and failures.                                  *)
(***************************************************************************)
EXTENDS UploadPanel, TLAPS

(***************************************************************************)
(* Types.  A file has its key from the beginning of its POST; rows, and    *)
(* whatever a deletion or a pass has in hand, belong to POSTs that are     *)
(* done.                                                                   *)
(***************************************************************************)

Begun == \A f \in Files : IF post[f] = "none"
                          THEN keyOf[f] = NoFile /\ f \notin linked \cup leftObject
                          ELSE keyOf[f] \in Files
RowsDone == \A f \in rows : post[f] = "done"
InHand == /\ \A d \in Deletes : del[d].at \in {"object", "row"} =>
                                  del[d].file \in Files /\ post[del[d].file] = "done"
          /\ \A p \in Passes : \A f \in todo[p] : post[f] = "done"
          /\ \A p \in Passes : item[p] # NoFile => post[item[p]] = "done"

FileInv == UploadsTypeOK /\ Begun /\ RowsDone /\ InHand

\* What a step of the panel and the routes may do to the files, the requests
\* and the cleaner.
FileStep ==
    \/ Crash \/ StartFails \/ SetInterval \/ Ends \/ Kill
    \/ \E f \in Files : \/ PostStep(f) \/ Tick(f) \/ \E b \in BOOLEAN : Post(f, b)
                        \/ \E d \in Deletes : Delete(d, f)
    \/ \E d \in Deletes : DeleteStep(d)
    \/ \E p \in Passes : Start(p) \/ Interval(p) \/ PassStep(p)
    \/ UNCHANGED <<fileVars, del, cleanerVars>>

LEMMA NextIsFileStep == [Next]_vars => FileStep
<1> SUFFICES ASSUME [Next]_vars PROVE FileStep
  OBVIOUS
<1> USE DEF FileStep, uploadVars
<1>1. CASE PanelStep
  <2>1. CASE Lost
    BY <2>1 DEF Lost
  <2>2. ASSUME NEW l \in Loads,
               \/ Mount(l) \/ List(l) \/ ListFails(l) \/ setUploads(l)
               \/ \E f \in Files : Uploaded(f, l)
               \/ \E d \in Deletes : Deleted(d, l)
        PROVE  UNCHANGED <<fileVars, del, cleanerVars>>
    BY <2>2 DEF Mount, List, ListFails, setUploads, Uploaded, Deleted, Answered
  <2>3. ASSUME NEW f \in Files, HandleUpload(f) PROVE Post(f, TRUE)
    BY <2>3 DEF HandleUpload
  <2>4. ASSUME NEW f \in Files, UploadFailed(f) PROVE UNCHANGED <<fileVars, del, cleanerVars>>
    BY <2>4 DEF UploadFailed
  <2>5. ASSUME NEW f \in Files, NEW d \in Deletes, HandleDelete(d, f) PROVE Delete(d, f)
    BY <2>5 DEF HandleDelete
  <2> QED BY <1>1, <2>1, <2>2, <2>3, <2>4, <2>5, TRUE \in BOOLEAN DEF PanelStep
<1>2. CASE RouteStep
  BY <1>2, FALSE \in BOOLEAN DEF RouteStep
<1>3. CASE CleanerStep
  BY <1>3 DEF CleanerStep
<1>4. CASE UNCHANGED vars
  BY <1>4 DEF vars
<1> QED BY <1>1, <1>2, <1>3, <1>4 DEF Next

LEMMA FilesInit == UploadsInit => FileInv
BY DEF UploadsInit, FileInv, UploadsTypeOK, Begun, RowsDone, InHand, Nothing, NoFile

LEMMA FilesStep == FileInv /\ upsets' \in SUBSET Upsets /\ FileStep => FileInv'
<1> SUFFICES ASSUME FileInv, upsets' \in SUBSET Upsets, FileStep PROVE FileInv'
  OBVIOUS
<1> USE DEF FileInv, UploadsTypeOK, Begun, RowsDone, InHand, fileVars, cleanerVars, Others,
            OnlyCleaner, NoFile
<1>1. CASE Crash
  BY <1>1 DEF Crash, Posting, Finished
<1>2. CASE StartFails \/ SetInterval \/ UNCHANGED <<fileVars, del, cleanerVars>>
  BY <1>2 DEF StartFails, SetInterval
<1>3. CASE Ends \/ Kill
  BY <1>3 DEF Ends, Kill, Halts
<1>4. ASSUME NEW f \in Files, PostStep(f) PROVE FileInv'
  <2>1. CASE putObject(f)
    BY <2>1 DEF putObject, Posts
  <2>2. CASE PutFails(f)
    BY <2>2 DEF PutFails, Posts
  <2>3. CASE CreateRow(f)
    BY <2>3 DEF CreateRow, Posts
  <2>4. CASE CreateFails(f)
    BY <2>4 DEF CreateFails, Posts
  <2> QED BY <1>4, <2>1, <2>2, <2>3, <2>4 DEF PostStep
<1>5. ASSUME NEW f \in Files, Tick(f) PROVE FileInv'
  BY <1>5 DEF Tick
<1>6. ASSUME NEW f \in Files, NEW b \in BOOLEAN, Post(f, b) PROVE FileInv'
  <2>1. post[f] = "none"
    BY <1>6 DEF Post, New, Files
  <2>2. /\ keyOf' \in [Files -> Files \cup {NoFile}]
        /\ keyOf'[f] \in Files
        /\ \A e \in Files \ {f} : keyOf'[e] = keyOf[e]
    BY <1>6 DEF Post, generateStorageKey, Posting
  <2>3. post' = [post EXCEPT ![f] = "put"] /\ linked' \in SUBSET Files /\ linked' \subseteq linked \cup {f}
    BY <1>6 DEF Post, Posts
  <2>4. UNCHANGED <<objects, rows, old, leftRow, leftObject, del, cleaner, todo, item>>
    BY <1>6 DEF Post, Posts
  <2> QED BY <2>1, <2>2, <2>3, <2>4
<1>7. ASSUME NEW d \in Deletes, NEW f \in Files, Delete(d, f) PROVE FileInv'
  BY <1>7 DEF Delete, Finished
<1>8. ASSUME NEW d \in Deletes, DeleteStep(d) PROVE FileInv'
  <2>1. CASE DeleteObject(d) \/ DeleteObjectFails(d)
    BY <2>1 DEF DeleteObject, DeleteObjectFails, Deletions, ToRow
  <2>2. CASE DeleteRow(d) \/ DeleteRowFails(d)
    BY <2>2 DEF DeleteRow, DeleteRowFails, Deletions, Finished
  <2> QED BY <1>8, <2>1, <2>2 DEF DeleteStep
<1>9. ASSUME NEW p \in Passes, Start(p) \/ Interval(p) PROVE FileInv'
  BY <1>9 DEF Start, Interval, FindStale, Stale
<1>10. ASSUME NEW p \in Passes, PassStep(p) PROVE FileInv'
  <2>1. CASE CleanRow(p) \/ CleanRowFails(p)
    BY <2>1 DEF CleanRow, CleanRowFails
  <2>2. ASSUME NEW f \in Files, CleanObject(p, f) \/ CleanObjectFails(p, f) PROVE FileInv'
    BY <2>2 DEF CleanObject, CleanObjectFails, HidesFailure, ThrowsFailure
  <2> QED BY <1>10, <2>1, <2>2 DEF PassStep
<1> QED BY <1>1, <1>2, <1>3, <1>4, <1>5, <1>6, <1>7, <1>8, <1>9, <1>10 DEF FileStep

(***************************************************************************)
(* A row and its object.  Paired: a row names an object, but in a deletion *)
(* or after one that was cut short; the same holds of a POST that has      *)
(* written its object.  Keys may be shared, so the object may also be      *)
(* taken by a deletion of another file.                                    *)
(***************************************************************************)

\* The file is in the hands of a deletion that is past its object.
Held(f) == \/ \E d \in Deletes : del[d].at = "row" /\ del[d].file = f
           \/ \E p \in Passes : item[p] = f

Shared(f) == \E e \in Files \ {f} : keyOf[e] = keyOf[f]

Paired == \A f \in Files :
    (f \in rows \/ post[f] = "create") /\ keyOf[f] \notin objects
        => Held(f) \/ f \in leftRow \/ Shared(f)

\* The other way round the witness must be a row that no deletion has in hand,
\* since a deletion past the object is about to take its row away.
Owns(f) == f \in leftObject \/ post[f] = "create" \/ (f \in rows /\ ~Held(f))

Owned == \A k \in objects : \E f \in Files : keyOf[f] = k /\ Owns(f)

LEMMA NoFileIsNone == 0 \notin Files
BY DEF Files

LEMMA HeldDone == FileInv => \A f \in Files : Held(f) => post[f] = "done"
BY DEF FileInv, InHand, Held, Files, NoFile

LEMMA HeldIsLeaving == FileInv => \A f \in Files : Held(f) <=> f \in Leaving
BY DEF FileInv, UploadsTypeOK, Held, Leaving

LEMMA PairedStep ==
    FileInv /\ FileInv' /\ Paired /\ FileStep => Paired'
<1> SUFFICES ASSUME FileInv, FileInv', Paired, FileStep PROVE Paired'
  OBVIOUS
<1> USE DEF FileInv, UploadsTypeOK, Begun, RowsDone, InHand, fileVars, cleanerVars, Others,
            OnlyCleaner, NoFile, Paired, Shared, Held
<1>1. CASE Crash
  BY <1>1 DEF Crash, Posting, Finished
<1>2. CASE StartFails \/ SetInterval \/ UNCHANGED <<fileVars, del, cleanerVars>>
  BY <1>2 DEF StartFails, SetInterval
<1>3. CASE Ends \/ Kill
  BY <1>3, NoFileIsNone DEF Ends, Kill, Halts
<1>4. ASSUME NEW f \in Files, PostStep(f) PROVE Paired'
  <2>1. CASE putObject(f)
    BY <2>1 DEF putObject, Posts
  <2>2. CASE PutFails(f)
    BY <2>2 DEF PutFails, Posts
  <2>3. CASE CreateRow(f)
    BY <2>3 DEF CreateRow, Posts
  <2>4. CASE CreateFails(f)
    BY <2>4 DEF CreateFails, Posts
  <2> QED BY <1>4, <2>1, <2>2, <2>3, <2>4 DEF PostStep
<1>5. ASSUME NEW f \in Files, Tick(f) PROVE Paired'
  BY <1>5 DEF Tick
<1>6. ASSUME NEW f \in Files, NEW b \in BOOLEAN, Post(f, b) PROVE Paired'
  <2>1. post[f] = "none" /\ f \notin rows
    BY <1>6 DEF Post, New, Files
  <2>2. \A e \in Files \ {f} : keyOf'[e] = keyOf[e]
    BY <1>6 DEF Post, generateStorageKey
  <2>3. post' = [post EXCEPT ![f] = "put"]
    BY <1>6 DEF Post, Posts
  <2>4. UNCHANGED <<objects, rows, leftRow, del, item>>
    BY <1>6 DEF Post, Posts
  <2>5. \A e \in Files \ {f} : Shared(e) /\ post[e] # "none" => Shared(e)'
    BY <2>1, <2>2 DEF Files
  <2> QED BY <2>1, <2>2, <2>3, <2>4, <2>5
<1>7. ASSUME NEW d \in Deletes, NEW f \in Files, Delete(d, f) PROVE Paired'
  <2>1. del[d].at = "none"
    BY <1>7 DEF Delete, Deletes, Nothing
  <2>2. del'[d].at \in {"object", "over"} /\ \A c \in Deletes \ {d} : del'[c] = del[c]
    BY <1>7 DEF Delete, Finished
  <2> QED BY <1>7, <2>1, <2>2 DEF Delete
<1>8. ASSUME NEW d \in Deletes, DeleteStep(d) PROVE Paired'
  <2>1. CASE DeleteObject(d)
    BY <2>1 DEF DeleteObject, Deletions, ToRow
  <2>2. CASE DeleteObjectFails(d)
    BY <2>2 DEF DeleteObjectFails, Deletions, ToRow
  <2>3. CASE DeleteRow(d)
    BY <2>3, HeldDone DEF DeleteRow, Deletions, Finished
  <2>4. CASE DeleteRowFails(d)
    BY <2>4 DEF DeleteRowFails, Deletions, Finished
  <2> QED BY <1>8, <2>1, <2>2, <2>3, <2>4 DEF DeleteStep
<1>9. ASSUME NEW p \in Passes, Start(p) \/ Interval(p) PROVE Paired'
  BY <1>9 DEF Start, Interval, FindStale
<1>10. ASSUME NEW p \in Passes, PassStep(p) PROVE Paired'
  <2>1. CASE CleanRow(p) \/ CleanRowFails(p)
    BY <2>1, HeldDone, NoFileIsNone DEF CleanRow, CleanRowFails
  <2>2. ASSUME NEW f \in Files, CleanObject(p, f) PROVE Paired'
    BY <2>2, NoFileIsNone DEF CleanObject
  <2>3. ASSUME NEW f \in Files, CleanObjectFails(p, f) PROVE Paired'
    BY <2>3, NoFileIsNone DEF CleanObjectFails, HidesFailure, ThrowsFailure
  <2> QED BY <1>10, <2>1, <2>2, <2>3 DEF PassStep
<1> HIDE DEF FileInv, UploadsTypeOK, Begun, RowsDone, InHand, Paired
<1> QED BY <1>1, <1>2, <1>3, <1>4, <1>5, <1>6, <1>7, <1>8, <1>9, <1>10 DEF FileStep

LEMMA OwnedStep ==
    FileInv /\ FileInv' /\ Owned /\ FileStep => Owned'
<1> SUFFICES ASSUME FileInv, FileInv', Owned, FileStep PROVE Owned'
  OBVIOUS
<1> USE DEF FileInv, UploadsTypeOK, Begun, RowsDone, InHand, fileVars, cleanerVars, Others,
            OnlyCleaner, NoFile, Owned, Owns, Held
<1>1. CASE Crash
  BY <1>1 DEF Crash, Posting, Finished
<1>2. CASE StartFails \/ SetInterval \/ UNCHANGED <<fileVars, del, cleanerVars>>
  BY <1>2 DEF StartFails, SetInterval
<1>3. CASE Ends \/ Kill
  BY <1>3, NoFileIsNone DEF Ends, Kill, Halts
<1>4. ASSUME NEW f \in Files, PostStep(f) PROVE Owned'
  <2>1. CASE putObject(f)
    BY <2>1 DEF putObject, Posts
  <2>2. CASE PutFails(f)
    BY <2>2 DEF PutFails, Posts
  <2>3. CASE CreateRow(f)
    BY <2>3, HeldDone DEF CreateRow, Posts
  <2>4. CASE CreateFails(f)
    BY <2>4 DEF CreateFails, Posts
  <2> QED BY <1>4, <2>1, <2>2, <2>3, <2>4 DEF PostStep
<1>5. ASSUME NEW f \in Files, Tick(f) PROVE Owned'
  BY <1>5 DEF Tick
<1>6. ASSUME NEW f \in Files, NEW b \in BOOLEAN, Post(f, b) PROVE Owned'
  <2>1. post[f] = "none" /\ ~Owns(f)
    BY <1>6 DEF Post, New, Files
  <2>2. \A e \in Files \ {f} : keyOf'[e] = keyOf[e]
    BY <1>6 DEF Post, generateStorageKey
  <2>3. post' = [post EXCEPT ![f] = "put"]
    BY <1>6 DEF Post, Posts
  <2>4. UNCHANGED <<objects, rows, leftObject, del, item>>
    BY <1>6 DEF Post, Posts
  <2> QED BY <2>1, <2>2, <2>3, <2>4
<1>7. ASSUME NEW d \in Deletes, NEW f \in Files, Delete(d, f) PROVE Owned'
  <2>1. del[d].at = "none"
    BY <1>7 DEF Delete, Deletes, Nothing
  <2>2. del'[d].at \in {"object", "over"} /\ \A c \in Deletes \ {d} : del'[c] = del[c]
    BY <1>7 DEF Delete, Finished
  <2> QED BY <1>7, <2>1, <2>2 DEF Delete
<1>8. ASSUME NEW d \in Deletes, DeleteStep(d) PROVE Owned'
  <2>1. CASE DeleteObject(d)
    BY <2>1 DEF DeleteObject, Deletions, ToRow
  <2>2. CASE DeleteObjectFails(d)
    BY <2>2 DEF DeleteObjectFails, Deletions, ToRow
  <2>3. CASE DeleteRow(d)
    BY <2>3 DEF DeleteRow, Deletions, Finished
  <2>4. CASE DeleteRowFails(d)
    BY <2>4 DEF DeleteRowFails, Deletions, Finished
  <2> QED BY <1>8, <2>1, <2>2, <2>3, <2>4 DEF DeleteStep
<1>9. ASSUME NEW p \in Passes, Start(p) \/ Interval(p) PROVE Owned'
  BY <1>9 DEF Start, Interval, FindStale
<1>10. ASSUME NEW p \in Passes, PassStep(p) PROVE Owned'
  <2>1. CASE CleanRow(p) \/ CleanRowFails(p)
    BY <2>1, NoFileIsNone DEF CleanRow, CleanRowFails
  <2>2. ASSUME NEW f \in Files, CleanObject(p, f) PROVE Owned'
    BY <2>2, NoFileIsNone DEF CleanObject
  <2>3. ASSUME NEW f \in Files, CleanObjectFails(p, f) PROVE Owned'
    BY <2>3, NoFileIsNone DEF CleanObjectFails, HidesFailure, ThrowsFailure
  <2> QED BY <1>10, <2>1, <2>2, <2>3 DEF PassStep
<1> HIDE DEF FileInv, UploadsTypeOK, Begun, RowsDone, InHand, Owned
<1> QED BY <1>1, <1>2, <1>3, <1>4, <1>5, <1>6, <1>7, <1>8, <1>9, <1>10 DEF FileStep

(***************************************************************************)
(* The panel.  What it shows is the session's list or something is still   *)
(* unsettled: an upload that is done and has no load yet, or a deletion    *)
(* without an answer; either will ask for a load, and the load that was    *)
(* under way is then not alone any more.                                   *)
(***************************************************************************)

Listed == rows \cap linked

Unsettled ==
    \/ deleting # {}
    \/ uploading # NoFile /\ post[uploading] = "done" /\ \A l \in Loads : load[l].for # uploading

PanelTypeOK ==
    /\ shown \in SUBSET Files
    /\ load \in [Loads -> [at : {"idle", "asked", "answered"}, for : Files \cup {NoFile},
                           rows : SUBSET Files, alone : BOOLEAN]]
    /\ uploading \in Files \cup {NoFile} /\ deleting \in SUBSET Deletes
    /\ doubt \in BOOLEAN

AnswerIsList ==
    \A l \in Loads : load[l].at = "answered" /\ load[l].alone => load[l].rows = Listed \/ Unsettled
ShownIsList == ~doubt /\ Loading = {} => shown = Listed \/ Unsettled
AloneIsAlone == \A l \in Loading : /\ ~doubt => load[l].alone
                                   /\ load[l].alone => \A k \in Loading : k = l

\* Uploads to the session and deletions from it are the panel's own, and the
\* cleaner has nothing of the session.
OnlyUpload == \A f \in linked : post[f] \in {"put", "create"} => uploading = f
UploadBegun == uploading # NoFile => post[uploading] # "none"
LoadAfterUpload ==
    \A l \in Loads : load[l].for # NoFile => /\ load[l].at # "idle"
                                             /\ uploading = load[l].for
                                             /\ post[uploading] = "done"
                                             /\ \A k \in Loads : load[k].for = load[l].for => k = l
OnlyDeletes ==
    \A d \in Deletes : del[d].at \in {"object", "row"} /\ del[d].file \in linked => d \in deleting
NotTheCleaners ==
    /\ old \cap linked = {}
    /\ \A p \in Passes : todo[p] \cap linked = {} /\ item[p] \notin linked

PanelInv ==
    /\ PanelTypeOK /\ AnswerIsList /\ ShownIsList /\ AloneIsAlone
    /\ OnlyUpload /\ UploadBegun /\ LoadAfterUpload /\ OnlyDeletes /\ NotTheCleaners

LEMMA PanelInit == Init => PanelInv
BY DEF Init, UploadsInit, PanelInv, PanelTypeOK, AnswerIsList, ShownIsList, AloneIsAlone,
OnlyUpload,
   UploadBegun, LoadAfterUpload, OnlyDeletes, NotTheCleaners, Loading, IdleLoad, Nothing, NoFile

LEMMA RouteKeeps ==
    FileInv /\ FileInv' /\ PanelInv /\ RouteStep /\ UNCHANGED panelVars => PanelInv'
<1> SUFFICES ASSUME FileInv, FileInv', PanelInv, RouteStep, UNCHANGED panelVars PROVE PanelInv'
  OBVIOUS
<1> USE NoFileIsNone
    DEF FileInv, UploadsTypeOK, Begun, RowsDone, InHand, fileVars, cleanerVars, panelVars, NoFile,
        PanelInv, PanelTypeOK, AnswerIsList, ShownIsList, AloneIsAlone, OnlyUpload, UploadBegun,
        LoadAfterUpload, OnlyDeletes, NotTheCleaners, Loading, Listed, Unsettled
<1>1. ASSUME NEW f \in Files, Post(f, FALSE) PROVE PanelInv'
  <2>1. post[f] = "none"
    BY <1>1 DEF Post, New, Files
  <2>2. /\ post' = [post EXCEPT ![f] = "put"]
        /\ UNCHANGED <<rows, linked, old, del, todo, item>>
    BY <1>1 DEF Post, Posts
  <2> QED BY <2>1, <2>2
<1>2. ASSUME NEW f \in Files, PostStep(f) PROVE PanelInv'
  <2>1. CASE putObject(f)
    BY <2>1 DEF putObject, Posts
  <2>2. CASE PutFails(f)
    BY <2>2 DEF PutFails, Posts
  <2>3. CASE CreateRow(f)
    BY <2>3 DEF CreateRow, Posts
  <2>4. CASE CreateFails(f)
    BY <2>4 DEF CreateFails, Posts
  <2> QED BY <1>2, <2>1, <2>2, <2>3, <2>4 DEF PostStep
<1>3. ASSUME NEW f \in Files, Tick(f) PROVE PanelInv'
  BY <1>3 DEF Tick
<1>4. ASSUME NEW d \in Deletes, NEW f \in Files \ linked, Delete(d, f) PROVE PanelInv'
  BY <1>4 DEF Delete, Finished
<1>5. ASSUME NEW d \in Deletes, DeleteStep(d) PROVE PanelInv'
  <2>1. CASE DeleteObject(d) \/ DeleteObjectFails(d)
    <3>1. /\ del' = [del EXCEPT ![d].at = "row"] /\ del[d].at = "object"
          /\ UNCHANGED <<rows, linked, old, post, todo, item>>
      BY <2>1 DEF DeleteObject, DeleteObjectFails, Deletions, ToRow
    <3>2. OnlyDeletes'
      BY <3>1
    <3> QED BY <3>1, <3>2
  <2>2. CASE DeleteRow(d) \/ DeleteRowFails(d)
    <3>1. /\ del' = [del EXCEPT ![d] = Finished] /\ del[d].at = "row"
          /\ rows' \in {rows, rows \ {del[d].file}} /\ old' \subseteq old
          /\ UNCHANGED <<linked, post, todo, item>>
      BY <2>2 DEF DeleteRow, DeleteRowFails, Deletions
    <3>2. Listed' = Listed \/ deleting # {}
      BY <3>1
    <3>3. OnlyDeletes'
      BY <3>1 DEF Finished
    <3> QED BY <3>1, <3>2, <3>3
  <2> QED BY <1>5, <2>1, <2>2 DEF DeleteStep
<1> HIDE DEF FileInv, PanelInv
<1> QED BY <1>1, <1>2, <1>3, <1>4, <1>5 DEF RouteStep

LEMMA CleanerKeeps ==
    FileInv /\ FileInv' /\ PanelInv /\ CleanerStep /\ UNCHANGED panelVars => PanelInv'
<1> SUFFICES ASSUME FileInv, FileInv', PanelInv, CleanerStep, UNCHANGED panelVars PROVE PanelInv'
  OBVIOUS
<1> USE NoFileIsNone
    DEF FileInv, UploadsTypeOK, fileVars, cleanerVars, panelVars, NoFile, Others, OnlyCleaner,
        PanelInv, PanelTypeOK, AnswerIsList, ShownIsList, AloneIsAlone, OnlyUpload, UploadBegun,
        LoadAfterUpload, OnlyDeletes, NotTheCleaners, Loading, Listed, Unsettled
<1>1. CASE StartFails \/ SetInterval
  BY <1>1 DEF StartFails, SetInterval
<1>2. CASE Ends \/ Kill
  BY <1>2 DEF Ends, Kill, Halts
<1>3. ASSUME NEW p \in Passes, Start(p) \/ Interval(p) PROVE PanelInv'
  BY <1>3 DEF Start, Interval, FindStale, Stale
<1>4. ASSUME NEW p \in Passes, PassStep(p) PROVE PanelInv'
  <2>1. CASE CleanRow(p) \/ CleanRowFails(p)
    BY <2>1 DEF CleanRow, CleanRowFails
  <2>2. ASSUME NEW f \in Files, CleanObject(p, f) \/ CleanObjectFails(p, f) PROVE PanelInv'
    <3>1. /\ f \in todo[p] /\ todo' = [todo EXCEPT ![p] = @ \ {f}]
          /\ item' = [item EXCEPT ![p] = f] \/ item' = item
          /\ UNCHANGED <<rows, old, linked, post, del>>
      BY <2>2 DEF CleanObject, CleanObjectFails, HidesFailure, ThrowsFailure
    <3>2. NotTheCleaners'
      BY <3>1
    <3> QED BY <3>1, <3>2
  <2> QED BY <1>4, <2>1, <2>2 DEF PassStep
<1> HIDE DEF FileInv, PanelInv
<1> QED BY <1>1, <1>2, <1>3, <1>4 DEF CleanerStep

LoadType == [at : {"idle", "asked", "answered"}, for : Files \cup {NoFile},
             rows : SUBSET Files, alone : BOOLEAN]

\* A load that begins finds no other alone, and leaves none so.
LEMMA AsksKeeps ==
    ASSUME load \in [Loads -> LoadType], doubt \in BOOLEAN,
           NEW l \in Loads, NEW f \in Files \cup {NoFile}, Asks(l, f)
    PROVE  /\ load' \in [Loads -> LoadType] /\ doubt' \in BOOLEAN
           /\ load[l].at = "idle" /\ load'[l].for = f /\ load'[l].at = "asked"
           /\ \A k \in Loads \ {l} : load'[k].for = load[k].for /\ load'[k].at = load[k].at
           /\ AnswerIsList' /\ ShownIsList' /\ AloneIsAlone'
<1>1. load[l].at = "idle"
  BY DEF Asks, Loading
<1>2. load'[l] = [at |-> "asked", for |-> f, rows |-> {}, alone |-> Loading = {}]
  BY DEF Asks
<1>3. \A k \in Loads \ {l} : load'[k] = [load[k] EXCEPT !.alone = k \notin Loading]
  BY DEF Asks
<1>4. load' = [k \in Loads |-> load'[k]]
  BY DEF Asks
<1>5. (Loading = {}) \in BOOLEAN
  OBVIOUS
<1>6. load'[l] \in LoadType
  BY <1>2, <1>5 DEF LoadType
<1>7. \A k \in Loads \ {l} : /\ load'[k] \in LoadType
                             /\ load'[k].for = load[k].for /\ load'[k].at = load[k].at
                             /\ load'[k].alone = (k \notin Loading)
  <2> TAKE k \in Loads \ {l}
  <2>1. load[k] \in LoadType /\ load'[k] = [load[k] EXCEPT !.alone = k \notin Loading]
    BY <1>3
  <2> QED BY <2>1 DEF LoadType
<1>8. Loading' = Loading \cup {l} /\ l \notin Loading
  BY <1>1, <1>2, <1>7 DEF Loading
<1>9. doubt' = (doubt \/ Loading # {})
  BY DEF Asks
<1>10. \A k \in Loading' : k \in Loads /\ (k # l => ~load'[k].alone /\ doubt')
  <2>1. Loading \subseteq Loads
    BY DEF Loading
  <2> QED BY <2>1, <1>7, <1>8, <1>9
<1>11. AnswerIsList'
  BY <1>2, <1>8, <1>10 DEF AnswerIsList, Loading
<1>12. ShownIsList'
  <2>1. Loading' # {}
    BY <1>8
  <2> QED BY <2>1 DEF ShownIsList
<1>13. load'[l].alone = (Loading = {})
  BY <1>2
<1>14. AloneIsAlone'
  BY <1>8, <1>9, <1>10, <1>13 DEF AloneIsAlone
<1>15. load' \in [Loads -> LoadType]
  <2>1. \A k \in Loads : load'[k] \in LoadType
    BY <1>6, <1>7
  <2> QED BY <1>4, <2>1
<1>16. load'[l].for = f /\ load'[l].at = "asked"
  BY <1>2
<1>17. doubt' \in BOOLEAN
  BY <1>9
<1>18. \A k \in Loads \ {l} : load'[k].for = load[k].for /\ load'[k].at = load[k].at
  BY <1>7
<1> QED BY <1>1, <1>11, <1>12, <1>14, <1>15, <1>16, <1>17, <1>18

\* With a load that is over, the upload before it is.
LEMMA LoadOverKeeps ==
    ASSUME load \in [Loads -> LoadType], uploading \in Files \cup {NoFile},
           LoadAfterUpload, NEW l \in Loads, LoadOver(l)
    PROVE  /\ load' \in [Loads -> LoadType] /\ load'[l] = IdleLoad
           /\ \A k \in Loads \ {l} : load'[k] = load[k]
           /\ Loading' = Loading \ {l}
           /\ uploading' \in {uploading, NoFile}
           /\ uploading' # uploading => post[uploading] = "done"
           /\ UNCHANGED post => LoadAfterUpload'
           /\ UNCHANGED <<post, deleting>> /\ Unsettled => Unsettled'
<1>1. /\ load'[l] = IdleLoad
      /\ \A k \in Loads \ {l} : load'[k] = load[k]
      /\ load' = [k \in Loads |-> load'[k]]
  BY DEF LoadOver
<1>2. IdleLoad \in LoadType
  BY DEF IdleLoad, LoadType
<1>3. load' \in [Loads -> LoadType]
  <2>1. \A k \in Loads : load'[k] \in LoadType
    BY <1>1, <1>2
  <2> QED BY <1>1, <2>1
<1>4. Loading' = Loading \ {l}
  BY <1>1 DEF Loading, IdleLoad
<1>5. IdleLoad.for = NoFile /\ IdleLoad.at = "idle"
  BY DEF IdleLoad
<1>6. uploading' = IF load[l].for = NoFile THEN uploading ELSE NoFile
  BY DEF LoadOver
<1>7. ASSUME UNCHANGED post PROVE LoadAfterUpload'
  <2> SUFFICES ASSUME NEW k \in Loads, load'[k].for # NoFile
               PROVE  /\ load'[k].at # "idle" /\ uploading' = load'[k].for
                      /\ post[uploading'] = "done"
                      /\ \A j \in Loads : load'[j].for = load'[k].for => j = k
    BY <1>7 DEF LoadAfterUpload
  <2>1. k # l /\ load'[k] = load[k]
    BY <1>1, <1>5
  <2>2. /\ load[k].at # "idle" /\ uploading = load[k].for /\ post[uploading] = "done"
        /\ \A j \in Loads : load[j].for = load[k].for => j = k
    BY <2>1 DEF LoadAfterUpload
  <2>3. load[l].for = NoFile
    BY <2>1, <2>2 DEF LoadAfterUpload
  <2>4. \A j \in Loads : load'[j].for = load'[k].for => j = k
    BY <1>1, <1>5, <2>1, <2>2
  <2> QED BY <2>1, <2>2, <2>3, <2>4, <1>6
<1>8. uploading' \in {uploading, NoFile} /\ (uploading' # uploading => post[uploading] = "done")
  BY <1>6 DEF LoadAfterUpload
<1>9. ASSUME UNCHANGED <<post, deleting>>, Unsettled PROVE Unsettled'
  <2>1. CASE deleting # {}
    BY <1>9, <2>1 DEF Unsettled
  <2>2. CASE /\ uploading # NoFile /\ post[uploading] = "done"
             /\ \A k \in Loads : load[k].for # uploading
    <3>1. load[l].for = NoFile /\ uploading' = uploading
      BY <1>6, <2>2 DEF LoadAfterUpload
    <3>2. \A k \in Loads : load'[k].for # uploading
      BY <1>1, <1>5, <2>2
    <3> QED BY <1>9, <2>2, <3>1, <3>2 DEF Unsettled
  <2> QED BY <1>9, <2>1, <2>2 DEF Unsettled
<1> QED BY <1>1, <1>3, <1>4, <1>7, <1>8, <1>9

LEMMA PanelKeeps == FileInv /\ FileInv' /\ PanelInv /\ PanelStep => PanelInv'
<1> SUFFICES ASSUME FileInv, FileInv', PanelInv, PanelStep PROVE PanelInv'
  OBVIOUS
<1>0. /\ load \in [Loads -> LoadType] /\ doubt \in BOOLEAN /\ shown \in SUBSET Files
      /\ uploading \in Files \cup {NoFile} /\ deleting \in SUBSET Deletes
  BY DEF PanelInv, PanelTypeOK, LoadType
\* A step that leaves the files alone leaves these alone.
<1>f. ASSUME UNCHANGED <<fileVars, del, cleanerVars>>
      PROVE  /\ Listed' = Listed /\ NotTheCleaners'
             /\ UNCHANGED <<rows, linked, post, del, todo, item, old>>
  BY <1>f DEF PanelInv, NotTheCleaners, Listed, fileVars, cleanerVars
<1>1. CASE Lost
  <2>1. /\ post' = [f \in Files |-> IF post[f] \in {"put", "create"} THEN "failed" ELSE post[f]]
        /\ \A d \in Deletes : del'[d].at \notin {"object", "row"}
        /\ UNCHANGED <<rows, linked, old, todo, item, shown>>
        /\ deleting' = {} /\ doubt' = TRUE
    BY <1>1 DEF Lost, Crash, Posting, Finished, FileInv, UploadsTypeOK, fileVars, cleanerVars
  <2>2. uploading' = IF \E l \in Loads : load[l].at = "answered" /\ load[l].for # NoFile
                     THEN uploading ELSE NoFile
    BY <1>1 DEF Lost
  <2>3. load' = [l \in Loads |-> IF load[l].at = "asked" THEN IdleLoad
                                                        ELSE [load[l] EXCEPT !.alone = FALSE]]
    BY <1>1 DEF Lost
  <2>4. ASSUME NEW l \in Loads
        PROVE  /\ load'[l] \in LoadType /\ ~load'[l].alone
               /\ load[l].at = "asked" => load'[l].at = "idle" /\ load'[l].for = NoFile
               /\ load[l].at # "asked" => load'[l].at = load[l].at /\ load'[l].for = load[l].for
    <3>1. CASE load[l].at = "asked"
      BY <2>3, <3>1 DEF IdleLoad, LoadType
    <3>2. CASE load[l].at # "asked"
      <4>1. load[l] \in LoadType /\ load'[l] = [load[l] EXCEPT !.alone = FALSE]
        BY <1>0, <2>3, <3>2
      <4> QED BY <4>1, <3>2 DEF LoadType
    <3> QED BY <3>1, <3>2
  <2>5. load' \in [Loads -> LoadType]
    <3>1. \A l \in Loads : load'[l] \in LoadType
      BY <2>4
    <3>2. load' = [l \in Loads |-> load'[l]]
      BY <2>3
    <3> QED BY <3>1, <3>2
  <2>6. PanelTypeOK'
    BY <1>0, <2>1, <2>2, <2>5 DEF PanelTypeOK, LoadType
  <2>7. AnswerIsList' /\ ShownIsList' /\ AloneIsAlone'
    BY <2>1, <2>4 DEF AnswerIsList, ShownIsList, AloneIsAlone, Loading
  <2>8. OnlyUpload' /\ OnlyDeletes' /\ NotTheCleaners'
    BY <2>1 DEF PanelInv, OnlyUpload, OnlyDeletes, NotTheCleaners, FileInv, UploadsTypeOK
  <2>9. UploadBegun'
    BY <1>0, <2>1, <2>2 DEF PanelInv, UploadBegun
  <2>10. LoadAfterUpload'
    <3> SUFFICES ASSUME NEW l \in Loads, load'[l].for # NoFile
                 PROVE  /\ load'[l].at # "idle" /\ uploading' = load'[l].for
                        /\ post'[uploading'] = "done"
                        /\ \A k \in Loads : load'[k].for = load'[l].for => k = l
      BY DEF LoadAfterUpload
    <3>1. load[l].at # "asked" /\ load'[l].at = load[l].at /\ load'[l].for = load[l].for
      BY <2>4
    <3>2. /\ load[l].at # "idle" /\ uploading = load[l].for /\ post[uploading] = "done"
          /\ \A k \in Loads : load[k].for = load[l].for => k = l
      BY <3>1 DEF PanelInv, LoadAfterUpload
    <3>3. load[l].at = "answered"
      BY <1>0, <3>1, <3>2 DEF LoadType
    <3>4. uploading' = uploading /\ uploading \in Files
      BY <1>0, <2>2, <3>1, <3>2, <3>3
    <3>5. post'[uploading] = "done"
      BY <2>1, <3>2, <3>4
    <3>6. \A k \in Loads : load'[k].for = load'[l].for => k = l
      BY <2>4, <3>1, <3>2
    <3> QED BY <3>1, <3>2, <3>4, <3>5, <3>6
  <2> QED BY <2>6, <2>7, <2>8, <2>9, <2>10 DEF PanelInv
<1>2. ASSUME NEW l \in Loads, Mount(l) PROVE PanelInv'
  <2>1. Asks(l, NoFile) /\ UNCHANGED <<uploadVars, shown, uploading, deleting>>
    BY <1>2 DEF Mount
  <2>2. /\ Listed' = Listed /\ NotTheCleaners'
        /\ UNCHANGED <<rows, linked, post, del, todo, item, old>>
    BY <2>1, <1>f DEF uploadVars
  <2>3. /\ load' \in [Loads -> LoadType] /\ doubt' \in BOOLEAN
        /\ load[l].at = "idle" /\ load'[l].for = NoFile /\ load'[l].at = "asked"
        /\ \A k \in Loads \ {l} : load'[k].for = load[k].for /\ load'[k].at = load[k].at
        /\ AnswerIsList' /\ ShownIsList' /\ AloneIsAlone'
    BY <1>0, <2>1, AsksKeeps
  <2>4. PanelTypeOK'
    BY <1>0, <2>1, <2>3 DEF PanelTypeOK, LoadType
  <2>5. OnlyUpload' /\ UploadBegun' /\ OnlyDeletes'
    BY <2>1, <2>2 DEF PanelInv, OnlyUpload, UploadBegun, OnlyDeletes
  <2>6. LoadAfterUpload'
    BY <2>1, <2>2, <2>3 DEF PanelInv, LoadAfterUpload
  <2> QED BY <2>2, <2>3, <2>4, <2>5, <2>6 DEF PanelInv
<1>3. ASSUME NEW l \in Loads, List(l) PROVE PanelInv'
  <2>1. /\ load[l].at = "asked" /\ load' = [load EXCEPT ![l].at = "answered", ![l].rows = Listed]
        /\ UNCHANGED <<uploadVars, shown, uploading, deleting, doubt>>
    BY <1>3 DEF List, Listed
  <2>2. /\ Listed' = Listed /\ NotTheCleaners' /\ Listed \subseteq Files
        /\ UNCHANGED <<rows, linked, post, del, todo, item, old>>
    BY <2>1, <1>f DEF uploadVars, FileInv, UploadsTypeOK, Listed
  <2>3. /\ load' = [load EXCEPT ![l] = [@ EXCEPT !.at = "answered", !.rows = Listed]]
        /\ load[l] \in LoadType
    BY <1>0, <2>1
  <2>4. load' \in [Loads -> LoadType]
    BY <1>0, <2>2, <2>3 DEF LoadType
  <2>5. /\ load'[l].at = "answered" /\ load'[l].rows = Listed
        /\ load'[l].for = load[l].for /\ load'[l].alone = load[l].alone
        /\ \A k \in Loads \ {l} : load'[k] = load[k]
    BY <1>0, <2>3 DEF LoadType
  <2>6. Loading' = Loading
    BY <2>1, <2>5 DEF Loading
  <2>7. Unsettled' = Unsettled
    BY <2>1, <2>2, <2>5 DEF Unsettled
  <2>8. PanelTypeOK'
    BY <1>0, <2>1, <2>4 DEF PanelTypeOK, LoadType
  <2>9. /\ AnswerIsList'
        /\ ShownIsList' /\ AloneIsAlone'
    <3>1. AnswerIsList'
      BY <2>2, <2>5, <2>7 DEF PanelInv, AnswerIsList
    <3>2. ShownIsList'
      BY <2>1, <2>2, <2>6, <2>7 DEF PanelInv, ShownIsList
    <3>3. \A k \in Loads : load'[k].alone = load[k].alone
      BY <2>5
    <3>4. AloneIsAlone'
      BY <2>1, <2>6, <3>3 DEF PanelInv, AloneIsAlone, Loading
    <3> QED BY <3>1, <3>2, <3>4
  <2>10. OnlyUpload' /\ UploadBegun' /\ OnlyDeletes'
    BY <2>1, <2>2 DEF PanelInv, OnlyUpload, UploadBegun, OnlyDeletes
  <2>11. LoadAfterUpload'
    <3>1. \A k \in Loads : /\ load'[k].for = load[k].for
                           /\ load[k].at # "idle" => load'[k].at # "idle"
      BY <2>5
    <3> QED BY <2>1, <2>2, <3>1 DEF PanelInv, LoadAfterUpload
  <2> QED BY <2>2, <2>8, <2>9, <2>10, <2>11 DEF PanelInv
<1>4. ASSUME NEW l \in Loads, ListFails(l) PROVE PanelInv'
  <2>1. /\ load[l].at = "asked" /\ LoadOver(l) /\ doubt' = TRUE
        /\ UNCHANGED <<fileVars, del, cleanerVars, shown, deleting>>
    BY <1>4 DEF ListFails
  <2>2. /\ Listed' = Listed /\ NotTheCleaners'
        /\ UNCHANGED <<rows, linked, post, del, todo, item, old>>
    BY <2>1, <1>f
  <2>3. /\ load' \in [Loads -> LoadType] /\ load'[l] = IdleLoad
        /\ \A k \in Loads \ {l} : load'[k] = load[k]
        /\ Loading' = Loading \ {l}
        /\ uploading' \in {uploading, NoFile}
        /\ uploading' # uploading => post[uploading] = "done"
        /\ LoadAfterUpload'
        /\ UNCHANGED <<post, deleting>> /\ Unsettled => Unsettled'
    BY <1>0, <2>1, <2>2, LoadOverKeeps DEF PanelInv
  <2>4. PanelTypeOK'
    BY <1>0, <2>1, <2>3 DEF PanelTypeOK, LoadType
  <2>5. l \in Loading /\ IdleLoad.at = "idle" /\ Loading \subseteq Loads
    BY <2>1 DEF Loading, IdleLoad
  <2>6. AnswerIsList'
    BY <2>3, <2>5 DEF PanelInv, AnswerIsList, AloneIsAlone, Loading
  <2>7. ShownIsList'
    BY <2>1 DEF ShownIsList
  <2>8. AloneIsAlone'
    BY <2>1, <2>3, <2>5 DEF PanelInv, AloneIsAlone
  <2>9. OnlyUpload' /\ UploadBegun' /\ OnlyDeletes'
    BY <1>0, <2>1, <2>2, <2>3 DEF PanelInv, OnlyUpload, UploadBegun, OnlyDeletes
  <2> QED BY <2>2, <2>3, <2>4, <2>6, <2>7, <2>8, <2>9 DEF PanelInv
<1>5. ASSUME NEW l \in Loads, setUploads(l) PROVE PanelInv'
  <2>1. /\ load[l].at = "answered" /\ shown' = load[l].rows /\ LoadOver(l)
        /\ doubt' = (doubt /\ ~load[l].alone)
        /\ UNCHANGED <<uploadVars, deleting>>
    BY <1>5 DEF setUploads
  <2>2. /\ Listed' = Listed /\ NotTheCleaners'
        /\ UNCHANGED <<rows, linked, post, del, todo, item, old>>
    BY <2>1, <1>f DEF uploadVars
  <2>3. /\ load' \in [Loads -> LoadType] /\ load'[l] = IdleLoad
        /\ \A k \in Loads \ {l} : load'[k] = load[k]
        /\ Loading' = Loading \ {l}
        /\ uploading' \in {uploading, NoFile}
        /\ uploading' # uploading => post[uploading] = "done"
        /\ LoadAfterUpload'
        /\ UNCHANGED <<post, deleting>> /\ Unsettled => Unsettled'
    BY <1>0, <2>1, <2>2, LoadOverKeeps DEF PanelInv
  <2>s. load[l].rows \subseteq Files /\ load[l].alone \in BOOLEAN
    BY <1>0 DEF LoadType
  <2>4. PanelTypeOK'
    BY <1>0, <2>1, <2>3, <2>s DEF PanelTypeOK, LoadType
  <2>5. l \in Loading /\ IdleLoad.at = "idle" /\ Loading \subseteq Loads
    BY <2>1 DEF Loading, IdleLoad
  <2>6. AnswerIsList'
    BY <2>3, <2>5 DEF PanelInv, AnswerIsList, AloneIsAlone, Loading
  <2>7. ShownIsList'
    <3> SUFFICES ASSUME ~doubt' PROVE shown' = Listed' \/ Unsettled'
      BY DEF ShownIsList
    <3>1. load[l].alone
      BY <2>1, <2>5, <2>s DEF PanelInv, AloneIsAlone
    <3>2. load[l].rows = Listed \/ Unsettled
      BY <2>1, <3>1 DEF PanelInv, AnswerIsList
    <3> QED BY <2>1, <2>2, <2>3, <3>2
  <2>8. AloneIsAlone'
    BY <2>1, <2>3, <2>5 DEF PanelInv, AloneIsAlone
  <2>9. OnlyUpload' /\ UploadBegun' /\ OnlyDeletes'
    BY <1>0, <2>1, <2>2, <2>3 DEF PanelInv, OnlyUpload, UploadBegun, OnlyDeletes
  <2> QED BY <2>2, <2>3, <2>4, <2>6, <2>7, <2>8, <2>9 DEF PanelInv
<1>6. ASSUME NEW l \in Loads, NEW f \in Files, Uploaded(f, l) PROVE PanelInv'
  <2>1. /\ f = uploading /\ post[f] = "done" /\ \A k \in Loads : load[k].for # f
        /\ Asks(l, f) /\ UNCHANGED <<uploadVars, shown, uploading, deleting>>
    BY <1>6 DEF Uploaded
  <2>2. /\ Listed' = Listed /\ NotTheCleaners'
        /\ UNCHANGED <<rows, linked, post, del, todo, item, old>>
    BY <2>1, <1>f DEF uploadVars
  <2>3. /\ load' \in [Loads -> LoadType] /\ doubt' \in BOOLEAN
        /\ load[l].at = "idle" /\ load'[l].for = f /\ load'[l].at = "asked"
        /\ \A k \in Loads \ {l} : load'[k].for = load[k].for /\ load'[k].at = load[k].at
        /\ AnswerIsList' /\ ShownIsList' /\ AloneIsAlone'
    BY <1>0, <2>1, AsksKeeps
  <2>4. PanelTypeOK'
    BY <1>0, <2>1, <2>3 DEF PanelTypeOK, LoadType
  <2>5. OnlyUpload' /\ UploadBegun' /\ OnlyDeletes'
    BY <2>1, <2>2 DEF PanelInv, OnlyUpload, UploadBegun, OnlyDeletes
  <2>6. LoadAfterUpload'
    BY <2>1, <2>2, <2>3 DEF PanelInv, LoadAfterUpload
  <2> QED BY <2>2, <2>3, <2>4, <2>5, <2>6 DEF PanelInv
<1>7. ASSUME NEW l \in Loads, NEW d \in Deletes, Deleted(d, l) PROVE PanelInv'
  <2>1. /\ d \in deleting /\ del[d] = Finished /\ deleting' = deleting \ {d}
        /\ Asks(l, NoFile) /\ UNCHANGED <<uploadVars, shown, uploading>>
    BY <1>7 DEF Deleted, Answered
  <2>2. /\ Listed' = Listed /\ NotTheCleaners'
        /\ UNCHANGED <<rows, linked, post, del, todo, item, old>>
    BY <2>1, <1>f DEF uploadVars
  <2>3. /\ load' \in [Loads -> LoadType] /\ doubt' \in BOOLEAN
        /\ load[l].at = "idle" /\ load'[l].for = NoFile /\ load'[l].at = "asked"
        /\ \A k \in Loads \ {l} : load'[k].for = load[k].for /\ load'[k].at = load[k].at
        /\ AnswerIsList' /\ ShownIsList' /\ AloneIsAlone'
    BY <1>0, <2>1, AsksKeeps
  <2>4. PanelTypeOK'
    BY <1>0, <2>1, <2>3 DEF PanelTypeOK, LoadType
  <2>5. OnlyUpload' /\ UploadBegun'
    BY <2>1, <2>2 DEF PanelInv, OnlyUpload, UploadBegun
  <2>6. OnlyDeletes'
    BY <2>1, <2>2 DEF PanelInv, OnlyDeletes, Finished
  <2>7. LoadAfterUpload'
    BY <2>1, <2>2, <2>3 DEF PanelInv, LoadAfterUpload
  <2> QED BY <2>2, <2>3, <2>4, <2>5, <2>6, <2>7 DEF PanelInv
<1>8. ASSUME NEW f \in Files, HandleUpload(f) PROVE PanelInv'
  <2>1. post[f] = "none"
    BY <1>8 DEF HandleUpload, Post, New, Files
  <2>2. /\ post' = [post EXCEPT ![f] = "put"] /\ linked' = linked \cup {f}
        /\ UNCHANGED <<rows, old, del, todo, item, deleting, shown, load, doubt>>
        /\ uploading = NoFile /\ uploading' = f
    BY <1>8 DEF HandleUpload, Post, Posts, cleanerVars
  <2>3. f # NoFile /\ f \notin rows /\ f \notin old
    BY <2>1, NoFileIsNone DEF NoFile, FileInv, RowsDone, UploadsTypeOK
  <2>4. /\ \A l \in Loads : load[l].for = NoFile
        /\ \A e \in linked : post[e] \notin {"put", "create"}
    BY <2>2, NoFileIsNone DEF NoFile, PanelInv, LoadAfterUpload, OnlyUpload, FileInv,
         UploadsTypeOK
  <2>5. Listed' = Listed /\ Unsettled => Unsettled'
    BY <2>2, <2>3 DEF Listed, Unsettled
  <2>6. Listed' = Listed /\ Loading' = Loading
    BY <2>2, <2>3 DEF Listed, Loading
  <2>7. PanelTypeOK'
    BY <1>0, <2>2 DEF PanelTypeOK, LoadType
  <2>8. AnswerIsList' /\ ShownIsList' /\ AloneIsAlone'
    BY <2>2, <2>5, <2>6 DEF PanelInv, AnswerIsList, ShownIsList, AloneIsAlone
  <2>9. OnlyUpload' /\ UploadBegun' /\ LoadAfterUpload'
    BY <2>2, <2>3, <2>4 DEF OnlyUpload, UploadBegun, LoadAfterUpload, FileInv, UploadsTypeOK
  <2>10. OnlyDeletes'
    BY <2>1, <2>2 DEF PanelInv, OnlyDeletes, FileInv, InHand
  <2>11. NotTheCleaners'
    BY <2>1, <2>2, <2>3 DEF PanelInv, NotTheCleaners, FileInv, InHand
  <2> QED BY <2>7, <2>8, <2>9, <2>10, <2>11 DEF PanelInv
<1>9. ASSUME NEW f \in Files, UploadFailed(f) PROVE PanelInv'
  <2>1. /\ f = uploading /\ post[f] = "failed" /\ uploading' = NoFile
        /\ UNCHANGED <<uploadVars, deleting, shown, load, doubt>>
    BY <1>9 DEF UploadFailed
  <2>2. /\ Listed' = Listed /\ NotTheCleaners'
        /\ UNCHANGED <<rows, linked, post, del, todo, item, old>>
    BY <2>1, <1>f DEF uploadVars
  <2>3. \A l \in Loads : load[l].for = NoFile
    BY <2>1 DEF PanelInv, LoadAfterUpload
  <2>4. Unsettled => Unsettled'
    BY <2>1, <2>2 DEF Unsettled
  <2>5. Loading' = Loading
    BY <2>1 DEF Loading
  <2>6. PanelTypeOK'
    BY <1>0, <2>1 DEF PanelTypeOK, LoadType
  <2>7. AnswerIsList' /\ ShownIsList' /\ AloneIsAlone'
    BY <2>1, <2>2, <2>4, <2>5 DEF PanelInv, AnswerIsList, ShownIsList, AloneIsAlone
  <2>8. OnlyUpload' /\ UploadBegun' /\ LoadAfterUpload' /\ OnlyDeletes'
    BY <2>1, <2>2, <2>3 DEF PanelInv, OnlyUpload, UploadBegun, LoadAfterUpload, OnlyDeletes
  <2> QED BY <2>2, <2>6, <2>7, <2>8 DEF PanelInv
<1>10. ASSUME NEW f \in Files, NEW d \in Deletes, HandleDelete(d, f) PROVE PanelInv'
  <2>1. /\ deleting' = deleting \cup {d} /\ \A c \in Deletes \ {d} : del'[c] = del[c]
        /\ UNCHANGED <<fileVars, cleanerVars, uploading, shown, load, doubt>>
    BY <1>10 DEF HandleDelete, Delete
  <2>2. UNCHANGED <<rows, linked, post, todo, item, old>>
    BY <2>1 DEF fileVars, cleanerVars
  <2>3. Loading' = Loading /\ Unsettled'
    BY <2>1 DEF Loading, Unsettled
  <2>4. PanelTypeOK'
    BY <1>0, <2>1 DEF PanelTypeOK, LoadType
  <2>5. AnswerIsList' /\ ShownIsList' /\ AloneIsAlone'
    BY <2>1, <2>3 DEF PanelInv, AnswerIsList, ShownIsList, AloneIsAlone
  <2>6. OnlyUpload' /\ UploadBegun' /\ LoadAfterUpload' /\ OnlyDeletes' /\ NotTheCleaners'
    BY <2>1, <2>2
    DEF PanelInv, OnlyUpload, UploadBegun, LoadAfterUpload, OnlyDeletes, NotTheCleaners
  <2> QED BY <2>4, <2>5, <2>6 DEF PanelInv
<1> QED BY <1>1, <1>2, <1>3, <1>4, <1>5, <1>6, <1>7, <1>8, <1>9, <1>10 DEF PanelStep

(***************************************************************************)
(* The invariant of the whole.                                             *)
(***************************************************************************)

LEMMA UpsetsStay == upsets \in SUBSET Upsets /\ [Next]_vars => upsets' \in SUBSET Upsets
<1> SUFFICES ASSUME upsets \in SUBSET Upsets, [Next]_vars PROVE upsets' \in SUBSET Upsets
  OBVIOUS
<1> USE DEF Upset, Normal, Upsets
<1>1. CASE UNCHANGED vars
  BY <1>1 DEF vars, uploadVars
<1>2. CASE PanelStep
  <2>1. CASE Lost
    BY <2>1 DEF Lost, Crash
  <2>2. ASSUME NEW l \in Loads,
               \/ Mount(l) \/ List(l) \/ ListFails(l) \/ setUploads(l)
               \/ \E f \in Files : Uploaded(f, l)
               \/ \E d \in Deletes : Deleted(d, l)
        PROVE  upsets' \in SUBSET Upsets
    BY <2>2 DEF Mount, List, ListFails, setUploads, Uploaded, Deleted, Answered, uploadVars
  <2>3. ASSUME NEW f \in Files,
               HandleUpload(f) \/ UploadFailed(f) \/ \E d \in Deletes : HandleDelete(d, f)
        PROVE  upsets' \in SUBSET Upsets
    BY <2>3 DEF HandleUpload, UploadFailed, HandleDelete, Post, generateStorageKey, Delete,
         uploadVars
  <2> QED BY <1>2, <2>1, <2>2, <2>3 DEF PanelStep
<1>3. CASE RouteStep
  <2>1. ASSUME NEW f \in Files, Post(f, FALSE) \/ PostStep(f) \/ Tick(f)
        PROVE  upsets' \in SUBSET Upsets
    BY <2>1 DEF Post, generateStorageKey, PostStep, putObject, PutFails, CreateRow,
         CreateFails, Tick
  <2>2. ASSUME NEW d \in Deletes, DeleteStep(d) \/ \E f \in Files \ linked : Delete(d, f)
        PROVE  upsets' \in SUBSET Upsets
    BY <2>2 DEF DeleteStep, DeleteObject, DeleteObjectFails, DeleteRow, DeleteRowFails, Delete
  <2> QED BY <1>3, <2>1, <2>2 DEF RouteStep
<1>4. CASE CleanerStep
  <2>1. CASE StartFails \/ SetInterval \/ Ends \/ Kill
    BY <2>1 DEF StartFails, SetInterval, Ends, Kill
  <2>2. ASSUME NEW p \in Passes, Start(p) \/ Interval(p) \/ PassStep(p)
        PROVE  upsets' \in SUBSET Upsets
    BY <2>2 DEF Start, Interval, PassStep, CleanRow, CleanRowFails, CleanObject, CleanObjectFails
  <2> QED BY <1>4, <2>1, <2>2 DEF CleanerStep
<1> QED BY <1>1, <1>2, <1>3, <1>4 DEF Next

Inv == FileInv /\ Paired /\ Owned /\ PanelInv

LEMMA InvInit == Init => Inv
<1> SUFFICES ASSUME Init PROVE Inv
  OBVIOUS
<1>1. UploadsInit
  BY DEF Init
<1>2. Paired /\ Owned
  BY <1>1 DEF UploadsInit, Paired, Owned
<1> QED BY <1>1, <1>2, FilesInit, PanelInit DEF Inv

LEMMA InvStep == Inv /\ [Next]_vars => Inv'
<1> SUFFICES ASSUME Inv, [Next]_vars PROVE Inv'
  OBVIOUS
<1>1. FileStep
  BY NextIsFileStep
<1>2. FileInv'
  BY <1>1, FilesStep, UpsetsStay DEF Inv, FileInv, UploadsTypeOK
<1>3. Paired' /\ Owned'
  BY <1>1, <1>2, PairedStep, OwnedStep DEF Inv
<1>4. PanelInv'
  <2>1. CASE UNCHANGED vars
    BY <2>1
    DEF vars, uploadVars, fileVars, cleanerVars, panelVars, Inv, PanelInv, PanelTypeOK,
    AnswerIsList,
        ShownIsList, AloneIsAlone, OnlyUpload, UploadBegun, LoadAfterUpload, OnlyDeletes,
        NotTheCleaners, Loading, Listed, Unsettled
  <2> QED BY <1>2, <2>1, PanelKeeps, RouteKeeps, CleanerKeeps DEF Inv, Next
<1> QED BY <1>2, <1>3, <1>4 DEF Inv

\* Files, rows and the panel are in one of the states that requests, deletions,
\* passes of the cleaner and their failures leave them in.
THEOREM Invariance == Spec => []Inv
BY InvInit, InvStep, PTL DEF Spec

\* The state is of its type.
THEOREM TypeCorrect == Spec => []TypeOK
<1>1. Inv => TypeOK
  BY DEF Inv, FileInv, PanelInv, PanelTypeOK, TypeOK
<1> QED BY <1>1, Invariance, PTL

\* A row names an object that is there, whatever requests and passes of the
\* cleaner overlap, unless a deletion has it in hand, was cut short, or the
\* object was shared.
THEOREM RowsHaveObjects == Spec => []RowHasObject
<1>1. Inv => RowHasObject
  BY HeldIsLeaving DEF Inv, Paired, Shared, RowHasObject, FileInv, UploadsTypeOK
<1> QED BY <1>1, Invariance, PTL

\* An object is named by a row, or will be, or was left by a failure.
THEOREM ObjectsHaveRows == Spec => []ObjectHasRow
<1>1. Inv => ObjectHasRow
  BY DEF Inv, Owned, Owns, ObjectHasRow
<1> QED BY <1>1, Invariance, PTL

\* A panel that waits for nothing, and whose last load was alone, shows the
\* files of the session.
THEOREM PanelCatchesUp == Spec => []PanelInStep
<1>1. Inv => PanelInStep
  BY DEF Inv, PanelInv, ShownIsList, Listed, Unsettled, PanelInStep
<1> QED BY <1>1, Invariance, PTL
=============================================================================

---------------------------- MODULE UploadPanel ----------------------------
(***************************************************************************)
(* The upload panel of a session's page over Uploads: it alone uploads to  *)
(* the session and deletes from it, and after each upload and deletion it  *)
(* loads the list anew.  Other callers upload and delete outside sessions. *)
(***************************************************************************)
EXTENDS Uploads

CONSTANT MaxLoads   \* bound: loads of the list that are under way together

ASSUME LoadsAssumption == MaxLoads \in Nat

Loads == 1 .. MaxLoads

VARIABLES
    shown,      \* the files in the list
    load,       \* of a load: idle, asked, answered with the rows it was sent
    uploading,  \* the file it is uploading, until the load that follows is over
    deleting,   \* the deletions it waits for
    doubt       \* history: loads overlapped, or one was lost, since the last that was alone

panelVars == <<shown, load, uploading, deleting, doubt>>
vars == <<uploadVars, panelVars>>

IdleLoad == [at |-> "idle", for |-> NoFile, rows |-> {}, alone |-> FALSE]

TypeOK ==
    /\ UploadsTypeOK
    /\ shown \in SUBSET Files
    /\ load \in [Loads -> [at : {"idle", "asked", "answered"}, for : Files \cup {NoFile},
                       rows : SUBSET Files, alone : BOOLEAN]]
    /\ uploading \in Files \cup {NoFile} /\ deleting \in SUBSET Deletes
    /\ doubt \in BOOLEAN

Init ==
    /\ UploadsInit
    /\ shown = {}
    /\ load = [l \in Loads |-> IdleLoad]
    /\ uploading = NoFile /\ deleting = {}
    /\ doubt = TRUE         \* until the page has loaded

Loading == {l \in Loads : load[l].at # "idle"}

\* A load begins, after an upload or not; those that are under way are not cancelled.
Asks(l, f) ==
    /\ l \notin Loading
    /\ \A k \in Loads \ Loading : l <= k
    /\ load' = [k \in Loads |->
                  IF k = l THEN [at |-> "asked", for |-> f, rows |-> {}, alone |-> Loading = {}]
                  ELSE [load[k] EXCEPT !.alone = k \notin Loading]]
    /\ doubt' = (doubt \/ Loading # {})

\* The page is opened (again).
Mount(l) ==
    /\ doubt /\ Loading = {}
    /\ Asks(l, NoFile)
    /\ UNCHANGED <<uploadVars, shown, uploading, deleting>>

\* GET /api/upload/list of the session
List(l) ==
    /\ load[l].at = "asked"
    /\ load' = [load EXCEPT ![l].at = "answered", ![l].rows = rows \cap linked]
    /\ UNCHANGED <<uploadVars, shown, uploading, deleting, doubt>>

\* An upload is over with the load that follows it.
LoadOver(l) ==
    /\ load' = [load EXCEPT ![l] = IdleLoad]
    /\ uploading' = IF load[l].for = NoFile THEN uploading ELSE NoFile

ListFails(l) ==
    /\ load[l].at = "asked"
    /\ Upset("db")
    /\ LoadOver(l)
    /\ doubt' = TRUE
    /\ UNCHANGED <<fileVars, del, cleanerVars, shown, deleting>>

setUploads(l) ==
    /\ load[l].at = "answered"
    /\ shown' = load[l].rows
    /\ LoadOver(l)
    /\ doubt' = (doubt /\ ~load[l].alone)
    /\ UNCHANGED <<uploadVars, deleting>>

\* One upload at a time
HandleUpload(f) ==
    /\ uploading = NoFile
    /\ Post(f, TRUE)
    /\ uploading' = f
    /\ UNCHANGED <<deleting, shown, load, doubt>>

Uploaded(f, l) ==
    /\ f = uploading /\ post[f] = "done"
    /\ \A k \in Loads : load[k].for # f
    /\ Asks(l, f)
    /\ UNCHANGED <<uploadVars, uploading, deleting, shown>>

\* A failure is shown and nothing is loaded.
UploadFailed(f) ==
    /\ f = uploading /\ post[f] = "failed"
    /\ uploading' = NoFile
    /\ UNCHANGED <<uploadVars, deleting, shown, load, doubt>>

HandleDelete(d, f) ==
    /\ f \in shown
    /\ Delete(d, f)
    /\ deleting' = deleting \cup {d}
    /\ UNCHANGED <<uploading, shown, load, doubt>>

Answered(d) ==
    /\ d \in deleting /\ del[d] = Finished
    /\ deleting' = deleting \ {d}
    /\ UNCHANGED <<uploadVars, uploading, shown>>

\* (faulty) Nothing is loaded after a deletion.
DeletedQuietly(d, l) ==
    /\ Answered(d)
    /\ UNCHANGED <<load, doubt>>

\* Whatever the answer to a deletion, the list is loaded.
Deleted(d, l) ==
    /\ Answered(d)
    /\ Asks(l, NoFile)

\* The server dies: fetches of the panel fail, and none of them loads the list.
Lost ==
    /\ Crash
    /\ load' = [l \in Loads |-> IF load[l].at = "asked" THEN IdleLoad
                                                           ELSE [load[l] EXCEPT !.alone = FALSE]]
    /\ uploading' = IF \E l \in Loads : load[l].at = "answered" /\ load[l].for # NoFile
                    THEN uploading ELSE NoFile
    /\ deleting' = {}
    /\ doubt' = TRUE
    /\ UNCHANGED shown

PanelStep ==
    \/ Lost
    \/ \E l \in Loads : \/ Mount(l) \/ List(l) \/ ListFails(l) \/ setUploads(l)
                        \/ \E f \in Files : Uploaded(f, l)
                        \/ \E d \in Deletes : Deleted(d, l)
    \/ \E f \in Files : HandleUpload(f) \/ UploadFailed(f) \/ \E d \in Deletes : HandleDelete(d, f)

RouteStep ==
    \/ \E f \in Files : Post(f, FALSE) \/ PostStep(f) \/ Tick(f)
    \/ \E d \in Deletes : DeleteStep(d) \/ \E f \in Files \ linked : Delete(d, f)

Next ==
    \/ PanelStep
    \/ RouteStep /\ UNCHANGED panelVars
    \/ CleanerStep /\ UNCHANGED panelVars

Spec == Init /\ [][Next]_vars

FairSpec == Spec /\ CleanerFairness

-----------------------------------------------------------------------------
(* Properties *)

\* Files whose deletion, by a request or by the cleaner, is past the object and
\* has still to delete the row
Leaving ==
    {f \in Files : \/ \E d \in Deletes : del[d] = [at |-> "row", file |-> f]
                   \/ \E p \in Passes : item[p] = f}

\* A row names an object that is there, but while the file is being deleted,
\* when its deletion was cut short, or when the object was shared: objects are
\* written before their row, and no order of requests and passes undoes that.
RowHasObject ==
    \A f \in rows : keyOf[f] \notin objects =>
        \/ f \in Leaving \cup leftRow
        \/ \E e \in Files \ {f} : keyOf[e] = keyOf[f]

\* An object without a row is about to get it, or is left by a POST or by a
\* deletion that met a failure: deletions go to the object first, so one that is
\* cut short can be repeated.
ObjectHasRow ==
    \A k \in objects : \E f \in Files :
        /\ keyOf[f] = k
        /\ f \in rows \cup leftObject \/ post[f] = "create"

\* When the panel has had all its answers, and its last load was alone, it shows
\* the files of the session.
PanelInStep ==
    ~doubt /\ Loading = {} /\ uploading = NoFile /\ deleting = {} => shown = rows \cap linked

\* A file beyond the retention and without a session is deleted some day,
\* whatever passes fail, overlap or are killed.
StaleGoes == \A f \in Files : (f \in Stale) ~> (f \notin rows)
=============================================================================

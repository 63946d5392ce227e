------------------------------ MODULE Uploads ------------------------------
(***************************************************************************)
(* Uploads: the routes of studio-web, the storage they share, and the      *)
(* upload cleaner, a process of its own.  An upload is an object in        *)
(* storage and a row that names it; every route and every pass of the      *)
(* cleaner writes the two in separate steps.                               *)
(***************************************************************************)
EXTENDS Naturals, FiniteSets

CONSTANTS
    MaxFiles,       \* bound: files that are uploaded
    MaxDeletes,     \* bound: requests to delete
    BatchSize,      \* BATCH_SIZE of the cleaner
    MaxPasses,      \* bound: passes of the cleaner that may be under way together
    MaxUpsets       \* bound: how many of the Upsets happen, each of them once

ASSUME BoundsAssumption == MaxFiles \in Nat /\ MaxDeletes \in Nat
ASSUME BatchAssumption == BatchSize \in Nat \ {0} /\ MaxPasses \in Nat \ {0}
ASSUME UpsetsAssumption == MaxUpsets \in Nat

Upsets == {"storage", "db", "crash", "kill", "sameKey"}

Files == 1 .. MaxFiles      \* in the order they are uploaded
NoFile == 0
Deletes == 1 .. MaxDeletes
Passes == 1 .. MaxPasses

VARIABLES
    objects,        \* keys that have an object; a key is named for the file it was made for
    rows,           \* files with a row
    linked,         \* files uploaded to the session
    old,            \* files whose row is older than the retention
    keyOf,          \* the storage key of a file
    post,           \* its POST: none, put, create, done, failed
    del,            \* where a DELETE stands, and the file it is for
    cleaner,        \* the cleaner's process: down, first (in the pass of its start), up
    todo,           \* what is left of the batch of a pass
    item,           \* the file whose object a pass has deleted, and not its row
    leftRow,        \* history: files whose deletion ended before it reached the row
    leftObject,     \* history: files whose POST or deletion left the object in storage
    upsets          \* which of the Upsets there were

fileVars == <<objects, rows, linked, old, keyOf, post, leftRow, leftObject>>
cleanerVars == <<cleaner, todo, item>>
uploadVars == <<fileVars, del, cleanerVars, upsets>>

UploadsTypeOK ==
    /\ objects \in SUBSET Files /\ rows \in SUBSET Files
    /\ linked \in SUBSET Files /\ old \in SUBSET rows
    /\ keyOf \in [Files -> Files \cup {NoFile}]
    /\ post \in [Files -> {"none", "put", "create", "done", "failed"}]
    /\ del \in [Deletes -> [at : {"none", "object", "row", "over"}, file : Files \cup {NoFile}]]
    /\ cleaner \in {"down", "first", "up"}
    /\ todo \in [Passes -> SUBSET Files]
    /\ item \in [Passes -> Files \cup {NoFile}]
    /\ leftRow \in SUBSET Files /\ leftObject \in SUBSET Files
    /\ upsets \in SUBSET Upsets

Nothing == [at |-> "none", file |-> NoFile]

UploadsInit ==
    /\ objects = {} /\ rows = {} /\ linked = {} /\ old = {}
    /\ keyOf = [f \in Files |-> NoFile]
    /\ post = [f \in Files |-> "none"]
    /\ del = [d \in Deletes |-> Nothing]
    /\ cleaner = "down"
    /\ todo = [p \in Passes |-> {}]
    /\ item = [p \in Passes |-> NoFile]
    /\ leftRow = {} /\ leftObject = {}
    /\ upsets = {}

\* (bound) Something out of the ordinary happens.
Upset(kind) ==
    /\ kind \notin upsets
    /\ Cardinality(upsets) < MaxUpsets
    /\ upsets' = upsets \cup {kind}

Normal == UNCHANGED upsets

-----------------------------------------------------------------------------
(* POST /api/upload *)

Posting == {f \in Files : post[f] \in {"put", "create"}}

\* (faulty) The file has no key yet.
generateNoKey(f) ==
    /\ f \in Files
    /\ Normal /\ UNCHANGED keyOf

\* A file that is accepted gets its key, of the user, the time and the name.  Two
\* of one name that come in the same millisecond get the same.
generateStorageKey(f) ==
    \/ Normal /\ keyOf' = [keyOf EXCEPT ![f] = f]
    \/ Upset("sameKey") /\ \E e \in Posting : keyOf' = [keyOf EXCEPT ![f] = keyOf[e]]

New(f) == \A e \in Files : e < f <=> post[e] # "none"

Posts(f, to) ==
    /\ post' = [post EXCEPT ![f] = to]
    /\ UNCHANGED <<del, cleanerVars>>

\* A request without a file, with one too large or of a wrong type, or for a
\* session of somebody else is refused and changes nothing.
Post(f, toSession) ==
    /\ New(f)
    /\ generateStorageKey(f)
    /\ linked' = IF toSession THEN linked \cup {f} ELSE linked
    /\ Posts(f, "put")
    /\ UNCHANGED <<objects, rows, old, leftRow, leftObject>>

\* (faulty) The file is written when its row is there.
putObjectLater(f) ==
    /\ post[f] = "put"
    /\ rows' = rows \cup {f}
    /\ Posts(f, "create") /\ Normal
    /\ UNCHANGED <<objects, linked, old, keyOf, leftRow, leftObject>>

putObject(f) ==
    /\ post[f] = "put"
    /\ objects' = objects \cup {keyOf[f]}
    /\ Posts(f, "create") /\ Normal
    /\ UNCHANGED <<rows, linked, old, keyOf, leftRow, leftObject>>

\* A write that fails may have left the object, or a part of it.
PutFails(f) ==
    /\ post[f] = "put"
    /\ Upset("storage")
    /\ Posts(f, "failed")
    /\ \/ UNCHANGED <<objects, leftObject>>
       \/ objects' = objects \cup {keyOf[f]} /\ leftObject' = leftObject \cup {f}
    /\ UNCHANGED <<rows, linked, old, keyOf, leftRow>>

CreateRow(f) ==
    /\ post[f] = "create"
    /\ rows' = rows \cup {f}
    /\ Posts(f, "done") /\ Normal
    /\ UNCHANGED <<objects, linked, old, keyOf, leftRow, leftObject>>

\* The object is not deleted again.
CreateFails(f) ==
    /\ post[f] = "create"
    /\ Upset("db")
    /\ leftObject' = leftObject \cup {f}
    /\ Posts(f, "failed")
    /\ UNCHANGED <<objects, rows, linked, old, keyOf, leftRow>>

PostStep(f) == putObject(f) \/ CreateRow(f) \/ PutFails(f) \/ CreateFails(f)

-----------------------------------------------------------------------------
(* DELETE /api/upload/[id], also under POST /api/upload/[id]/delete *)

Finished == [at |-> "over", file |-> NoFile]

ToRow(d) == [del[d] EXCEPT !.at = "row"]

Deletions(d, from, to) ==
    /\ del[d].at = from
    /\ del' = [del EXCEPT ![d] = to]
    /\ UNCHANGED <<linked, keyOf, post, cleanerVars>>

\* The row is looked up.
Delete(d, f) ==
    /\ \A c \in Deletes : c < d <=> del[c] # Nothing
    /\ post[f] = "done"
    /\ del' = [del EXCEPT ![d] = IF f \in rows THEN [at |-> "object", file |-> f] ELSE Finished]
    /\ Normal
    /\ UNCHANGED <<fileVars, cleanerVars>>

\* (faulty) The row goes first.
DeleteRowFirst(d) ==
    /\ Deletions(d, "object", ToRow(d))
    /\ rows' = rows \ {del[d].file} /\ old' = old \ {del[d].file}
    /\ Normal
    /\ UNCHANGED <<objects, leftRow, leftObject>>

\* An object that is not there is no error.
DeleteObject(d) ==
    /\ Deletions(d, "object", ToRow(d))
    /\ objects' = objects \ {keyOf[del[d].file]}
    /\ Normal
    /\ UNCHANGED <<rows, old, leftRow, leftObject>>

\* A failure of storage, which may have done it, is logged, and the row goes all the same.
DeleteObjectFails(d) ==
    /\ Deletions(d, "object", ToRow(d))
    /\ Upset("storage")
    /\ objects' \in {objects, objects \ {keyOf[del[d].file]}}
    /\ leftObject' = leftObject \cup {del[d].file}
    /\ UNCHANGED <<rows, old, leftRow>>

\* The row is deleted; it is an error if another request or the cleaner has done it.
DeleteRow(d) ==
    /\ Deletions(d, "row", Finished)
    /\ rows' = rows \ {del[d].file} /\ old' = old \ {del[d].file}
    /\ Normal
    /\ UNCHANGED <<objects, leftRow, leftObject>>

DeleteRowFails(d) ==
    /\ Deletions(d, "row", Finished)
    /\ Upset("db")
    /\ leftRow' = leftRow \cup {del[d].file}
    /\ UNCHANGED <<objects, rows, old, leftObject>>

DeleteStep(d) == DeleteObject(d) \/ DeleteObjectFails(d) \/ DeleteRow(d) \/ DeleteRowFails(d)

\* Studio-web dies, and its requests with it.
Crash ==
    /\ Upset("crash")
    /\ post' = [f \in Files |-> IF f \in Posting THEN "failed" ELSE post[f]]
    /\ leftObject' = leftObject \cup {f \in Files : post[f] = "create"}
    /\ leftRow' = leftRow \cup {f \in Files : \E d \in Deletes : del[d] = [at |-> "row", file |-> f]}
    /\ del' = [d \in Deletes |-> IF del[d].at \in {"object", "row"} THEN Finished ELSE del[d]]
    /\ UNCHANGED <<objects, rows, linked, old, keyOf, cleanerVars>>

-----------------------------------------------------------------------------
(* The cleaner *)

\* A row passes the retention; the age of files with a session is never asked.
Tick(f) ==
    /\ f \in rows \ (old \cup linked)
    /\ old' = old \cup {f}
    /\ Normal
    /\ UNCHANGED <<objects, rows, linked, keyOf, post, leftRow, leftObject, del, cleanerVars>>

Idle(p) == todo[p] = {} /\ item[p] = NoFile

\* Rows beyond the retention that belong to no session
Stale == old \ linked

\* findMany takes a batch of them, in no order.
FindStale(p) ==
    /\ Idle(p) /\ \A o \in Passes : o < p => ~Idle(o)
    /\ \E B \in SUBSET Stale :
         /\ Cardinality(B) = IF Cardinality(Stale) < BatchSize THEN Cardinality(Stale) ELSE BatchSize
         /\ todo' = [todo EXCEPT ![p] = B]

Others == UNCHANGED <<linked, keyOf, post, del>>
OnlyCleaner == Others /\ UNCHANGED <<objects, rows, old, leftRow, leftObject>>

\* The process is started, and begins with a pass ...
Start(p) ==
    /\ cleaner = "down"
    /\ FindStale(p)
    /\ cleaner' = "first"
    /\ Normal
    /\ OnlyCleaner /\ UNCHANGED item

\* ... without which it exits.
StartFails ==
    /\ cleaner = "down"
    /\ Upset("db")
    /\ OnlyCleaner /\ UNCHANGED cleanerVars

\* The timer is set when the first pass is over.
SetInterval ==
    /\ cleaner = "first"
    /\ \A p \in Passes : Idle(p)
    /\ cleaner' = "up"
    /\ Normal
    /\ OnlyCleaner /\ UNCHANGED <<todo, item>>

\* It fires, whether or not the last pass is over.
Interval(p) ==
    /\ cleaner = "up"
    /\ FindStale(p)
    /\ Normal
    /\ OnlyCleaner /\ UNCHANGED <<cleaner, item>>

CleanObject(p, f) ==
    /\ item[p] = NoFile
    /\ f \in todo[p]
    /\ objects' = objects \ {keyOf[f]}
    /\ item' = [item EXCEPT ![p] = f]
    /\ todo' = [todo EXCEPT ![p] = @ \ {f}]
    /\ Normal
    /\ Others /\ UNCHANGED <<rows, old, leftRow, leftObject, cleaner>>

\* Local storage hides the failure, and the row goes all the same ...
HidesFailure(p, f) ==
    /\ item' = [item EXCEPT ![p] = f]
    /\ leftObject' = leftObject \cup {f}
    /\ UNCHANGED <<objects, leftRow>>

\* ... while S3, which may have done it, throws and the pass goes on to the next file.
ThrowsFailure(f) ==
    /\ \/ UNCHANGED <<objects, leftRow>>
       \/ objects' = objects \ {keyOf[f]} /\ leftRow' = leftRow \cup {f}
    /\ UNCHANGED <<item, leftObject>>

CleanObjectFails(p, f) ==
    /\ item[p] = NoFile
    /\ f \in todo[p]
    /\ Upset("storage")
    /\ todo' = [todo EXCEPT ![p] = @ \ {f}]
    /\ HidesFailure(p, f) \/ ThrowsFailure(f)
    /\ Others /\ UNCHANGED <<rows, old, cleaner>>

\* (faulty) The rows stay.
CleanNoRow(p) ==
    /\ item[p] # NoFile
    /\ item' = [item EXCEPT ![p] = NoFile]
    /\ Normal
    /\ Others /\ UNCHANGED <<objects, rows, old, leftRow, leftObject, cleaner, todo>>

\* The row is deleted; if it is gone already the error is logged.
CleanRow(p) ==
    /\ item[p] # NoFile
    /\ rows' = rows \ {item[p]} /\ old' = old \ {item[p]}
    /\ item' = [item EXCEPT ![p] = NoFile]
    /\ Normal
    /\ Others /\ UNCHANGED <<objects, leftRow, leftObject, cleaner, todo>>

CleanRowFails(p) ==
    /\ item[p] # NoFile
    /\ Upset("db")
    /\ leftRow' = leftRow \cup {item[p]}
    /\ item' = [item EXCEPT ![p] = NoFile]
    /\ Others /\ UNCHANGED <<objects, rows, old, leftObject, cleaner, todo>>

Halts ==
    /\ cleaner' = "down"
    /\ todo' = [p \in Passes |-> {}]
    /\ item' = [p \in Passes |-> NoFile]
    /\ leftRow' = leftRow \cup {f \in Files : \E p \in Passes : item[p] = f}
    /\ Others /\ UNCHANGED <<objects, rows, old, leftObject>>

\* The timer does not keep the process alive, so between passes it may end ...
Ends ==
    /\ cleaner = "up"
    /\ \A p \in Passes : Idle(p)
    /\ Halts /\ Normal

\* ... and it may be killed at any time.
Kill ==
    /\ cleaner # "down"
    /\ Halts /\ Upset("kill")

PassStep(p) ==
    \/ CleanRow(p) \/ CleanRowFails(p)
    \/ \E f \in Files : CleanObject(p, f) \/ CleanObjectFails(p, f)

CleanerStep ==
    \/ StartFails \/ SetInterval \/ Ends \/ Kill
    \/ \E p \in Passes : Start(p) \/ Interval(p) \/ PassStep(p)

\* The cleaner is started again whenever it has ended, its timer fires, and
\* storage and the database answer.
CleanerFairness ==
    /\ WF_uploadVars(\E p \in Passes : Start(p))
    /\ WF_uploadVars(SetInterval)
    /\ WF_uploadVars(\E p \in Passes : Interval(p))
    /\ \A p \in Passes : WF_uploadVars(PassStep(p))
=============================================================================

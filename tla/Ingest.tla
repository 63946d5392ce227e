------------------------------- MODULE Ingest -------------------------------
(***************************************************************************)
(* The ingest service as a client of GraphApi.  A job is one call of       *)
(* /ingest/isrc, /ingest/rss or /ingest/tagging/improve: it goes through   *)
(* its items one by one and waits for the answer to each mutation, or for  *)
(* its timeout; a mutation it has given up goes on without it.             *)
(***************************************************************************)
EXTENDS GraphApi

CONSTANTS
    MaxJobs     \* bound: calls of the service

ASSUME IngestAssumption == MaxJobs \in Nat

Jobs == 1 .. MaxJobs
NoJob == 0

VARIABLES
    job,        \* of a call: idle, in a loop (tracks, rss, improve), improved, over
    call,       \* the mutation it waits for
    by,         \* the call that sent a mutation
    outcome,    \* what that call counted: none, accepted, rejected
    stored      \* the news item is in rss_items

ingestVars == <<job, call, by, outcome, stored>>
vars == <<busVars, apiVars, ingestVars>>

TypeOK ==
    /\ ApiTypeOK
    /\ job \in [Jobs -> {"idle", "tracks", "rss", "improve", "improved", "over"}]
    /\ call \in [Jobs -> Requests \cup {NoRequest}]
    /\ by \in [Requests -> Jobs \cup {NoJob}]
    /\ outcome \in [Requests -> {"none", "accepted", "rejected"}]
    /\ stored \in BOOLEAN

Init ==
    /\ ApiInit
    /\ job = [j \in Jobs |-> "idle"]
    /\ call = [j \in Jobs |-> NoRequest]
    /\ by = [q \in Requests |-> NoJob]
    /\ outcome = [q \in Requests |-> "none"]
    /\ stored = FALSE

-----------------------------------------------------------------------------

\* (bound) Calls are numbered in the order they come.
NextJob(j) == \A k \in Jobs : k < j <=> job[k] # "idle"

\* /ingest/isrc with its records, or /ingest/rss with the entries of a feed.
Begin(j, kind) ==
    /\ NextJob(j)
    /\ job' = [job EXCEPT ![j] = kind]
    /\ UNCHANGED <<busVars, apiVars, call, by, outcome, stored>>

\* /ingest/tagging/improve takes the items that are stored when it begins.
BeginImprove(j) ==
    /\ NextJob(j)
    /\ job' = [job EXCEPT ![j] = IF stored THEN "improve" ELSE "over"]
    /\ UNCHANGED <<busVars, apiVars, call, by, outcome, stored>>

\* The loop of a call that waits for nothing sends its next item.
Sends(j, kind, q) ==
    /\ job[j] = kind
    /\ call[j] = NoRequest
    /\ \A p \in Requests : p < q <=> rpc[p] # "none"
    /\ call' = [call EXCEPT ![j] = q]
    /\ by' = [by EXCEPT ![q] = j]
    /\ UNCHANGED outcome

\* ingest_tracks: a track with a good ISRC is sent as a mutation, which is
\* refused if the title or the artist is blank.
SendTrack(j, q) ==
    /\ Sends(j, "tracks", q)
    /\ Upsert(q) \/ Refuse(q)
    /\ UNCHANGED <<job, stored>>

\* ingest_rss: an entry is stored and matched, and its tags are sent ...
SendEntry(j, q, b) ==
    /\ Sends(j, "rss", q)
    /\ RecordTags(q, b)
    /\ stored' = TRUE
    /\ UNCHANGED job

\* ... or it is stored and the API does not answer.
SendEntryInVain(j) ==
    /\ job[j] = "rss" /\ call[j] = NoRequest
    /\ server # "up"
    /\ stored' = TRUE
    /\ UNCHANGED <<busVars, apiVars, job, call, by, outcome>>

\* improve_tagging: the stored item is matched again, and its tags are sent.
SendAgain(j, q, b) ==
    /\ Sends(j, "improve", q)
    /\ RecordTags(q, b)
    /\ job' = [job EXCEPT ![j] = "improved"]
    /\ UNCHANGED stored

Counts(j, verdict) ==
    /\ call[j] # NoRequest
    /\ outcome' = [outcome EXCEPT ![call[j]] = verdict]
    /\ call' = [call EXCEPT ![j] = NoRequest]
    /\ UNCHANGED <<busVars, server, rpc, batch, dbVars, seen, overlap, job, by, stored>>

\* (faulty) The mutation counts as soon as it is sent.
AnswerAtOnce(j) ==
    /\ Counts(j, "accepted")
    /\ UNCHANGED <<gone, upsets>>

\* The answer, with or without errors, or the loss of the connection.
Answer(j) ==
    /\ Counts(j, IF rpc[call[j]] = "done" THEN "accepted" ELSE "rejected")
    /\ rpc[call[j]] \in Over
    /\ UNCHANGED <<gone, upsets>>

\* No answer within 15 seconds: the item is rejected, the mutation is not stopped.
Timeout(j) ==
    /\ Counts(j, "rejected")
    /\ Upset("timeout")
    /\ rpc[call[j]] \notin Over
    /\ gone' = gone \cup {call[j]}

\* The items that are left change nothing here: an ISRC that does not parse, an
\* entry without title or link, a feed or an API that does not answer.
End(j) ==
    /\ job[j] \notin {"idle", "over"}
    /\ call[j] = NoRequest
    /\ job' = [job EXCEPT ![j] = "over"]
    /\ UNCHANGED <<busVars, apiVars, call, by, outcome, stored>>

JobStep(j) ==
    \/ SendEntryInVain(j) \/ Answer(j) \/ Timeout(j) \/ End(j)
    \/ \E q \in Requests : \/ SendTrack(j, q)
                           \/ \E b \in Batches : SendEntry(j, q, b) \/ SendAgain(j, q, b)

Next ==
    \/ \E j \in Jobs : \/ BeginImprove(j) \/ JobStep(j)
                       \/ \E kind \in {"tracks", "rss"} : Begin(j, kind)
    \/ \E q \in Requests : MutationStep(q) /\ UNCHANGED ingestVars
    \/ \E q \in Requests : StatementFails(q) /\ UNCHANGED ingestVars
    \/ \E i \in Iterators : /\ SubscribeToWork(i) \/ Deliver(i) \/ Resolve(i) \/ Complete(i)
                            /\ UNCHANGED ingestVars
    \/ ProcessStep /\ UNCHANGED ingestVars

Spec == Init /\ [][Next]_vars

FairSpec == Spec /\ ApiFairness

-----------------------------------------------------------------------------
(* Properties *)

\* Subscriptions implement EventStream over either transport: no event is lost,
\* repeated or handed out of order between publish() and the consumer, from the
\* time the subscription is live until it is returned.
ImplementsStream == Stream!Spec

\* A consumer of a live subscription gets to every event (no wake-up is lost).
EventuallyHanded ==
    \A i \in Iterators, e \in Requests :
        (sub[i] = "live" /\ published = e) ~> (last[i] >= e \/ sub[i] # "live")

\* Who waits in next() is woken when the subscription is returned, when its
\* process ends and when the server shuts down, which waits for the consumers
\* before it closes the bus.
NobodyLeftWaiting ==
    \A i \in Iterators : (Inactive(i) \/ server # "up") ~> con[i] \in {"none", "ended"}

\* The mutation that wrote the row has yet to announce it, or failed and never will.
Unannounced == row \in Requests /\ rpc[row] \in {"tellRecording", "tellWork", "failed"}

\* A subscriber that has dealt with the last event was sent the row as it is,
\* whatever mutations overlapped: rows are read after the event, and events
\* follow their writes.  Only a row whose own mutation has not published yet, or
\* threw before it had, may be unknown to the subscriber.
SeenIsCurrent ==
    \A i \in Iterators :
        /\ sub[i] = "live" /\ con[i] \in {"ready", "waiting"}
        /\ last[i] = published /\ seen[i] # NoRequest
        /\ ~Unannounced
        => seen[i] = row

\* The recording has data older than what the same call has had accepted since
\* only if the older mutation had been given up and landed late.
OnlyLateOverwrites ==
    row # NoRequest =>
        \A q \in Requests :
            row < q /\ by[q] = by[row] /\ outcome[q] = "accepted" /\ batch[q] = "none"
                => row \in gone

\* A work without its recording is left by a mutation that has failed or was cut
\* off, or is about to get one: an accepted track leaves none behind.
OrphansExplained ==
    \A w \in works : w # workOf => rpc[w] \in {"create", "failed", "cut"}

\* Tags of two mutations stand side by side only if the two overlapped.
MixOnlyFromOverlap ==
    \A p, q \in tags : p # q => <<p, q>> \in overlap
=============================================================================

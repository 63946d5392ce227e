------------------------------ MODULE Presence ------------------------------
(***************************************************************************)
(* Presence in one room: the realtime gateway, the pages of its members    *)
(* (the hook usePresence) and the presence route, over the roster in       *)
(* PresenceStore.  The gateway has one connection to Redis, which runs its *)
(* commands in the order they were sent and answers in that order; the     *)
(* callback of a command is a step of its own.  A page opens a socket when *)
(* its effect runs and a new one when the effect runs again; it does not   *)
(* reconnect by itself.  Time goes by in ticks that are longer than a      *)
(* message or a command takes.                                             *)
(***************************************************************************)
EXTENDS PresenceStore, Sequences, FiniteSets

CONSTANTS
    Ttl,        \* TTL_SECONDS of the gateway, in ticks
    HeartbeatMs,\* heartbeatMs of the hook, in ticks
    PostTtls,   \* ttlSeconds that a POST may ask for, in ticks
    Watchers,   \* members whose list is followed; a list changes nothing else
    MaxSockets, \* bound: sockets that the pages open, all together
    MaxUpsets   \* bound: how many of the Upsets happen, each of them once

Upsets == {"crash", "redis", "fetch", "drop", "POST", "DELETE", "stop"}

ASSUME TtlAssumption == Ttl \in 1 .. MaxTtl /\ PostTtls \subseteq 1 .. MaxTtl
ASSUME HeartbeatAssumption == HeartbeatMs \in Nat \ {0}
ASSUME SocketsAssumption == MaxSockets \in Nat /\ IsFiniteSet(Members)
ASSUME WatchersAssumption == Watchers \subseteq Members
ASSUME BoundsAssumption == MaxUpsets \in Nat

Sockets == Members \X (1 .. MaxSockets)
Owner(s) == s[1]

VARIABLES
    gate,       \* the gateway: up, stopping after a signal, down
    gs,         \* a socket at the gateway: none, open (in rooms and clientMeta), gone
    pipe,       \* commands the gateway has sent and Redis has not run
    replies,    \* answers whose callback has not run
    cs,         \* a socket in the browser: none, connecting, open, closing, closed
    inbox,      \* messages on their way to the page
    beats,      \* sockets with a heartbeat on its way to the gateway
    made,       \* sockets the page has opened so far
    cur,        \* socketRef: the socket of the last effect, 0 for none
    interval,   \* heartbeatRef: the socket its interval beats for, 0 for none
    since,      \* ticks since the interval fired
    view,       \* state.members: the others the page shows
    fetch,      \* where the roster request of a socket's welcome stands
    got,        \* what that request has read so far
    heard,      \* history: a join or leave was heard while the request was open
    synced,     \* history: the view was loaded by the current socket, unraced
    upsets      \* which of those there were

gateVars == <<gate, gs, pipe, replies>>
socketVars == <<cs, inbox, beats, made, cur, interval, since>>
viewVars == <<view, fetch, got, heard, synced>>
vars == <<storeVars, gateVars, socketVars, viewVars, upsets>>

Commands == [op : {"join", "beat", "leave"}, s : Sockets]
Messages == [type : {"join", "leave", "welcome"}, m : Members]

TypeOK ==
    /\ StoreTypeOK
    /\ gate \in {"up", "stopping", "down"}
    /\ gs \in [Sockets -> {"none", "open", "gone"}]
    /\ pipe \in Seq(Commands) /\ replies \in Seq(Commands)
    /\ cs \in [Sockets -> {"none", "connecting", "open", "closing", "closed"}]
    /\ inbox \in [Sockets -> Seq(Messages)]
    /\ beats \in SUBSET Sockets
    /\ \A m \in Members :
          /\ made[m] \in 0 .. MaxSockets
          /\ cur[m] \in 0 .. made[m]
          /\ interval[m] \in 0 .. made[m]
          /\ since[m] \in 0 .. HeartbeatMs
    /\ view \in [Members -> SUBSET Members]
    /\ fetch \in [Sockets -> {"none", "asked", "ids", "answered"}]
    /\ got \in [Sockets -> SUBSET Members]
    /\ heard \in SUBSET Sockets
    /\ synced \in SUBSET Members
    /\ upsets \in SUBSET Upsets

Init ==
    /\ StoreInit
    /\ gate = "up"
    /\ gs = [s \in Sockets |-> "none"]
    /\ pipe = <<>> /\ replies = <<>>
    /\ cs = [s \in Sockets |-> "none"]
    /\ inbox = [s \in Sockets |-> <<>>]
    /\ beats = {}
    /\ made = [m \in Members |-> 0]
    /\ cur = [m \in Members |-> 0]
    /\ interval = [m \in Members |-> 0]
    /\ since = [m \in Members |-> 0]
    /\ view = [m \in Members |-> {}]
    /\ fetch = [s \in Sockets |-> "none"]
    /\ got = [s \in Sockets |-> {}]
    /\ heard = {} /\ synced = {}
    /\ upsets = {}

\* (bound) Something out of the ordinary happens.
Upset(kind) ==
    /\ kind \notin upsets
    /\ Cardinality(upsets) < MaxUpsets
    /\ upsets' = upsets \cup {kind}

-----------------------------------------------------------------------------
(* The page *)

Current(s) == cur[Owner(s)] = s[2]

\* The cleanup of an effect closes its socket; what was still to come is ignored.
Closed(m) ==
    [cs EXCEPT ![<<m, cur[m]>>] = IF @ \in {"connecting", "open"} THEN "closing" ELSE @]

\* The effect runs: a new socket, and an interval that beats for it.
OpenSocket(m, sockets) ==
    /\ Cardinality({s \in Sockets : cs[s] # "none"}) < MaxSockets
    /\ made' = [made EXCEPT ![m] = @ + 1]
    /\ cs' = [sockets EXCEPT ![<<m, made[m] + 1>>] = "connecting"]
    /\ cur' = [cur EXCEPT ![m] = made[m] + 1]
    /\ interval' = [interval EXCEPT ![m] = made[m] + 1]
    /\ since' = [since EXCEPT ![m] = 0]
    /\ synced' = synced \ {m}

Mount(m) ==
    /\ cur[m] = 0
    /\ OpenSocket(m, cs)
    /\ UNCHANGED <<storeVars, gateVars, inbox, beats, view, fetch, got, heard, upsets>>

\* Its parameters change: cleanup, and the effect again, in one go.
Rerun(m) ==
    /\ cur[m] # 0
    /\ OpenSocket(m, Closed(m))
    /\ inbox' = [inbox EXCEPT ![<<m, cur[m]>>] = <<>>]
    /\ UNCHANGED <<storeVars, gateVars, beats, view, fetch, got, heard, upsets>>

\* It is disabled: cleanup, and the list is emptied.
Disable(m) ==
    /\ cur[m] # 0
    /\ cs' = Closed(m)
    /\ inbox' = [inbox EXCEPT ![<<m, cur[m]>>] = <<>>]
    /\ cur' = [cur EXCEPT ![m] = 0]
    /\ interval' = [interval EXCEPT ![m] = 0]
    /\ since' = [since EXCEPT ![m] = 0]
    /\ view' = [view EXCEPT ![m] = {}]
    /\ synced' = synced \ {m}
    /\ UNCHANGED <<storeVars, gateVars, beats, made, fetch, got, heard, upsets>>

\* sendHeartbeat; what a socket without a gateway sends is lost.
Beats(s) == beats \cup (IF gs[s] = "open" THEN {s} ELSE {})

OnOpen(s) ==
    /\ cs[s] = "connecting"
    /\ gs[s] = "open"
    /\ cs' = [cs EXCEPT ![s] = "open"]
    /\ beats' = Beats(s)
    /\ UNCHANGED <<storeVars, gateVars, inbox, made, cur, interval, since, viewVars, upsets>>

\* The interval fires.
SendHeartbeat(m) ==
    LET s == <<m, interval[m]>>
    IN /\ interval[m] # 0
       /\ since[m] = HeartbeatMs
       /\ since' = [since EXCEPT ![m] = 0]
       /\ beats' = IF cs[s] = "open" THEN Beats(s) ELSE beats
       /\ UNCHANGED <<storeVars, gateVars, cs, inbox, made, cur, interval, viewVars, upsets>>

\* onclose: it stops the interval of the page, whichever socket that beats for.
Close(s) ==
    /\ cs' = [cs EXCEPT ![s] = "closed"]
    /\ inbox' = [inbox EXCEPT ![s] = <<>>]
    /\ interval' = [interval EXCEPT ![Owner(s)] = 0]
    /\ since' = [since EXCEPT ![Owner(s)] = 0]
    /\ UNCHANGED <<storeVars, gateVars, beats, made, cur, viewVars>>

\* The close event comes after close(), or because the gateway is gone ...
OnClose(s) ==
    /\ \/ cs[s] = "closing"
       \/ cs[s] \in {"connecting", "open"} /\ gs[s] = "gone"
       \/ cs[s] = "connecting" /\ gs[s] = "none" /\ gate # "up"
    /\ Close(s)
    /\ UNCHANGED upsets

\* ... or because the network is; the gateway notices later.
ConnectionLost(s) ==
    /\ Upset("drop")
    /\ cs[s] \in {"connecting", "open"}
    /\ Close(s)

\* onmessage: a join adds, a leave removes ...
OnEvent(s) ==
    /\ cs[s] = "open" /\ inbox[s] # <<>>
    /\ LET message == Head(inbox[s])
       IN /\ message.type \in {"join", "leave"}
          /\ view' = [view EXCEPT ![Owner(s)] =
                        IF message.type = "join" THEN @ \cup {message.m} ELSE @ \ {message.m}]
          /\ heard' = IF fetch[s] # "none" THEN heard \cup {s} ELSE heard
    /\ inbox' = [inbox EXCEPT ![s] = Tail(@)]
    /\ UNCHANGED <<storeVars, gateVars, cs, beats, made, cur, interval, since,
                   fetch, got, synced, upsets>>

\* ... and the welcome asks for the roster.
OnWelcome(s) ==
    /\ cs[s] = "open" /\ inbox[s] # <<>>
    /\ Head(inbox[s]).type = "welcome"
    /\ inbox' = [inbox EXCEPT ![s] = Tail(@)]
    /\ fetch' = [fetch EXCEPT ![s] = "asked"]
    /\ UNCHANGED <<storeVars, gateVars, cs, beats, made, cur, interval, since,
                   view, got, heard, synced, upsets>>

\* The answer replaces the list, also the answer to a socket that is closed.
SetMembers(s) ==
    /\ fetch[s] = "answered"
    /\ fetch' = [fetch EXCEPT ![s] = "none"]
    /\ got' = [got EXCEPT ![s] = {}]
    /\ view' = [view EXCEPT ![Owner(s)] = got[s] \ {Owner(s)}]
    /\ synced' = IF Current(s) /\ s \notin heard THEN synced \cup {Owner(s)}
                                                ELSE synced \ {Owner(s)}
    /\ heard' = heard \ {s}
    /\ UNCHANGED <<storeVars, gateVars, socketVars, upsets>>

\* The request fails and the list stays as it is.
FetchFails(s) ==
    /\ Upset("fetch")
    /\ fetch[s] # "none"
    /\ fetch' = [fetch EXCEPT ![s] = "none"]
    /\ got' = [got EXCEPT ![s] = {}]
    /\ heard' = heard \ {s}
    /\ UNCHANGED <<storeVars, gateVars, socketVars, view, synced>>

-----------------------------------------------------------------------------
(* The presence route *)

\* GET: smembers ...
GetIds(s) ==
    /\ fetch[s] = "asked"
    /\ fetch' = [fetch EXCEPT ![s] = IF ids = {} THEN "answered" ELSE "ids"]
    /\ got' = [got EXCEPT ![s] = ids]
    /\ UNCHANGED <<storeVars, gateVars, socketVars, view, heard, synced, upsets>>

\* ... and mget of the keys it named; ids without a key are left out.
GetMembers(s) ==
    /\ fetch[s] = "ids"
    /\ fetch' = [fetch EXCEPT ![s] = "answered"]
    /\ got' = [got EXCEPT ![s] = {m \in @ : keyTtl[m] > 0}]
    /\ UNCHANGED <<storeVars, gateVars, socketVars, view, heard, synced, upsets>>

\* POST and DELETE change the roster and tell nobody.
POST(m, ttl) ==
    /\ Upset("POST")
    /\ TouchMember(m, ttl)
    /\ UNCHANGED <<gateVars, socketVars, viewVars>>

DELETE(m) ==
    /\ Upset("DELETE")
    /\ RemoveMember(m)
    /\ UNCHANGED <<gateVars, socketVars, viewVars>>

-----------------------------------------------------------------------------
(* The gateway *)

Sent(op, s) == Append(pipe, [op |-> op, s |-> s])

\* connection: addClient at once, and touchPresence.
Connection(s) ==
    /\ gate = "up"
    /\ cs[s] \in {"connecting", "closing"}
    /\ gs[s] = "none"
    /\ gs' = [gs EXCEPT ![s] = "open"]
    /\ pipe' = Sent("join", s)
    /\ UNCHANGED <<storeVars, gate, replies, socketVars, viewVars, upsets>>

\* message: a heartbeat touches, and nothing waits for it.
OnHeartbeat(s) ==
    /\ s \in beats
    /\ gs[s] = "open"
    /\ beats' = beats \ {s}
    /\ pipe' = Sent("beat", s)
    /\ UNCHANGED <<storeVars, gate, gs, replies, cs, inbox, made, cur, interval,
                   since, viewVars, upsets>>

\* close: removeClient at once, and removePresence, whatever other sockets the
\* member has.
OnGone(s) ==
    /\ gs[s] = "open"
    /\ cs[s] \in {"closing", "closed"}
    /\ s \notin beats
    /\ gs' = [gs EXCEPT ![s] = "gone"]
    /\ pipe' = Sent("leave", s)
    /\ UNCHANGED <<storeVars, gate, replies, socketVars, viewVars, upsets>>

RunTouch(command) == command.op \in {"join", "beat"} /\ TouchMember(Owner(command.s), Ttl)
RunRemove(command) == command.op = "leave" /\ RemoveMember(Owner(command.s))

\* (faulty) Commands go over connections of their own and overtake each other.
ExecuteAny ==
    \E i \in 1 .. Len(pipe) :
        /\ RunTouch(pipe[i]) \/ RunRemove(pipe[i])
        /\ pipe' = SubSeq(pipe, 1, i - 1) \o SubSeq(pipe, i + 1, Len(pipe))
        /\ replies' = IF pipe[i].op = "beat" THEN replies ELSE Append(replies, pipe[i])
        /\ UNCHANGED <<gate, gs, socketVars, viewVars, upsets>>

\* Redis runs the next command.
Execute ==
    /\ pipe # <<>>
    /\ RunTouch(Head(pipe)) \/ RunRemove(Head(pipe))
    /\ pipe' = Tail(pipe)
    /\ replies' = IF Head(pipe).op = "beat" THEN replies ELSE Append(replies, Head(pipe))
    /\ UNCHANGED <<gate, gs, socketVars, viewVars, upsets>>

\* The sockets broadcast() and send() reach; a page drops what comes after its close.
Reaches(s) == gs[s] = "open" /\ cs[s] \in {"connecting", "open"} /\ Owner(s) \in Watchers
Told(type, m) == [type |-> type, m |-> m]

\* (faulty) The newcomer is greeted and the others are not told.
AfterTouchQuietly(s) ==
    /\ replies # <<>> /\ Head(replies) = [op |-> "join", s |-> s]
    /\ replies' = Tail(replies)
    /\ inbox' = [t \in Sockets |->
                    IF t = s /\ Reaches(s) THEN Append(inbox[t], Told("welcome", Owner(s)))
                                           ELSE inbox[t]]
    /\ UNCHANGED <<storeVars, gate, gs, pipe, cs, beats, made, cur, interval, since,
                   viewVars, upsets>>

\* After touchPresence: the join goes to everybody, then the welcome to the newcomer.
AfterTouch(s) ==
    /\ replies # <<>> /\ Head(replies) = [op |-> "join", s |-> s]
    /\ replies' = Tail(replies)
    /\ inbox' = [t \in Sockets |->
                    IF ~Reaches(t) THEN inbox[t]
                    ELSE inbox[t] \o <<Told("join", Owner(s))>>
                                  \o (IF t = s THEN <<Told("welcome", Owner(s))>> ELSE <<>>)]
    /\ UNCHANGED <<storeVars, gate, gs, pipe, cs, beats, made, cur, interval, since,
                   viewVars, upsets>>

\* After removePresence: the leave goes to everybody.
AfterRemove(s) ==
    /\ replies # <<>> /\ Head(replies) = [op |-> "leave", s |-> s]
    /\ replies' = Tail(replies)
    /\ inbox' = [t \in Sockets |->
                    IF Reaches(t) THEN Append(inbox[t], Told("leave", Owner(s))) ELSE inbox[t]]
    /\ UNCHANGED <<storeVars, gate, gs, pipe, cs, beats, made, cur, interval, since,
                   viewVars, upsets>>

\* The process dies with its sockets and callbacks, and is started again.
Die ==
    /\ gs' = [s \in Sockets |-> IF gs[s] = "open" THEN "gone" ELSE gs[s]]
    /\ pipe' = <<>> /\ replies' = <<>>
    /\ beats' = {}
    /\ UNCHANGED <<storeVars, gate, cs, inbox, made, cur, interval, since, viewVars>>

Crash == gate # "down" /\ Upset("crash") /\ Die

\* A command fails: connection and close catch it; nobody catches the one of a
\* heartbeat, and Node ends the process.
CommandFails ==
    /\ pipe # <<>>
    /\ Upset("redis")
    /\ \/ Head(pipe).op = "beat" /\ Die
       \/ /\ Head(pipe).op # "beat"
          /\ pipe' = Tail(pipe)
          /\ UNCHANGED <<storeVars, gate, gs, replies, socketVars, viewVars>>

\* A signal: no new connections ...
Stop ==
    /\ gate = "up"
    /\ Upset("stop")
    /\ gate' = "stopping"
    /\ UNCHANGED <<storeVars, gs, pipe, replies, socketVars, viewVars>>

\* ... and with the last socket gone and its commands answered, the end.
Exit ==
    /\ gate = "stopping"
    /\ \A s \in Sockets : gs[s] # "open"
    /\ pipe = <<>> /\ replies = <<>>
    /\ gate' = "down"
    /\ UNCHANGED <<storeVars, gs, pipe, replies, socketVars, viewVars, upsets>>

-----------------------------------------------------------------------------
\* Time goes by when no heartbeat is due, and no command, message or opening
\* is on its way.  Requests for the roster and the end of a connection may take
\* any time.
Tick ==
    /\ beats = {} /\ pipe = <<>> /\ replies = <<>>
    /\ \A s \in Sockets : /\ cs[s] = "connecting" => gs[s] = "none" /\ gate # "up"
                          /\ cs[s] = "open" => inbox[s] = <<>>
    /\ \A m \in Members : interval[m] # 0 => since[m] < HeartbeatMs
    /\ Age
    /\ since' = [m \in Members |-> IF interval[m] # 0 THEN since[m] + 1 ELSE 0]
    /\ UNCHANGED <<gateVars, cs, inbox, beats, made, cur, interval, viewVars, upsets>>

PageStep(s) == OnOpen(s) \/ OnClose(s) \/ ConnectionLost(s) \/ OnEvent(s) \/ OnWelcome(s) \/ SetMembers(s) \/ FetchFails(s)
RouteStep(s) == GetIds(s) \/ GetMembers(s)
GatewayStep(s) == Connection(s) \/ OnHeartbeat(s) \/ OnGone(s) \/ AfterTouch(s) \/ AfterRemove(s)

Next ==
    \/ \E m \in Members : Mount(m) \/ Rerun(m) \/ Disable(m) \/ SendHeartbeat(m)
    \/ \E s \in Sockets : PageStep(s) \/ RouteStep(s) \/ GatewayStep(s)
    \/ \E m \in Members : DELETE(m) \/ \E ttl \in PostTtls : POST(m, ttl)
    \/ Execute \/ Crash \/ CommandFails \/ Stop \/ Exit
    \/ Tick

Spec == Init /\ [][Next]_vars

\* Clocks run, a timer that is due fires, and what is on its way arrives.
Fairness ==
    /\ WF_vars(Tick) /\ WF_vars(Execute)
    /\ \A m \in Members : WF_vars(SendHeartbeat(m))
    /\ \A s \in Sockets : /\ WF_vars(OnHeartbeat(s)) /\ WF_vars(OnGone(s))
                          /\ WF_vars(Connection(s)) /\ WF_vars(OnOpen(s))
                          /\ WF_vars(OnClose(s)) /\ WF_vars(OnEvent(s)) /\ WF_vars(OnWelcome(s))
                          /\ WF_vars(AfterTouch(s)) /\ WF_vars(AfterRemove(s))

FairSpec == Spec /\ Fairness

-----------------------------------------------------------------------------
(* Properties *)

Connected(m) == \E i \in 1 .. MaxSockets : gs[<<m, i>>] = "open"
CommandsOf(m) == {i \in 1 .. Len(pipe) : Owner(pipe[i].s) = m}

\* The route was not called, and neither gateway nor Redis failed.
Undisturbed == upsets \subseteq {"stop", "fetch", "drop"}

\* Whoever has no socket at the gateway is not in the roster, or the last
\* command about them that is still to run removes them: joins and heartbeats
\* in flight when a socket closes do not bring its member back, also while the
\* gateway shuts down.
NoGhost ==
    Undisturbed =>
        \A m \in Members : ~Connected(m) =>
            IF CommandsOf(m) = {}
            THEN m \notin ids /\ keyTtl[m] = 0
            ELSE \E i \in CommandsOf(m) : /\ pipe[i].op = "leave"
                                          /\ \A j \in CommandsOf(m) : j <= i

InFlight(m) == CommandsOf(m) # {} \/ \E s \in beats : Owner(s) = m

\* Heartbeats keep a member listed through the life of its set and key, and
\* through everything that other members do, while the page has only ever
\* opened this socket.
KeptAlive ==
    Undisturbed /\ Ttl > HeartbeatMs =>
        \A m \in Members : /\ made[m] = 1 /\ cs[<<m, 1>>] = "open" /\ gs[<<m, 1>>] = "open"
                           /\ ~InFlight(m)
                           => Listed(m)

Beating(m) ==
    LET s == <<m, interval[m]>>
    IN interval[m] # 0 /\ cs[s] = "open" /\ gs[s] = "open"

\* With nothing in flight, a page whose list was loaded without a race shows
\* exactly the other members of the roster: joins and leaves keep it in step.
ViewInStep ==
    /\ Undisturbed /\ pipe = <<>> /\ replies = <<>> /\ beats = {}
    /\ Ttl > HeartbeatMs
    /\ \A m \in Members : made[m] <= 1 /\ (Connected(m) => Beating(m))
    => \A m \in synced : Beating(m) /\ inbox[<<m, 1>>] = <<>>
                           => view[m] = {n \in Members \ {m} : Listed(n)}

\* A member whose interval beats is listed again and again, whatever its own
\* older socket, a short POST, a DELETE or the end of the set did to its entry.
ListedAgain == \A m \in Members : []<>(Beating(m) => Listed(m))

\* Who is not connected drops out of the roster, also when the gateway died and
\* nobody removes the entry.
GhostsExpire == \A m \in Members : []<>(Connected(m) \/ ~Listed(m))
=============================================================================

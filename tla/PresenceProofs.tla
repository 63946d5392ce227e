--------------------------- MODULE PresenceProofs ---------------------------
(***************************************************************************)
(* Proofs about Presence, for any members, sockets, times to live and      *)
(* heartbeats: nobody comes back to the roster after the last socket has   *)
(* closed, heartbeats keep their member in it, and the lists of the pages  *)
(* keep in step with it.                                                   *)
(***************************************************************************)
EXTENDS Presence, FiniteSetTheorems, SequenceTheorems, TLAPS

Kept == <<storeVars, gate, gs, pipe, cs, beats, made, cur, interval, since>>

Ends(s) ==
    /\ cs[s] # "none"
    /\ cs' = [cs EXCEPT ![s] = "closed"]
    /\ interval' = [interval EXCEPT ![Owner(s)] = 0]
    /\ since' = [since EXCEPT ![Owner(s)] = 0]
    /\ UNCHANGED <<storeVars, gate, gs, pipe, beats, made, cur>>

Halts ==
    /\ \/ gate = "up" /\ gate' = "stopping"
       \/ gate = "stopping" /\ gate' = "down"
    /\ UNCHANGED <<storeVars, gs, pipe, cs, beats, made, cur, interval, since>>

\* The steps of a gateway and a Redis that do not fail.
CalmStep ==
    \/ \E m \in Members : Mount(m) \/ Rerun(m) \/ Disable(m) \/ SendHeartbeat(m)
    \/ \E s \in Sockets : OnOpen(s) \/ Ends(s) \/ Connection(s) \/ OnHeartbeat(s) \/ OnGone(s)
    \/ Execute \/ Tick \/ Halts
    \/ UNCHANGED Kept

LEMMA Calm == [Next]_vars /\ Undisturbed' => Undisturbed /\ CalmStep
<1> SUFFICES ASSUME [Next]_vars, Undisturbed' PROVE Undisturbed /\ CalmStep
  OBVIOUS
<1> USE DEF Undisturbed, Upset, CalmStep, Kept, gateVars, socketVars
<1>1. ASSUME NEW m \in Members, Mount(m) \/ Rerun(m) \/ Disable(m) \/ SendHeartbeat(m)
      PROVE  Undisturbed /\ CalmStep
  BY <1>1 DEF Mount, Rerun, Disable, SendHeartbeat
<1>2. ASSUME NEW s \in Sockets, PageStep(s) PROVE Undisturbed /\ CalmStep
  <2>1. CASE OnOpen(s)
    BY <2>1 DEF OnOpen
  <2>2. CASE OnClose(s) \/ ConnectionLost(s)
    BY <2>2 DEF OnClose, ConnectionLost, Close, Ends
  <2>3. CASE OnEvent(s) \/ OnWelcome(s) \/ SetMembers(s) \/ FetchFails(s)
    BY <2>3 DEF OnEvent, OnWelcome, SetMembers, FetchFails
  <2> QED BY <1>2, <2>1, <2>2, <2>3 DEF PageStep
<1>3. ASSUME NEW s \in Sockets, RouteStep(s) \/ AfterTouch(s) \/ AfterRemove(s)
      PROVE  Undisturbed /\ CalmStep
  BY <1>3 DEF RouteStep, GetIds, GetMembers, AfterTouch, AfterRemove
<1>4. ASSUME NEW s \in Sockets, Connection(s) \/ OnHeartbeat(s) \/ OnGone(s)
      PROVE  Undisturbed /\ CalmStep
  BY <1>4 DEF Connection, OnHeartbeat, OnGone
<1>5. ASSUME NEW m \in Members, NEW ttl \in PostTtls, POST(m, ttl) PROVE FALSE
  BY <1>5 DEF POST
<1>6. ASSUME NEW m \in Members, DELETE(m) PROVE FALSE
  BY <1>6 DEF DELETE
<1>7. CASE Execute \/ Tick
  BY <1>7 DEF Execute, Tick
<1>8. CASE Crash \/ CommandFails
  BY <1>8 DEF Crash, CommandFails
<1>9. CASE Stop \/ Exit
  BY <1>9 DEF Stop, Exit, Halts
<1>10. CASE UNCHANGED vars
  BY <1>10 DEF vars
<1> QED BY <1>1, <1>2, <1>3, <1>4, <1>5, <1>6, <1>7, <1>8, <1>9, <1>10 DEF Next, GatewayStep

-----------------------------------------------------------------------------
(* Types *)

GateTyped ==
    /\ gate \in {"up", "stopping", "down"}
    /\ gs \in [Sockets -> {"none", "open", "gone"}]
    /\ pipe \in Seq(Commands) /\ replies \in Seq(Commands)

\* The sockets that were opened are no longer "none".
SocketsTyped ==
    /\ cs \in [Sockets -> {"none", "connecting", "open", "closing", "closed"}]
    /\ inbox \in [Sockets -> Seq(Messages)]
    /\ beats \in SUBSET Sockets
    /\ made \in [Members -> 0 .. MaxSockets]
    /\ cur \in [Members -> 0 .. MaxSockets]
    /\ interval \in [Members -> 0 .. MaxSockets]
    /\ since \in [Members -> 0 .. HeartbeatMs]
    /\ \A m \in Members : cur[m] <= made[m] /\ interval[m] <= made[m]
    /\ \A m \in Members : \A i \in 1 .. MaxSockets : i <= made[m] => cs[<<m, i>>] # "none"

ViewTyped ==
    /\ view \in [Members -> SUBSET Members]
    /\ fetch \in [Sockets -> {"none", "asked", "ids", "answered"}]
    /\ got \in [Sockets -> SUBSET Members]
    /\ heard \in SUBSET Sockets
    /\ synced \in SUBSET Members

Typed == StoreTypeOK /\ GateTyped /\ SocketsTyped /\ ViewTyped /\ upsets \in SUBSET Upsets

LEMMA TypedMeans == Typed => TypeOK
<1> SUFFICES ASSUME Typed PROVE TypeOK
  OBVIOUS
<1>1. ASSUME NEW m \in Members
      PROVE  /\ made[m] \in 0 .. MaxSockets
             /\ cur[m] \in 0 .. made[m]
             /\ interval[m] \in 0 .. made[m]
             /\ since[m] \in 0 .. HeartbeatMs
  BY SocketsAssumption DEF Typed, SocketsTyped
<1> QED BY <1>1 DEF Typed, GateTyped, SocketsTyped, ViewTyped, TypeOK

LEMMA TypedUnchanged ==
    Typed => /\ UNCHANGED storeVars => StoreTypeOK'
             /\ UNCHANGED gateVars => GateTyped'
             /\ UNCHANGED socketVars => SocketsTyped'
             /\ UNCHANGED viewVars => ViewTyped'
<1>1. Typed /\ UNCHANGED storeVars => StoreTypeOK'
  BY DEF Typed, StoreTypeOK, storeVars
<1>2. Typed /\ UNCHANGED gateVars => GateTyped'
  BY DEF Typed, GateTyped, gateVars
<1>3. Typed /\ UNCHANGED socketVars => SocketsTyped'
  BY DEF Typed, SocketsTyped, socketVars
<1>4. Typed /\ UNCHANGED viewVars => ViewTyped'
  BY DEF Typed, ViewTyped, viewVars
<1> QED BY <1>1, <1>2, <1>3, <1>4

\* The bound on all sockets bounds those of each member.
LEMMA Room ==
    ASSUME Typed, NEW m \in Members,
           Cardinality({s \in Sockets : cs[s] # "none"}) < MaxSockets
    PROVE  made[m] + 1 \in 1 .. MaxSockets
<1> DEFINE S == {s \in Sockets : cs[s] # "none"}
           I == 1 .. MaxSockets
<1> USE SocketsAssumption
<1>1. IsFiniteSet(I) /\ Cardinality(I) = MaxSockets
  BY FS_Interval
<1>2. IsFiniteSet({m}) /\ Cardinality({m}) = 1
  BY FS_Singleton
<1>3. IsFiniteSet({m} \X I) /\ Cardinality({m} \X I) = 1 * MaxSockets
  BY <1>1, <1>2, FS_Product
<1>4. IsFiniteSet(Sockets)
  BY <1>1, FS_Product DEF Sockets
<1>5. IsFiniteSet(S) /\ Cardinality(S) \in Nat
  BY <1>4, FS_Subset, FS_CardinalityType
<1>6. ASSUME made[m] = MaxSockets PROVE FALSE
  <2>1. {m} \X I \subseteq S
    BY <1>6 DEF Typed, SocketsTyped, Sockets
  <2>2. Cardinality({m} \X I) <= Cardinality(S)
    BY <2>1, <1>5, FS_Subset
  <2> QED BY <2>2, <1>3, <1>5
<1>7. made[m] \in 0 .. MaxSockets
  BY DEF Typed, SocketsTyped
<1> QED BY <1>6, <1>7

\* What a closed socket was still to hear is dropped.
LEMMA Emptied ==
    ASSUME SocketsTyped, NEW s, NEW new, new = [inbox EXCEPT ![s] = <<>>]
    PROVE  new \in [Sockets -> Seq(Messages)]
<1>1. inbox \in [Sockets -> Seq(Messages)]
  BY DEF SocketsTyped
<1>2. <<>> \in Seq(Messages)
  OBVIOUS
<1> QED BY <1>1, <1>2, Zenon

LEMMA TypedInit == Init => Typed
<1> SUFFICES ASSUME Init PROVE Typed
  OBVIOUS
<1>1. MaxSockets \in Nat /\ HeartbeatMs \in Nat /\ MaxTtl \in Nat
  BY SocketsAssumption, HeartbeatAssumption, MaxTtlAssumption
<1>2. StoreTypeOK
  BY <1>1 DEF Init, StoreInit, StoreTypeOK
<1>3. GateTyped /\ ViewTyped
  BY DEF Init, GateTyped, ViewTyped
<1>4. SocketsTyped
  BY <1>1 DEF Init, SocketsTyped
<1> QED BY <1>2, <1>3, <1>4 DEF Init, Typed

LEMMA TypedStep == Typed /\ [Next]_vars => Typed'
<1> SUFFICES ASSUME Typed, [Next]_vars PROVE Typed'
  OBVIOUS
<1> USE SocketsAssumption, HeartbeatAssumption, MaxTtlAssumption, TtlAssumption
<1>0. /\ StoreTypeOK /\ GateTyped /\ SocketsTyped /\ ViewTyped /\ upsets \in SUBSET Upsets
      /\ UNCHANGED storeVars => StoreTypeOK'
      /\ UNCHANGED gateVars => GateTyped'
      /\ UNCHANGED socketVars => SocketsTyped'
      /\ UNCHANGED viewVars => ViewTyped'
  BY TypedUnchanged DEF Typed
<1>1. ASSUME NEW m \in Members, Mount(m) \/ Rerun(m) PROVE Typed'
  <2>1. made[m] + 1 \in 1 .. MaxSockets
    BY <1>1, Room DEF Mount, Rerun, OpenSocket
  <2>2. <<m, made[m] + 1>> \in Sockets
    BY <2>1 DEF Sockets
  <2>3. Closed(m) \in [Sockets -> {"none", "connecting", "open", "closing", "closed"}]
    BY <1>0 DEF Closed, SocketsTyped
  <2>4. PICK sockets \in {cs, Closed(m)} : OpenSocket(m, sockets)
    BY <1>1 DEF Mount, Rerun
  <2>5. \A s \in Sockets : cs[s] # "none" => sockets[s] # "none"
    BY <1>0, <2>4 DEF Closed, SocketsTyped
  <2>6. /\ cs' \in [Sockets -> {"none", "connecting", "open", "closing", "closed"}]
        /\ made' \in [Members -> 0 .. MaxSockets]
        /\ cur' \in [Members -> 0 .. MaxSockets]
        /\ interval' \in [Members -> 0 .. MaxSockets]
        /\ since' \in [Members -> 0 .. HeartbeatMs]
    <3>1. cs' = [sockets EXCEPT ![<<m, made[m] + 1>>] = "connecting"]
      BY <2>4 DEF OpenSocket
    <3>2. cs' \in [Sockets -> {"none", "connecting", "open", "closing", "closed"}]
      BY <1>0, <2>3, <2>4, <3>1 DEF SocketsTyped
    <3> QED BY <1>0, <2>1, <2>4, <3>2 DEF OpenSocket, SocketsTyped
  <2>7. ASSUME NEW n \in Members, NEW i \in 1 .. MaxSockets, i <= made'[n]
        PROVE  cs'[<<n, i>>] # "none"
    <3>1. <<n, i>> \in Sockets
      BY DEF Sockets
    <3>2. CASE n = m /\ i = made[m] + 1
      BY <1>0, <2>3, <2>4, <3>1, <3>2 DEF OpenSocket, SocketsTyped
    <3>3. CASE ~(n = m /\ i = made[m] + 1)
      <4>1. cs'[<<n, i>>] = sockets[<<n, i>>]
        BY <1>0, <2>3, <2>4, <3>1, <3>3 DEF OpenSocket, SocketsTyped
      <4>2. i <= made[n]
        BY <1>0, <2>1, <2>4, <2>7, <3>3 DEF OpenSocket, SocketsTyped
      <4> QED BY <1>0, <2>5, <3>1, <4>1, <4>2 DEF SocketsTyped
    <3> QED BY <3>2, <3>3
  <2>8. \A n \in Members : cur'[n] <= made'[n] /\ interval'[n] <= made'[n]
    BY <1>0, <2>1, <2>4 DEF OpenSocket, SocketsTyped
  <2>9. inbox' \in [Sockets -> Seq(Messages)] /\ beats' = beats
    BY <1>0, <1>1, Emptied DEF Mount, Rerun, SocketsTyped
  <2>10. SocketsTyped'
    BY <1>0, <2>6, <2>7, <2>8, <2>9 DEF SocketsTyped
  <2>11. ViewTyped'
    BY <1>0, <1>1 DEF Mount, Rerun, OpenSocket, ViewTyped
  <2> QED BY <1>0, <1>1, <2>10, <2>11 DEF Mount, Rerun, Typed
<1>2. ASSUME NEW m \in Members, Disable(m) PROVE Typed'
  <2>1. /\ cs' \in [Sockets -> {"none", "connecting", "open", "closing", "closed"}]
        /\ \A s \in Sockets : cs[s] # "none" => cs'[s] # "none"
    BY <1>0, <1>2 DEF Disable, Closed, SocketsTyped
  <2>2. SocketsTyped'
    <3>1. inbox' \in [Sockets -> Seq(Messages)]
      BY <1>0, <1>2, Emptied DEF Disable
    <3>2. /\ cur' \in [Members -> 0 .. MaxSockets]
          /\ interval' \in [Members -> 0 .. MaxSockets]
          /\ since' \in [Members -> 0 .. HeartbeatMs]
          /\ \A n \in Members : cur'[n] <= made[n] /\ interval'[n] <= made[n]
      BY <1>0, <1>2 DEF Disable, SocketsTyped
    <3>3. \A n \in Members : \A i \in 1 .. MaxSockets : i <= made[n] => cs'[<<n, i>>] # "none"
      BY <1>0, <2>1 DEF SocketsTyped, Sockets
    <3>4. made' = made /\ beats' = beats
      BY <1>2 DEF Disable
    <3> QED BY <1>0, <2>1, <3>1, <3>2, <3>3, <3>4 DEF SocketsTyped
  <2>3. ViewTyped'
    BY <1>0, <1>2 DEF Disable, ViewTyped
  <2> QED BY <1>0, <1>2, <2>2, <2>3 DEF Disable, Typed
<1>3. ASSUME NEW m \in Members, SendHeartbeat(m) PROVE Typed'
  <2>1. <<m, interval[m]>> \in Sockets
    BY <1>0, <1>3 DEF SendHeartbeat, Sockets, SocketsTyped
  <2>2. SocketsTyped'
    <3>1. beats' \in SUBSET Sockets
      BY <1>0, <1>3, <2>1 DEF SendHeartbeat, Beats, SocketsTyped
    <3>2. since' \in [Members -> 0 .. HeartbeatMs]
      BY <1>0, <1>3 DEF SendHeartbeat, SocketsTyped
    <3>3. UNCHANGED <<cs, inbox, made, cur, interval>>
      BY <1>3 DEF SendHeartbeat
    <3> QED BY <1>0, <3>1, <3>2, <3>3 DEF SocketsTyped
  <2> QED BY <1>0, <1>3, <2>2 DEF SendHeartbeat, Typed
<1>4. ASSUME NEW s \in Sockets, OnOpen(s) PROVE Typed'
  <2>1. SocketsTyped'
    BY <1>0, <1>4 DEF OnOpen, Beats, SocketsTyped, Sockets
  <2> QED BY <1>0, <1>4, <2>1 DEF OnOpen, Typed
<1>5. ASSUME NEW s \in Sockets, OnClose(s) \/ ConnectionLost(s) PROVE Typed'
  <2>1. Close(s)
    BY <1>5 DEF OnClose, ConnectionLost
  <2>2. upsets' \in SUBSET Upsets
    BY <1>0, <1>5 DEF OnClose, ConnectionLost, Upset, Upsets
  <2>3. SocketsTyped'
    <3>1. inbox' \in [Sockets -> Seq(Messages)]
      BY <1>0, <2>1, Emptied DEF Close
    <3>2. /\ cs' \in [Sockets -> {"none", "connecting", "open", "closing", "closed"}]
          /\ \A t \in Sockets : cs[t] # "none" => cs'[t] # "none"
      BY <1>0, <2>1 DEF Close, SocketsTyped
    <3>3. /\ interval' \in [Members -> 0 .. MaxSockets]
          /\ since' \in [Members -> 0 .. HeartbeatMs]
          /\ \A n \in Members : interval'[n] <= made[n]
      <4>1. /\ interval' = [interval EXCEPT ![Owner(s)] = 0]
            /\ since' = [since EXCEPT ![Owner(s)] = 0]
        BY <2>1 DEF Close
      <4>2. interval' \in [Members -> 0 .. MaxSockets] /\ since' \in [Members -> 0 .. HeartbeatMs]
        <5>1. 0 \in 0 .. MaxSockets /\ 0 \in 0 .. HeartbeatMs
          OBVIOUS
        <5>2. interval \in [Members -> 0 .. MaxSockets] /\ since \in [Members -> 0 .. HeartbeatMs]
          BY <1>0 DEF SocketsTyped
        <5> QED BY <4>1, <5>1, <5>2, Zenon
      <4>3. ASSUME NEW n \in Members PROVE interval'[n] <= made[n]
        <5>1. interval'[n] = 0 \/ interval'[n] = interval[n]
          BY <1>0, <4>1 DEF SocketsTyped
        <5>2. interval[n] <= made[n] /\ made[n] \in 0 .. MaxSockets
          BY <1>0 DEF SocketsTyped
        <5> QED BY <5>1, <5>2
      <4> QED BY <4>2, <4>3
    <3>4. \A n \in Members : \A i \in 1 .. MaxSockets : i <= made[n] => cs'[<<n, i>>] # "none"
      BY <1>0, <3>2 DEF SocketsTyped, Sockets
    <3>5. UNCHANGED <<beats, made, cur>>
      BY <2>1 DEF Close
    <3> QED BY <1>0, <3>1, <3>2, <3>3, <3>4, <3>5 DEF SocketsTyped
  <2> QED BY <1>0, <2>1, <2>2, <2>3 DEF Close, Typed
<1>6. ASSUME NEW s \in Sockets, OnEvent(s) \/ OnWelcome(s) PROVE Typed'
  <2>1. inbox[s] # <<>> /\ inbox[s] \in Seq(Messages)
    BY <1>0, <1>6 DEF OnEvent, OnWelcome, SocketsTyped
  <2>2. Head(inbox[s]) \in Messages /\ Tail(inbox[s]) \in Seq(Messages)
    BY <2>1
  <2>3. Head(inbox[s]).m \in Members
    BY <2>2 DEF Messages
  <2>4. s[1] \in Members
    BY DEF Sockets
  <2>5. SocketsTyped'
    BY <1>0, <1>6, <2>2 DEF OnEvent, OnWelcome, SocketsTyped
  <2>6. ViewTyped'
    BY <1>0, <1>6, <2>3, <2>4 DEF OnEvent, OnWelcome, ViewTyped, Owner
  <2> QED BY <1>0, <1>6, <2>5, <2>6 DEF OnEvent, OnWelcome, Typed
<1>7. ASSUME NEW s \in Sockets, SetMembers(s) \/ FetchFails(s) PROVE Typed'
  <2>1. Owner(s) \in Members
    BY DEF Sockets, Owner
  <2>2. ViewTyped'
    BY <1>0, <1>7, <2>1 DEF SetMembers, FetchFails, ViewTyped
  <2>3. upsets' \in SUBSET Upsets
    BY <1>0, <1>7 DEF SetMembers, FetchFails, Upset, Upsets
  <2> QED BY <1>0, <1>7, <2>2, <2>3 DEF SetMembers, FetchFails, Typed
<1>8. ASSUME NEW s \in Sockets, RouteStep(s) PROVE Typed'
  <2>1. ViewTyped'
    BY <1>0, <1>8 DEF RouteStep, GetIds, GetMembers, ViewTyped, StoreTypeOK
  <2> QED BY <1>0, <1>8, <2>1 DEF RouteStep, GetIds, GetMembers, Typed
<1>9. ASSUME NEW s \in Sockets, Connection(s) \/ OnHeartbeat(s) \/ OnGone(s) PROVE Typed'
  <2>1. \A op \in {"join", "beat", "leave"} : Sent(op, s) \in Seq(Commands)
    BY <1>0 DEF Sent, Commands, GateTyped
  <2>2. GateTyped'
    BY <1>0, <1>9, <2>1 DEF Connection, OnHeartbeat, OnGone, GateTyped
  <2>3. SocketsTyped'
    BY <1>0, <1>9 DEF Connection, OnHeartbeat, OnGone, SocketsTyped, socketVars
  <2> QED BY <1>0, <1>9, <2>2, <2>3 DEF Connection, OnHeartbeat, OnGone, Typed
<1>10. ASSUME NEW s \in Sockets, AfterTouch(s) \/ AfterRemove(s) PROVE Typed'
  <2>1. Owner(s) \in Members
    BY DEF Sockets, Owner
  <2>2. \A type \in {"join", "leave", "welcome"} : Told(type, Owner(s)) \in Messages
    BY <2>1 DEF Told, Messages
  <2>3. GateTyped'
    <3>1. replies' = Tail(replies) /\ replies # <<>>
      BY <1>10 DEF AfterTouch, AfterRemove
    <3>2. replies' \in Seq(Commands)
      BY <1>0, <3>1 DEF GateTyped
    <3>3. UNCHANGED <<gate, gs, pipe>>
      BY <1>10 DEF AfterTouch, AfterRemove
    <3> QED BY <1>0, <3>2, <3>3 DEF GateTyped
  <2>4. inbox' \in [Sockets -> Seq(Messages)]
    <3> DEFINE joined == <<Told("join", Owner(s))>>
               greeted == <<Told("welcome", Owner(s))>>
    <3>1. /\ joined \in Seq(Messages) /\ greeted \in Seq(Messages) /\ <<>> \in Seq(Messages)
          /\ Told("leave", Owner(s)) \in Messages
      BY <2>2
    <3>2. \A t \in Sockets : inbox[t] \in Seq(Messages)
      BY <1>0 DEF SocketsTyped
    <3>3. \A t \in Sockets : /\ (inbox[t] \o joined) \o greeted \in Seq(Messages)
                            /\ (inbox[t] \o joined) \o <<>> \in Seq(Messages)
                            /\ Append(inbox[t], Told("leave", Owner(s))) \in Seq(Messages)
      BY <3>1, <3>2
    <3>4. CASE AfterTouch(s)
      BY <3>2, <3>3, <3>4 DEF AfterTouch
    <3>5. CASE AfterRemove(s)
      BY <3>2, <3>3, <3>5 DEF AfterRemove
    <3> QED BY <1>10, <3>4, <3>5
  <2>5. SocketsTyped'
    BY <1>0, <1>10, <2>4 DEF AfterTouch, AfterRemove, SocketsTyped
  <2> QED BY <1>0, <1>10, <2>3, <2>5 DEF AfterTouch, AfterRemove, Typed
<1>11. ASSUME NEW m \in Members,
              DELETE(m) \/ \E ttl \in PostTtls : POST(m, ttl)
       PROVE  Typed'
  <2>1. CASE DELETE(m)
    BY <1>0, <2>1 DEF DELETE, RemoveMember, Upset, Upsets, StoreTypeOK, Typed
  <2>2. ASSUME NEW ttl \in PostTtls, POST(m, ttl) PROVE Typed'
    BY <1>0, <2>2 DEF POST, TouchMember, Upset, Upsets, StoreTypeOK, Typed
  <2> QED BY <1>11, <2>1, <2>2
<1>12. CASE Execute
  <2>1. Head(pipe) \in Commands /\ Tail(pipe) \in Seq(Commands)
    BY <1>0, <1>12 DEF Execute, GateTyped
  <2>2. Owner(Head(pipe).s) \in Members
    BY <2>1 DEF Commands, Sockets, Owner
  <2>3. StoreTypeOK'
    BY <1>0, <1>12, <2>2
    DEF Execute, RunTouch, RunRemove, StoreTypeOK, TouchMember, RemoveMember
  <2>4. GateTyped'
    BY <1>0, <1>12, <2>1 DEF Execute, GateTyped
  <2> QED BY <1>0, <1>12, <2>3, <2>4 DEF Execute, Typed
<1>13. CASE Crash \/ CommandFails
  <2>1. upsets' \in SUBSET Upsets
    BY <1>0, <1>13 DEF Crash, CommandFails, Upset, Upsets
  <2>2. CASE Die
    <3>1. GateTyped'
      BY <1>0, <2>2 DEF Die, GateTyped
    <3>2. SocketsTyped'
      BY <1>0, <2>2 DEF Die, SocketsTyped
    <3> QED BY <1>0, <2>1, <2>2, <3>1, <3>2 DEF Die, Typed
  <2>3. CASE ~Die
    <3>1. GateTyped'
      <4>1. pipe # <<>> /\ pipe' = Tail(pipe) /\ UNCHANGED <<gate, gs, replies>>
        BY <1>13, <2>3 DEF Crash, CommandFails
      <4>2. pipe' \in Seq(Commands)
        BY <1>0, <4>1 DEF GateTyped
      <4> QED BY <1>0, <4>1, <4>2 DEF GateTyped
    <3> QED BY <1>0, <1>13, <2>1, <2>3, <3>1 DEF Crash, CommandFails, Typed
  <2> QED BY <2>2, <2>3
<1>14. CASE Stop \/ Exit
  <2>1. GateTyped' /\ upsets' \in SUBSET Upsets
    BY <1>0, <1>14 DEF Stop, Exit, Upset, Upsets, GateTyped
  <2> QED BY <1>0, <1>14, <2>1 DEF Stop, Exit, Typed
<1>15. CASE Tick
  <2>1. StoreTypeOK'
    BY <1>0, <1>15 DEF Tick, Age, Less, StoreTypeOK
  <2>2. SocketsTyped'
    BY <1>0, <1>15 DEF Tick, SocketsTyped
  <2> QED BY <1>0, <1>15, <2>1, <2>2 DEF Tick, Typed
<1>16. CASE UNCHANGED vars
  BY <1>0, <1>16 DEF vars, Typed
<1> QED
  BY <1>1, <1>2, <1>3, <1>4, <1>5, <1>6, <1>7, <1>8, <1>9, <1>10, <1>11, <1>12, <1>13,
     <1>14, <1>15, <1>16 DEF Next, PageStep, GatewayStep

\* Every variable keeps its type: no member opens more sockets than there are,
\* and no interval beats for one that was not opened.
THEOREM TypeCorrect == Spec => []TypeOK
<1> QED BY TypedMeans, TypedInit, TypedStep, PTL DEF Spec

-----------------------------------------------------------------------------
(* The commands in the pipe *)

LEMMA Sending ==
    ASSUME pipe \in Seq(Commands), NEW s \in Sockets, NEW op \in {"join", "beat", "leave"},
           pipe' = Sent(op, s)
    PROVE  /\ Len(pipe) \in Nat /\ Len(pipe') = Len(pipe) + 1
           /\ pipe'[Len(pipe) + 1].op = op /\ pipe'[Len(pipe) + 1].s = s
           /\ \A i \in 1 .. Len(pipe) : pipe'[i] = pipe[i]
           /\ Len(pipe') \in CommandsOf(Owner(s))'
           /\ \A m : m # Owner(s) => CommandsOf(m)' = CommandsOf(m)
<1>1. /\ Len(pipe) \in Nat /\ Len(pipe') = Len(pipe) + 1
      /\ pipe'[Len(pipe) + 1].op = op /\ pipe'[Len(pipe) + 1].s = s
      /\ \A i \in 1 .. Len(pipe) : pipe'[i] = pipe[i]
  BY DEF Sent, Commands
<1>2. Len(pipe') \in CommandsOf(Owner(s))'
  BY <1>1 DEF CommandsOf, Owner
<1>3. ASSUME NEW m, m # Owner(s) PROVE CommandsOf(m)' = CommandsOf(m)
  BY <1>1, <1>3 DEF CommandsOf, Owner
<1> QED BY <1>1, <1>2, <1>3

LEMMA Running ==
    ASSUME pipe \in Seq(Commands), pipe # <<>>, pipe' = Tail(pipe)
    PROVE  /\ Len(pipe) \in Nat \ {0} /\ Len(pipe') = Len(pipe) - 1
           /\ \A i \in 1 .. Len(pipe') : pipe'[i] = pipe[i + 1]
           /\ Head(pipe) = pipe[1] /\ pipe[1] \in Commands
           /\ \A m : \A i : i \in CommandsOf(m)' <=> i + 1 \in CommandsOf(m) /\ i \in 1 .. Len(pipe')
<1>1. /\ Len(pipe) \in Nat \ {0} /\ Len(pipe') = Len(pipe) - 1
      /\ \A i \in 1 .. Len(pipe') : pipe'[i] = pipe[i + 1]
      /\ Head(pipe) = pipe[1] /\ pipe[1] \in Commands
  OBVIOUS
<1>2. ASSUME NEW m, NEW i
      PROVE  i \in CommandsOf(m)' <=> i + 1 \in CommandsOf(m) /\ i \in 1 .. Len(pipe')
  BY <1>1 DEF CommandsOf, Owner
<1> QED BY <1>1, <1>2

-----------------------------------------------------------------------------
(* Nobody comes back *)

GhostFree(m) ==
    ~Connected(m) =>
        IF CommandsOf(m) = {}
        THEN m \notin ids /\ keyTtl[m] = 0
        ELSE \E i \in CommandsOf(m) : /\ pipe[i].op = "leave"
                                      /\ \A j \in CommandsOf(m) : j <= i

LEMMA GhostFreeStep ==
    ASSUME Typed, NEW m \in Members, GhostFree(m), CalmStep
    PROVE  GhostFree(m)'
<1>0. pipe \in Seq(Commands) /\ gs \in [Sockets -> {"none", "open", "gone"}]
  BY DEF Typed, GateTyped
<1>1. CASE UNCHANGED <<ids, keyTtl, gs, pipe>>
  BY <1>1 DEF GhostFree, Connected, CommandsOf
<1>2. ASSUME NEW s \in Sockets, Connection(s) \/ OnHeartbeat(s), Owner(s) = m
      PROVE  Connected(m)'
  <2>1. gs'[s] = "open"
    BY <1>0, <1>2 DEF Connection, OnHeartbeat
  <2>2. PICK i \in 1 .. MaxSockets : s = <<m, i>>
    BY <1>2 DEF Sockets, Owner
  <2> QED BY <2>1, <2>2 DEF Connected
<1>3. ASSUME NEW s \in Sockets, OnGone(s), Owner(s) = m PROVE GhostFree(m)'
  <2>1. pipe' = Sent("leave", s)
    BY <1>3 DEF OnGone
  <2>2. Len(pipe') \in CommandsOf(m)' /\ pipe'[Len(pipe')].op = "leave"
    BY <1>0, <1>3, <2>1, Sending
  <2>3. \A j \in CommandsOf(m)' : j <= Len(pipe')
    BY DEF CommandsOf
  <2> QED BY <2>2, <2>3 DEF GhostFree
<1>4. ASSUME NEW s \in Sockets, Connection(s) \/ OnHeartbeat(s) \/ OnGone(s), Owner(s) # m
      PROVE  GhostFree(m)'
  <2>1. PICK op \in {"join", "beat", "leave"} : pipe' = Sent(op, s)
    BY <1>4 DEF Connection, OnHeartbeat, OnGone
  <2>2. /\ CommandsOf(m)' = CommandsOf(m)
        /\ \A i \in CommandsOf(m) : pipe'[i] = pipe[i]
    BY <1>0, <1>4, <2>1, Sending DEF CommandsOf
  <2>3. \A i \in 1 .. MaxSockets : gs'[<<m, i>>] = gs[<<m, i>>]
    BY <1>0, <1>4 DEF Connection, OnHeartbeat, OnGone, Sockets, Owner
  <2>4. UNCHANGED <<ids, keyTtl>>
    BY <1>4 DEF Connection, OnHeartbeat, OnGone, storeVars
  <2> QED BY <2>2, <2>3, <2>4 DEF GhostFree, Connected
<1>5. CASE Execute
  <2> SUFFICES ASSUME ~Connected(m)' PROVE GhostFree(m)'
    BY DEF GhostFree
  <2>1. ~Connected(m)
    BY <1>5 DEF Execute, Connected
  <2>2. pipe # <<>> /\ pipe' = Tail(pipe)
    BY <1>5 DEF Execute
  <2>3. /\ Len(pipe) \in Nat \ {0} /\ Len(pipe') = Len(pipe) - 1
        /\ \A i \in 1 .. Len(pipe') : pipe'[i] = pipe[i + 1]
        /\ Head(pipe) = pipe[1] /\ pipe[1] \in Commands
        /\ \A i : i \in CommandsOf(m)' <=> i + 1 \in CommandsOf(m) /\ i \in 1 .. Len(pipe')
    BY <1>0, <2>2, Running
  <2>4. CASE CommandsOf(m) = {}
    <3>1. Owner(pipe[1].s) # m
      BY <2>3, <2>4 DEF CommandsOf
    <3>2. m \notin ids' /\ keyTtl'[m] = 0
      BY <1>5, <2>1, <2>3, <2>4, <3>1
      DEF GhostFree, Execute, RunTouch, RunRemove, TouchMember, RemoveMember, Typed, StoreTypeOK
    <3> QED BY <2>3, <2>4, <3>2 DEF GhostFree
  <2>5. ASSUME NEW i \in CommandsOf(m), pipe[i].op = "leave", \A j \in CommandsOf(m) : j <= i
        PROVE  GhostFree(m)'
    <3>1. i \in 1 .. Len(pipe) /\ Owner(pipe[i].s) = m
      BY DEF CommandsOf
    <3>2. CASE i = 1
      <4>1. CommandsOf(m)' = {}
        BY <2>3, <2>5, <3>2 DEF CommandsOf
      <4>2. m \notin ids' /\ keyTtl'[m] = 0
        BY <1>5, <2>3, <2>5, <3>1, <3>2
        DEF Execute, RunTouch, RunRemove, RemoveMember, Typed, StoreTypeOK
      <4> QED BY <4>1, <4>2 DEF GhostFree
    <3>3. CASE i # 1
      <4>1. i - 1 \in 1 .. Len(pipe') /\ (i - 1) + 1 = i
        BY <2>3, <3>1, <3>3
      <4>2. i - 1 \in CommandsOf(m)' /\ pipe'[i - 1].op = "leave"
        BY <2>3, <2>5, <4>1
      <4>3. ASSUME NEW j \in CommandsOf(m)' PROVE j <= i - 1
        <5>1. j + 1 \in CommandsOf(m) /\ j \in 1 .. Len(pipe')
          BY <2>3
        <5> QED BY <2>3, <2>5, <3>1, <5>1
      <4> QED BY <4>2, <4>3 DEF GhostFree
    <3> QED BY <3>2, <3>3
  <2> QED BY <2>1, <2>4, <2>5 DEF GhostFree
<1>6. CASE Tick
  <2>1. pipe = <<>> /\ pipe' = pipe /\ gs' = gs
    BY <1>6 DEF Tick, gateVars
  <2>2. CommandsOf(m) = {} /\ CommandsOf(m)' = {}
    BY <2>1 DEF CommandsOf
  <2>3. m \notin ids /\ keyTtl[m] = 0 => m \notin ids' /\ keyTtl'[m] = 0
    BY <1>6 DEF Tick, Age, Less
  <2>4. Connected(m)' <=> Connected(m)
    BY <2>1 DEF Connected
  <2> QED BY <2>2, <2>3, <2>4 DEF GhostFree
<1>7. ASSUME NEW n \in Members, Mount(n) \/ Rerun(n) \/ Disable(n) \/ SendHeartbeat(n)
      PROVE  UNCHANGED <<ids, keyTtl, gs, pipe>>
  BY <1>7 DEF Mount, Rerun, Disable, SendHeartbeat, storeVars, gateVars
<1>8. ASSUME NEW s \in Sockets, OnOpen(s) \/ Ends(s) PROVE UNCHANGED <<ids, keyTtl, gs, pipe>>
  BY <1>8 DEF OnOpen, Ends, storeVars, gateVars
<1>9. CASE Halts \/ UNCHANGED Kept
  BY <1>1, <1>9 DEF Halts, Kept, storeVars
<1> QED
  BY <1>1, <1>2, <1>3, <1>4, <1>5, <1>6, <1>7, <1>8, <1>9 DEF CalmStep, GhostFree

GhostInv == Typed /\ NoGhost

\* Joins and heartbeats that are in flight when the last socket of a member
\* closes are followed by the command that removes the member.
THEOREM NoGhostReturns == Spec => []NoGhost
<1>1. Init => GhostInv
  <2> SUFFICES ASSUME Init PROVE NoGhost
    BY TypedInit DEF GhostInv
  <2>1. ASSUME NEW m \in Members PROVE CommandsOf(m) = {} /\ m \notin ids /\ keyTtl[m] = 0
    BY DEF Init, StoreInit, CommandsOf
  <2> QED BY <2>1 DEF NoGhost
<1>2. GhostInv /\ [Next]_vars => GhostInv'
  <2> SUFFICES ASSUME GhostInv, [Next]_vars PROVE GhostInv'
    OBVIOUS
  <2>1. Typed /\ Typed'
    BY TypedStep DEF GhostInv
  <2>2. ASSUME Undisturbed', NEW m \in Members PROVE GhostFree(m)'
    <3>1. Undisturbed /\ CalmStep
      BY <2>2, Calm
    <3>2. GhostFree(m)
      BY <3>1 DEF GhostInv, NoGhost, GhostFree
    <3> QED BY <2>1, <3>1, <3>2, GhostFreeStep
  <2> QED BY <2>1, <2>2 DEF GhostInv, NoGhost, GhostFree
<1> QED BY <1>1, <1>2, PTL DEF Spec, GhostInv

-----------------------------------------------------------------------------
(* Heartbeats keep their member *)

\* The gateway knows opened sockets only, and removes those that are gone.
Traced ==
    /\ \A s \in Sockets : cs[s] # "none" => s[2] <= made[s[1]]
    /\ \A s \in Sockets : gs[s] # "none" => cs[s] # "none"
    /\ \A i \in 1 .. Len(pipe) : /\ gs[pipe[i].s] # "none"
                                 /\ pipe[i].op = "leave" => gs[pipe[i].s] = "gone"

\* The only socket of a page: its interval beats for it, and does not get ahead
\* of a connection the gateway accepts.
OnlySocket(m) ==
    LET s == <<m, 1>>
    IN made[m] = 1 /\ cs[s] \in {"connecting", "open"} =>
          /\ interval[m] = 1
          /\ cs[s] = "connecting" => since[m] = 0 \/ (gs[s] = "none" /\ gate # "up")

\* What the last command gave the entry has lasted since then, and the interval
\* is not older than it.
Fresh(m) ==
    /\ m \in ids
    /\ keyTtl[m] + since[m] >= Ttl
    /\ idsTtl + since[m] >= Ttl

Alive(m) ==
    LET s == <<m, 1>>
    IN made[m] = 1 /\ cs[s] \in {"connecting", "open"} /\ gs[s] = "open" /\ ~InFlight(m)
       => Fresh(m)

LEMMA TracedStep ==
    ASSUME Typed, Traced, CalmStep
    PROVE  Traced'
<1>0. /\ pipe \in Seq(Commands) /\ gs \in [Sockets -> {"none", "open", "gone"}]
      /\ cs \in [Sockets -> {"none", "connecting", "open", "closing", "closed"}]
      /\ made \in [Members -> 0 .. MaxSockets]
      /\ MaxSockets \in Nat
  BY SocketsAssumption DEF Typed, GateTyped, SocketsTyped
<1>1. \A i \in 1 .. Len(pipe) : pipe[i].s \in Sockets
  <2>1. \A i \in 1 .. Len(pipe) : pipe[i] \in Commands
    BY <1>0, ElementOfSeq
  <2> QED BY <2>1 DEF Commands
<1> DEFINE SameGate == UNCHANGED <<gs, pipe>>
           SamePage == UNCHANGED <<cs, made>>
<1>2. ASSUME NEW m \in Members, Mount(m) \/ Rerun(m) PROVE Traced'
  <2>1. SameGate
    BY <1>2 DEF Mount, Rerun, gateVars
  <2>2. made' = [made EXCEPT ![m] = @ + 1]
    BY <1>2 DEF Mount, Rerun, OpenSocket
  <2>3. ASSUME NEW s \in Sockets
        PROVE  /\ cs[s] # "none" => cs'[s] # "none"
               /\ cs[s] = "none" /\ cs'[s] # "none" => s = <<m, made[m] + 1>>
    <3>1. PICK sockets \in {cs, Closed(m)} :
              cs' = [sockets EXCEPT ![<<m, made[m] + 1>>] = "connecting"]
      BY <1>2 DEF Mount, Rerun, OpenSocket
    <3>2. /\ sockets \in [Sockets -> {"none", "connecting", "open", "closing", "closed"}]
          /\ sockets[s] = "none" <=> cs[s] = "none"
      BY <1>0, <3>1 DEF Closed
    <3> QED BY <3>1, <3>2
  <2>4. ASSUME NEW s \in Sockets, cs'[s] # "none" PROVE s[2] <= made'[s[1]]
    <3>1. s[1] \in Members /\ s[2] \in 1 .. MaxSockets
      BY DEF Sockets
    <3>2. cs[s] # "none" => s[2] <= made[s[1]]
      BY DEF Traced
    <3>3. made[s[1]] \in Nat /\ made'[s[1]] >= made[s[1]]
      BY <1>0, <2>2, <3>1
    <3>4. cs[s] = "none" => s[1] = m /\ s[2] = made[m] + 1
      BY <2>3, <2>4
    <3>5. made'[m] = made[m] + 1
      BY <1>0, <2>2
    <3>6. CASE cs[s] = "none"
      BY <3>1, <3>4, <3>5, <3>6
    <3>7. CASE cs[s] # "none"
      <4> DEFINE i == s[2]
                 before == made[s[1]]
                 after == made'[s[1]]
      <4>1. i \in Nat /\ before \in Nat /\ after \in Nat /\ i <= before /\ before <= after
        BY <1>0, <2>2, <3>1, <3>2, <3>3, <3>7
      <4> HIDE DEF i, before, after
      <4>2. i <= after
        BY <4>1
      <4> QED BY <4>2 DEF i, after
    <3> QED BY <3>6, <3>7
  <2> QED BY <2>1, <2>3, <2>4 DEF Traced
<1>3. ASSUME NEW m \in Members, Disable(m) \/ SendHeartbeat(m) PROVE Traced'
  <2>1. SameGate /\ made' = made
    BY <1>3 DEF Disable, SendHeartbeat, gateVars
  <2>2. \A s \in Sockets : cs'[s] = "none" <=> cs[s] = "none"
    BY <1>0, <1>3 DEF Disable, SendHeartbeat, Closed
  <2> QED BY <2>1, <2>2 DEF Traced
<1>4. ASSUME NEW s \in Sockets, OnOpen(s) \/ Ends(s) PROVE Traced'
  <2>1. SameGate /\ made' = made
    BY <1>4 DEF OnOpen, Ends, gateVars
  <2>2. \A t \in Sockets : cs'[t] = "none" <=> cs[t] = "none"
    BY <1>0, <1>4 DEF OnOpen, Ends
  <2> QED BY <2>1, <2>2 DEF Traced
<1>5. ASSUME NEW s \in Sockets, Connection(s) \/ OnHeartbeat(s) \/ OnGone(s) PROVE Traced'
  <2>1. SamePage /\ cs[s] # "none"
    BY <1>5 DEF Connection, OnHeartbeat, OnGone, socketVars, Traced
  <2>2. PICK op \in {"join", "beat", "leave"} : /\ pipe' = Sent(op, s)
                                                /\ gs'[s] # "none"
                                                /\ op = "leave" => gs'[s] = "gone"
    BY <1>0, <1>5 DEF Connection, OnHeartbeat, OnGone
  <2>3. ASSUME NEW t \in Sockets
        PROVE  /\ gs[t] # "none" => gs'[t] # "none"
               /\ gs[t] = "gone" => gs'[t] = "gone"
               /\ gs'[t] # "none" => gs[t] # "none" \/ t = s
    BY <1>0, <1>5 DEF Connection, OnHeartbeat, OnGone
  <2>4. /\ Len(pipe) \in Nat /\ Len(pipe') = Len(pipe) + 1
        /\ pipe'[Len(pipe) + 1].op = op /\ pipe'[Len(pipe) + 1].s = s
        /\ \A i \in 1 .. Len(pipe) : pipe'[i] = pipe[i]
    <3>1. pipe \in Seq(Commands) /\ pipe' = Sent(op, s)
      BY <1>0, <2>2
    <3> HIDE <1>0, <2>2
    <3> QED BY <3>1, Sending
  <2>5. ASSUME NEW i \in 1 .. Len(pipe')
        PROVE  /\ gs'[pipe'[i].s] # "none"
               /\ pipe'[i].op = "leave" => gs'[pipe'[i].s] = "gone"
    <3>1. CASE i = Len(pipe) + 1
      <4>1. pipe'[i].op = op /\ pipe'[i].s = s
        BY <2>4, <3>1
      <4> QED BY <2>2, <4>1
    <3>2. CASE i \in 1 .. Len(pipe)
      BY <1>1, <2>3, <2>4, <3>2 DEF Traced
    <3> QED BY <2>4, <3>1, <3>2
  <2>6. \A t \in Sockets : gs'[t] # "none" => cs'[t] # "none"
    BY <2>1, <2>3 DEF Traced
  <2> QED BY <2>1, <2>5, <2>6 DEF Traced
<1>6. CASE Execute
  <2>1. pipe # <<>> /\ pipe' = Tail(pipe) /\ gs' = gs /\ SamePage
    BY <1>6 DEF Execute, socketVars
  <2>2. /\ Len(pipe) \in Nat \ {0} /\ Len(pipe') = Len(pipe) - 1
        /\ \A i \in 1 .. Len(pipe') : pipe'[i] = pipe[i + 1]
    BY <1>0, <2>1, Running
  <2>3. \A i \in 1 .. Len(pipe') : i + 1 \in 1 .. Len(pipe)
    BY <2>2
  <2> QED BY <2>1, <2>2, <2>3 DEF Traced
<1>7. CASE Tick \/ Halts \/ UNCHANGED Kept
  BY <1>7 DEF Tick, Halts, Kept, gateVars, Traced
<1> QED BY <1>2, <1>3, <1>4, <1>5, <1>6, <1>7 DEF CalmStep

LEMMA OnlySocketStep ==
    ASSUME Typed, Typed', Traced, NEW m \in Members, OnlySocket(m), CalmStep
    PROVE  OnlySocket(m)'
<1> DEFINE t == <<m, 1>>
<1> SUFFICES ASSUME made'[m] = 1, cs'[t] \in {"connecting", "open"}
             PROVE  /\ interval'[m] = 1
                    /\ cs'[t] = "connecting" => since'[m] = 0 \/ (gs'[t] = "none" /\ gate' # "up")
  BY DEF OnlySocket
<1>0. /\ gs \in [Sockets -> {"none", "open", "gone"}]
      /\ cs \in [Sockets -> {"none", "connecting", "open", "closing", "closed"}]
      /\ made \in [Members -> 0 .. MaxSockets] /\ cur \in [Members -> 0 .. MaxSockets]
      /\ interval \in [Members -> 0 .. MaxSockets] /\ since \in [Members -> 0 .. HeartbeatMs]
      /\ cur[m] <= made[m]
      /\ MaxSockets \in Nat
      /\ made'[m] \in 0 .. MaxSockets
  BY SocketsAssumption DEF Typed, GateTyped, SocketsTyped
<1>9. t \in Sockets
  BY <1>0 DEF Sockets
<1>1. ASSUME NEW n \in Members, Mount(n) \/ Rerun(n)
      PROVE  IF n = m THEN interval'[m] = 1 /\ since'[m] = 0
                      ELSE UNCHANGED <<made[m], cs[t], interval[m], since[m], gs, gate>>
  <2>1. CASE n = m
    BY <1>0, <1>1, <2>1 DEF Mount, Rerun, OpenSocket
  <2>2. CASE n # m
    BY <1>0, <1>1, <2>2 DEF Mount, Rerun, OpenSocket, Closed, Sockets, gateVars
  <2> QED BY <2>1, <2>2
<1>2. ASSUME NEW n \in Members, Disable(n)
      PROVE  UNCHANGED <<made[m], cs[t], interval[m], since[m], gs, gate>>
  <2>1. made' = made /\ UNCHANGED <<gs, gate>>
    BY <1>2 DEF Disable, gateVars
  <2>2. ASSUME n = m PROVE FALSE
    <3>1. cur[m] = 1
      BY <1>0, <1>2, <2>1, <2>2 DEF Disable
    <3>2. cs' = [cs EXCEPT ![t] = IF @ \in {"connecting", "open"} THEN "closing" ELSE @]
      BY <1>2, <2>2, <3>1 DEF Disable, Closed
    <3> QED BY <1>0, <1>9, <3>2
  <2> QED BY <1>0, <1>2, <2>1, <2>2 DEF Disable, Closed, Sockets
<1>3. ASSUME NEW n \in Members, SendHeartbeat(n)
      PROVE  /\ UNCHANGED <<made, cs, interval, gs, gate>>
             /\ since'[m] = 0 \/ since'[m] = since[m]
  BY <1>0, <1>3 DEF SendHeartbeat, gateVars
<1>4. ASSUME NEW s \in Sockets, OnOpen(s)
      PROVE  /\ UNCHANGED <<made, interval, since, gs, gate>>
             /\ cs[t] \in {"connecting", "open"}
             /\ cs'[t] = "connecting" => cs[t] = "connecting"
  BY <1>0, <1>4 DEF OnOpen, gateVars
<1>5. ASSUME NEW s \in Sockets, Ends(s)
      PROVE  UNCHANGED <<made[m], cs[t], interval[m], since[m], gs, gate>>
  <2>1. /\ cs' = [cs EXCEPT ![s] = "closed"] /\ cs[s] # "none"
        /\ interval' = [interval EXCEPT ![s[1]] = 0]
        /\ since' = [since EXCEPT ![s[1]] = 0]
        /\ UNCHANGED <<made, gs, gate>>
    BY <1>5 DEF Ends, Owner
  <2>2. ASSUME s[1] = m PROVE FALSE
    <3>1. s[2] \in 1 .. MaxSockets /\ s[2] <= made[m] /\ made[m] = 1
      BY <2>1, <2>2 DEF Traced, Sockets
    <3>2. s = t
      BY <1>0, <2>2, <3>1 DEF Sockets
    <3> QED BY <1>0, <2>1, <3>2
  <2>3. s # t
    BY <2>2
  <2> QED BY <1>0, <2>1, <2>2, <2>3
<1>6. ASSUME NEW s \in Sockets, Connection(s) \/ OnHeartbeat(s) \/ OnGone(s)
      PROVE  /\ UNCHANGED <<made, cs, interval, since, gate>>
             /\ gate = "up" \/ gs'[t] = gs[t] \/ gs[t] # "none"
  BY <1>0, <1>6, <1>9 DEF Connection, OnHeartbeat, OnGone, socketVars
<1>7. CASE Execute \/ UNCHANGED Kept \/ Halts
  <2>1. UNCHANGED <<made, cs, interval, since, gs>> /\ (gate' = gate \/ gate' # "up")
    BY <1>7 DEF Execute, Kept, Halts, socketVars
  <2> QED BY <2>1, <1>7 DEF OnlySocket
<1>8. CASE Tick
  <2>1. /\ UNCHANGED <<made, cs, interval, gs, gate>>
        /\ cs[t] = "connecting" => gs[t] = "none" /\ gate # "up"
    BY <1>0, <1>8 DEF Tick, gateVars, Sockets
  <2> QED BY <2>1 DEF OnlySocket
<1> QED
  BY <1>1, <1>2, <1>3, <1>4, <1>5, <1>6, <1>7, <1>8 DEF CalmStep, OnlySocket

LEMMA AliveStep ==
    ASSUME Typed, Typed', Traced, NEW m \in Members, OnlySocket(m), Alive(m), CalmStep,
           Ttl > HeartbeatMs
    PROVE  Alive(m)'
<1> DEFINE t == <<m, 1>>
<1> SUFFICES ASSUME made'[m] = 1, cs'[t] \in {"connecting", "open"}, gs'[t] = "open",
                    ~InFlight(m)'
             PROVE  Fresh(m)'
  BY DEF Alive
<1>0. /\ gs \in [Sockets -> {"none", "open", "gone"}]
      /\ cs \in [Sockets -> {"none", "connecting", "open", "closing", "closed"}]
      /\ pipe \in Seq(Commands) /\ beats \in SUBSET Sockets
      /\ made \in [Members -> 0 .. MaxSockets] /\ cur \in [Members -> 0 .. MaxSockets]
      /\ interval \in [Members -> 0 .. MaxSockets] /\ since \in [Members -> 0 .. HeartbeatMs]
      /\ cur[m] <= made[m]
      /\ made'[m] \in 0 .. MaxSockets
      /\ ids \in SUBSET Members /\ idsTtl \in Nat /\ keyTtl \in [Members -> Nat]
      /\ MaxSockets \in Nat /\ HeartbeatMs \in Nat \ {0} /\ Ttl \in Nat
  <2>1. MaxSockets \in Nat /\ HeartbeatMs \in Nat \ {0} /\ Ttl \in Nat /\ MaxTtl \in Nat
    BY SocketsAssumption, HeartbeatAssumption, TtlAssumption, MaxTtlAssumption
  <2>2. ids \in SUBSET Members /\ idsTtl \in Nat /\ keyTtl \in [Members -> Nat]
    <3>1. 0 .. MaxTtl \subseteq Nat
      BY <2>1
    <3> QED BY <3>1 DEF Typed, StoreTypeOK
  <2>3. made'[m] \in 0 .. MaxSockets
    BY DEF Typed, SocketsTyped
  <2> QED BY <2>1, <2>2, <2>3 DEF Typed, GateTyped, SocketsTyped
<1>9. t \in Sockets
  BY <1>0 DEF Sockets
<1>10. ASSUME made[m] = 1, cs[t] \in {"connecting", "open"}, gs[t] = "open", ~InFlight(m),
              UNCHANGED <<since[m], keyTtl[m], idsTtl, ids>>
       PROVE  Fresh(m)'
  BY <1>10 DEF Alive, Fresh
<1>11. ASSUME UNCHANGED <<beats, pipe>> PROVE ~InFlight(m)
  BY <1>11 DEF InFlight, CommandsOf
<1>1. ASSUME NEW n \in Members, Mount(n) \/ Rerun(n) PROVE Fresh(m)'
  <2>1. UNCHANGED <<beats, pipe, keyTtl, ids, idsTtl, gs>>
    BY <1>1 DEF Mount, Rerun, gateVars, storeVars
  <2>2. n # m
    <3>1. made'[n] = made[n] + 1
      BY <1>0, <1>1 DEF Mount, Rerun, OpenSocket
    <3>2. made[m] # 0
      BY <1>9, <2>1 DEF Traced
    <3>3. made[m] \in Nat
      BY <1>0
    <3> QED BY <3>1, <3>2, <3>3
  <2>3. made'[m] = made[m] /\ since'[m] = since[m]
    BY <1>0, <1>1, <2>2 DEF Mount, Rerun, OpenSocket
  <2>4. cs'[t] = cs[t]
    BY <1>0, <1>1, <1>9, <2>2 DEF Mount, Rerun, OpenSocket, Closed
  <2> QED BY <1>10, <1>11, <2>1, <2>3, <2>4
<1>2. ASSUME NEW n \in Members, Disable(n) PROVE Fresh(m)'
  <2>1. UNCHANGED <<beats, pipe, keyTtl, ids, idsTtl, gs, made>>
    BY <1>2 DEF Disable, gateVars, storeVars
  <2>2. ASSUME n = m PROVE FALSE
    <3>1. cur[m] = 1
      BY <1>0, <1>2, <2>1, <2>2 DEF Disable
    <3>2. cs' = [cs EXCEPT ![t] = IF @ \in {"connecting", "open"} THEN "closing" ELSE @]
      BY <1>2, <2>2, <3>1 DEF Disable, Closed
    <3> QED BY <1>0, <1>9, <3>2
  <2>3. cs'[t] = cs[t] /\ since'[m] = since[m]
    BY <1>0, <1>2, <1>9, <2>2 DEF Disable, Closed
  <2> QED BY <1>10, <1>11, <2>1, <2>3
<1>3. ASSUME NEW n \in Members, SendHeartbeat(n) PROVE Fresh(m)'
  <2>1. UNCHANGED <<pipe, keyTtl, ids, idsTtl, gs, made, cs, interval>>
    BY <1>3 DEF SendHeartbeat, gateVars, storeVars
  <2>2. beats \subseteq beats'
    BY <1>3 DEF SendHeartbeat, Beats
  <2>3. ~InFlight(m)
    BY <2>1, <2>2 DEF InFlight, CommandsOf
  <2>4. ASSUME n = m PROVE FALSE
    <3>1. interval[m] = 1 /\ since[m] = HeartbeatMs
      BY <1>3, <2>1, <2>4 DEF SendHeartbeat, OnlySocket
    <3>2. cs[t] = "open"
      BY <1>0, <2>1, <3>1 DEF OnlySocket
    <3>3. t \in beats'
      BY <1>3, <2>1, <2>4, <3>1, <3>2 DEF SendHeartbeat, Beats
    <3> QED BY <3>3 DEF InFlight, Owner
  <2>5. since'[m] = since[m]
    BY <1>0, <1>3, <2>4 DEF SendHeartbeat
  <2> QED BY <1>10, <2>1, <2>3, <2>5
<1>4. ASSUME NEW s \in Sockets, OnOpen(s) PROVE Fresh(m)'
  <2>1. UNCHANGED <<pipe, keyTtl, ids, idsTtl, gs, made, since>>
    BY <1>4 DEF OnOpen, gateVars, storeVars
  <2>2. beats \subseteq beats'
    BY <1>4 DEF OnOpen, Beats
  <2>3. ~InFlight(m)
    BY <2>1, <2>2 DEF InFlight, CommandsOf
  <2>4. cs[t] \in {"connecting", "open"}
    BY <1>0, <1>4, <1>9 DEF OnOpen
  <2> QED BY <1>10, <2>1, <2>3, <2>4
<1>5. ASSUME NEW s \in Sockets, Ends(s) PROVE Fresh(m)'
  <2>1. /\ cs' = [cs EXCEPT ![s] = "closed"] /\ cs[s] # "none"
        /\ since' = [since EXCEPT ![s[1]] = 0]
        /\ UNCHANGED <<beats, pipe, keyTtl, ids, idsTtl, gs, made>>
    BY <1>5 DEF Ends, Owner, storeVars
  <2>2. ASSUME s[1] = m PROVE FALSE
    <3>1. s[2] \in 1 .. MaxSockets /\ s[2] <= made[m] /\ made[m] = 1
      BY <2>1, <2>2 DEF Traced, Sockets
    <3>2. s = t
      BY <1>0, <2>2, <3>1 DEF Sockets
    <3> QED BY <1>0, <1>9, <2>1, <3>2
  <2>3. cs'[t] = cs[t] /\ since'[m] = since[m]
    BY <1>0, <1>9, <2>1, <2>2
  <2> QED BY <1>10, <1>11, <2>1, <2>3
<1>6. ASSUME NEW s \in Sockets, Connection(s) \/ OnHeartbeat(s) \/ OnGone(s) PROVE Fresh(m)'
  <2>1. UNCHANGED <<keyTtl, ids, idsTtl, made, cs, since>>
    BY <1>6 DEF Connection, OnHeartbeat, OnGone, storeVars, socketVars
  <2>2. PICK op \in {"join", "beat", "leave"} : pipe' = Sent(op, s)
    BY <1>6 DEF Connection, OnHeartbeat, OnGone
  <2>3. /\ Len(pipe') \in CommandsOf(Owner(s))'
        /\ \A n : n # Owner(s) => CommandsOf(n)' = CommandsOf(n)
    BY <1>0, <2>2, Sending
  <2>4. Owner(s) # m
    BY <2>3 DEF InFlight
  <2>5. CommandsOf(m) = {}
    BY <2>3, <2>4 DEF InFlight
  <2>6. \A b \in beats : Owner(b) = m => b \in beats'
    BY <1>6, <2>4 DEF Connection, OnHeartbeat, OnGone, socketVars
  <2>7. ~InFlight(m)
    BY <2>5, <2>6 DEF InFlight
  <2>8. gs[t] = "open"
    BY <1>0, <1>6, <1>9, <2>4 DEF Connection, OnHeartbeat, OnGone, Owner
  <2> QED BY <1>10, <2>1, <2>7, <2>8
<1>7. CASE Execute
  <2>1. UNCHANGED <<gs, cs, made, since, beats>>
    BY <1>7 DEF Execute, socketVars
  <2>2. pipe # <<>> /\ pipe' = Tail(pipe)
    BY <1>7 DEF Execute
  <2>3. /\ Len(pipe) \in Nat \ {0} /\ Len(pipe') = Len(pipe) - 1
        /\ Head(pipe) = pipe[1] /\ pipe[1] \in Commands
        /\ \A i : i \in CommandsOf(m)' <=> i + 1 \in CommandsOf(m) /\ i \in 1 .. Len(pipe')
    BY <1>0, <2>2, Running
  <2> DEFINE c == pipe[1]
  <2>4. c.s \in Sockets /\ gs[c.s] # "none" /\ (c.op = "leave" => gs[c.s] = "gone")
    BY <2>3 DEF Commands, Traced
  <2>5. RunTouch(c) \/ RunRemove(c)
    BY <1>7, <2>3 DEF Execute
  <2>6. since[m] \in Nat
    BY <1>0
  <2>7. CASE Owner(c.s) = m
    <3>1. c.s = t
      <4>1. c.s[1] = m /\ c.s[2] \in 1 .. MaxSockets /\ c.s[2] <= made[m] /\ made[m] = 1
        BY <2>1, <2>4, <2>7 DEF Traced, Sockets, Owner
      <4> QED BY <1>0, <2>4, <4>1 DEF Sockets
    <3>2. TouchMember(m, Ttl)
      BY <2>1, <2>4, <2>5, <2>7, <3>1 DEF RunTouch, RunRemove
    <3>3. m \in ids' /\ keyTtl'[m] = Ttl /\ idsTtl' = Ttl
      BY <1>0, <3>2 DEF TouchMember
    <3> QED BY <1>0, <2>1, <2>6, <3>3 DEF Fresh
  <2>8. CASE Owner(c.s) # m
    <3>1. CommandsOf(m) = {}
      <4>1. ASSUME NEW i \in CommandsOf(m) PROVE FALSE
        <5>1. i \in 1 .. Len(pipe) /\ Owner(pipe[i].s) = m
          BY DEF CommandsOf
        <5>2. i - 1 \in 1 .. Len(pipe') /\ (i - 1) + 1 = i
          BY <2>3, <2>8, <5>1
        <5>3. i - 1 \in CommandsOf(m)'
          BY <2>3, <5>2
        <5> QED BY <5>3 DEF InFlight
      <4> QED BY <4>1
    <3>2. ~InFlight(m)
      BY <2>1, <3>1 DEF InFlight
    <3>3. Fresh(m)
      BY <2>1, <3>2 DEF Alive
    <3>4. Owner(c.s) \in Members
      BY <2>4 DEF Sockets, Owner
    <3>5. m \in ids' /\ keyTtl'[m] = keyTtl[m] /\ (idsTtl' = idsTtl \/ idsTtl' = Ttl)
      BY <1>0, <2>5, <2>8, <3>3, <3>4 DEF RunTouch, RunRemove, TouchMember, RemoveMember, Fresh
    <3> QED BY <1>0, <2>1, <2>6, <3>3, <3>5 DEF Fresh
  <2> QED BY <2>7, <2>8
<1>8. CASE Tick
  <2>1. UNCHANGED <<pipe, gs, cs, made, beats, interval>>
    BY <1>8 DEF Tick, gateVars
  <2>2. Fresh(m) /\ cs[t] = "open"
    <3>1. Fresh(m)
      BY <1>11, <2>1 DEF Alive
    <3>2. cs[t] # "connecting"
      BY <1>8, <1>9, <2>1 DEF Tick
    <3> QED BY <2>1, <3>1, <3>2
  <2>3. interval[m] = 1
    BY <2>1, <2>2 DEF OnlySocket
  <2>4. since[m] < HeartbeatMs /\ since'[m] = since[m] + 1 /\ since[m] \in Nat
    BY <1>0, <1>8, <2>3 DEF Tick
  <2>5. keyTtl[m] > 0 /\ idsTtl > 0 /\ keyTtl[m] \in Nat
    BY <1>0, <2>2, <2>4 DEF Fresh
  <2>6. idsTtl' = idsTtl - 1 /\ keyTtl'[m] = keyTtl[m] - 1
    BY <1>0, <1>8, <2>5 DEF Tick, Age, Less
  <2>7. idsTtl' > 0
    BY <1>0, <2>2, <2>4, <2>6 DEF Fresh
  <2>8. ids' = ids
    BY <1>8, <2>7 DEF Tick, Age
  <2> QED BY <1>0, <2>2, <2>4, <2>5, <2>6, <2>8 DEF Fresh
<1>12. CASE Halts \/ UNCHANGED Kept
  BY <1>10, <1>11, <1>12 DEF Halts, Kept, storeVars
<1> QED BY <1>1, <1>2, <1>3, <1>4, <1>5, <1>6, <1>7, <1>8, <1>12 DEF CalmStep

AliveInv ==
    /\ Typed
    /\ Undisturbed /\ Ttl > HeartbeatMs
       => Traced /\ \A m \in Members : OnlySocket(m) /\ Alive(m)

\* As long as neither the route nor a fault takes a hand, a member whose page
\* has only this socket stays in the roster between its heartbeats, whatever
\* the others do to the life of the set.
THEOREM HeartbeatsKeep == Spec => []KeptAlive
<1>1. Init => AliveInv
  <2> SUFFICES ASSUME Init PROVE Traced /\ \A m \in Members : OnlySocket(m) /\ Alive(m)
    BY TypedInit DEF AliveInv
  <2>1. Traced
    BY DEF Init, Traced
  <2>2. \A m \in Members : made[m] = 0
    BY DEF Init
  <2> QED BY <2>1, <2>2 DEF OnlySocket, Alive
<1>2. AliveInv /\ [Next]_vars => AliveInv'
  <2> SUFFICES ASSUME AliveInv, [Next]_vars PROVE AliveInv'
    OBVIOUS
  <2>1. Typed /\ Typed'
    BY TypedStep DEF AliveInv
  <2>2. ASSUME Undisturbed', Ttl > HeartbeatMs
        PROVE  Traced' /\ \A m \in Members : OnlySocket(m)' /\ Alive(m)'
    <3>1. Undisturbed /\ CalmStep
      BY <2>2, Calm
    <3>2. Traced /\ \A m \in Members : OnlySocket(m) /\ Alive(m)
      BY <2>2, <3>1 DEF AliveInv
    <3>3. Traced'
      BY <2>1, <3>1, <3>2, TracedStep
    <3>4. ASSUME NEW m \in Members PROVE OnlySocket(m)' /\ Alive(m)'
      BY <2>1, <2>2, <3>1, <3>2, OnlySocketStep, AliveStep
    <3> QED BY <3>3, <3>4
  <2> QED BY <2>1, <2>2 DEF AliveInv
<1>3. AliveInv => KeptAlive
  <2> SUFFICES ASSUME AliveInv, Undisturbed, Ttl > HeartbeatMs, NEW m \in Members,
                      made[m] = 1, cs[<<m, 1>>] = "open", gs[<<m, 1>>] = "open", ~InFlight(m)
               PROVE  Listed(m)
    BY DEF KeptAlive
  <2>1. Fresh(m) /\ interval[m] = 1
    BY DEF AliveInv, Alive, OnlySocket
  <2>2. since[m] \in 0 .. HeartbeatMs /\ keyTtl[m] \in Nat
    BY MaxTtlAssumption DEF AliveInv, Typed, SocketsTyped, StoreTypeOK
  <2> QED
    BY <2>1, <2>2, HeartbeatAssumption, TtlAssumption, MaxTtlAssumption DEF Fresh, Listed
<1> QED BY <1>1, <1>2, <1>3, PTL DEF Spec

-----------------------------------------------------------------------------
(* Positions in a queue *)

\* Where a queue holds one of the things in X.
At(q, X) == {i \in 1 .. Len(q) : q[i] \in X}

LEMMA PushedAt ==
    ASSUME NEW T, NEW q \in Seq(T), NEW x \in T, NEW X
    PROVE  /\ Append(q, x) \in Seq(T)
           /\ At(Append(q, x), X) = At(q, X) \cup (IF x \in X THEN {Len(q) + 1} ELSE {})
           /\ Len(q) \in Nat /\ \A i \in At(q, X) : i \in Nat /\ i < Len(q) + 1
<1>1. /\ Append(q, x) \in Seq(T)
      /\ Len(q) \in Nat /\ Len(Append(q, x)) = Len(q) + 1
      /\ \A i \in 1 .. Len(q) : Append(q, x)[i] = q[i]
      /\ Append(q, x)[Len(q) + 1] = x
  OBVIOUS
<1> QED BY <1>1 DEF At

LEMMA PoppedAt ==
    ASSUME NEW T, NEW q \in Seq(T), q # <<>>, NEW X
    PROVE  /\ \A i \in At(Tail(q), X) : i \in Nat /\ i >= 1 /\ i + 1 \in At(q, X)
           /\ \A i \in At(q, X) : /\ i \in Nat /\ i >= 1
                                  /\ i # 1 => i - 1 \in At(Tail(q), X)
           /\ 1 \in At(q, X) <=> Head(q) \in X
<1>1. /\ Len(q) \in Nat \ {0} /\ Len(Tail(q)) = Len(q) - 1
      /\ \A i \in 1 .. Len(Tail(q)) : Tail(q)[i] = q[i + 1]
      /\ Head(q) = q[1]
  OBVIOUS
<1> QED BY <1>1 DEF At

\* Two messages in a row.
LEMMA PushedTwo ==
    ASSUME NEW T, NEW q \in Seq(T), NEW x \in T, NEW y \in T
    PROVE  /\ q \o <<x>> \o <<>> = Append(q, x)
           /\ q \o <<x>> \o <<y>> = Append(Append(q, x), y)
OBVIOUS

-----------------------------------------------------------------------------
(* One socket each *)

Sock(m) == <<m, 1>>
OneEach == \A m \in Members : made[m] <= 1

\* The gateway sends to m.
Up(m) == gs[Sock(m)] = "open" /\ cs[Sock(m)] \in {"connecting", "open"}

JoinOf(m) == {c \in Commands : c.op = "join" /\ Owner(c.s) = m}
LeaveOf(m) == {c \in Commands : c.op = "leave" /\ Owner(c.s) = m}

\* A member that the gateway sends to is listed from the moment its join has
\* run: no gap between two heartbeats is long enough for its entry to expire.
Here(m) == Up(m) /\ At(pipe, JoinOf(m)) = {} => Listed(m)

LEMMA OnlyOne ==
    ASSUME Typed, Traced, OneEach, NEW s \in Sockets, cs[s] # "none" \/ gs[s] # "none"
    PROVE  /\ Owner(s) \in Members /\ s = Sock(Owner(s)) /\ made[Owner(s)] = 1
           /\ 1 \in 1 .. MaxSockets
<1>1. s[1] \in Members /\ s[2] \in 1 .. MaxSockets /\ s = <<s[1], s[2]>>
  BY DEF Sockets
<1>2. cs[s] # "none" /\ s[2] <= made[s[1]]
  BY DEF Traced
<1>3. made[s[1]] \in 0 .. MaxSockets /\ made[s[1]] <= 1 /\ MaxSockets \in Nat
  BY <1>1, SocketsAssumption DEF Typed, SocketsTyped, OneEach
<1>4. s[2] = 1 /\ made[s[1]] = 1
  BY <1>1, <1>2, <1>3
<1> QED BY <1>1, <1>3, <1>4 DEF Owner, Sock

\* What the gateway sends goes to the end of the pipe.
LEMMA SentAt ==
    ASSUME Typed, NEW s \in Sockets, NEW op \in {"join", "beat", "leave"}, pipe' = Sent(op, s),
           NEW m
    PROVE  /\ Len(pipe) \in Nat
           /\ At(pipe', JoinOf(m)) = At(pipe, JoinOf(m))
                  \cup (IF op = "join" /\ Owner(s) = m THEN {Len(pipe) + 1} ELSE {})
           /\ At(pipe', LeaveOf(m)) = At(pipe, LeaveOf(m))
                  \cup (IF op = "leave" /\ Owner(s) = m THEN {Len(pipe) + 1} ELSE {})
           /\ \A i \in At(pipe, JoinOf(m)) : i \in Nat /\ i < Len(pipe) + 1
<1> DEFINE c == [op |-> op, s |-> s]
<1>1. c \in Commands /\ c.op = op /\ c.s = s /\ pipe \in Seq(Commands) /\ pipe' = Append(pipe, c)
  BY DEF Commands, Sent, Typed, GateTyped
<1>2. /\ c \in JoinOf(m) <=> op = "join" /\ Owner(s) = m
      /\ c \in LeaveOf(m) <=> op = "leave" /\ Owner(s) = m
  BY <1>1 DEF JoinOf, LeaveOf
<1> HIDE DEF c
<1> QED BY <1>1, <1>2, PushedAt

LEMMA SockIn ==
    MaxSockets # 0 => \A m \in Members : Sock(m) \in Sockets /\ Owner(Sock(m)) = m
BY SocketsAssumption DEF Sock, Sockets, Owner

\* The cleanup closes this socket and no other.
LEMMA ClosedAt ==
    ASSUME Typed, NEW n \in Members, NEW t \in Sockets
    PROVE  /\ Closed(n) \in [Sockets -> {"none", "connecting", "open", "closing", "closed"}]
           /\ t # <<n, cur[n]>> => Closed(n)[t] = cs[t]
           /\ t = <<n, cur[n]>> => Closed(n)[t] \notin {"connecting", "open"}
           /\ Closed(n)[t] \in {"connecting", "open", "none"} => Closed(n)[t] = cs[t]
<1> DEFINE new == IF cs[<<n, cur[n]>>] \in {"connecting", "open"} THEN "closing"
                                                               ELSE cs[<<n, cur[n]>>]
<1>1. /\ cs \in [Sockets -> {"none", "connecting", "open", "closing", "closed"}]
      /\ Closed(n) = [cs EXCEPT ![<<n, cur[n]>>] = new]
  BY DEF Typed, SocketsTyped, Closed
<1>2. t = <<n, cur[n]>> => Closed(n)[t] = new
  BY <1>1
<1>3. t # <<n, cur[n]>> => Closed(n)[t] = cs[t]
  BY <1>1
<1>4. Closed(n) \in [Sockets -> {"none", "connecting", "open", "closing", "closed"}]
  BY <1>1
<1> QED BY <1>1, <1>2, <1>3, <1>4

LEMMA HereStep ==
    ASSUME Typed, Typed', Traced, Traced', OneEach, OneEach', MaxSockets # 0,
           NEW m \in Members, OnlySocket(m), Alive(m), Here(m), CalmStep, Ttl > HeartbeatMs
    PROVE  Here(m)'
<1> DEFINE t == Sock(m)
<1>t. t \in Sockets /\ Owner(t) = m
  BY SockIn
<1> SUFFICES ASSUME Up(m)', At(pipe', JoinOf(m)) = {} PROVE Listed(m)'
  BY DEF Here
<1>0. /\ gs \in [Sockets -> {"none", "open", "gone"}]
      /\ cs \in [Sockets -> {"none", "connecting", "open", "closing", "closed"}]
      /\ pipe \in Seq(Commands)
      /\ made \in [Members -> 0 .. MaxSockets]
      /\ ids \in SUBSET Members /\ keyTtl \in [Members -> 0 .. MaxTtl]
      /\ MaxTtl \in Nat /\ MaxSockets \in Nat /\ HeartbeatMs \in Nat \ {0} /\ Ttl \in 1 .. MaxTtl
  BY SocketsAssumption, HeartbeatAssumption, TtlAssumption, MaxTtlAssumption
     DEF Typed, StoreTypeOK, GateTyped, SocketsTyped
<1>10. ASSUME Up(m), UNCHANGED <<pipe, ids, keyTtl>> PROVE Listed(m)'
  BY <1>10 DEF Here, Listed
<1>1. ASSUME NEW n \in Members, Mount(n) \/ Rerun(n) PROVE Listed(m)'
  <2>1. /\ UNCHANGED <<pipe, ids, keyTtl, gs>> /\ made' = [made EXCEPT ![n] = @ + 1]
        /\ \E sockets \in {cs, Closed(n)} :
               cs' = [sockets EXCEPT ![<<n, made[n] + 1>>] = "connecting"]
    BY <1>1 DEF Mount, Rerun, OpenSocket, gateVars, storeVars
  <2>2. made[n] = 0
    <3>1. made'[n] = made[n] + 1 /\ made'[n] <= 1 /\ made[n] \in Nat
      BY <1>0, <2>1 DEF OneEach
    <3> QED BY <3>1
  <2>3. gs[t] # "none"
    BY <2>1 DEF Up
  <2>4. n # m
    BY <1>t, <2>2, <2>3, OnlyOne
  <2>5. \A i : <<n, i>> # t
    BY <2>4 DEF Sock
  <2>6. Closed(n)[t] = cs[t] /\ Closed(n) \in [Sockets -> {"none", "connecting", "open",
       "closing", "closed"}]
    BY <1>t, <2>5, ClosedAt
  <2>7. cs'[t] = cs[t]
    BY <1>0, <1>t, <2>1, <2>5, <2>6
  <2> QED BY <1>10, <2>1, <2>7 DEF Up
<1>2. ASSUME NEW n \in Members, Disable(n) \/ SendHeartbeat(n) PROVE Listed(m)'
  <2>1. /\ UNCHANGED <<pipe, ids, keyTtl, gs>>
        /\ cs' = cs \/ cs' = Closed(n)
    BY <1>2 DEF Disable, SendHeartbeat, gateVars, storeVars
  <2>2. Up(m)
    BY <1>t, <2>1, ClosedAt DEF Up
  <2> QED BY <1>10, <2>1, <2>2
<1>3. ASSUME NEW s \in Sockets, OnOpen(s) \/ Ends(s) PROVE Listed(m)'
  <2>1. UNCHANGED <<pipe, ids, keyTtl, gs>>
        /\ (cs' = [cs EXCEPT ![s] = "closed"] \/ (cs[s] = "connecting" /\ cs' = [cs EXCEPT ![s] = "open"]))
    BY <1>3 DEF OnOpen, Ends, gateVars, storeVars
  <2>2. cs[t] \in {"connecting", "open"}
    BY <1>0, <1>t, <2>1 DEF Up
  <2> QED BY <1>10, <2>1, <2>2 DEF Up
<1>4. ASSUME NEW s \in Sockets, Connection(s) \/ OnHeartbeat(s) \/ OnGone(s) PROVE Listed(m)'
  <2>1. UNCHANGED <<ids, keyTtl, cs>> /\ cs[s] # "none"
    BY <1>4 DEF Connection, OnHeartbeat, OnGone, storeVars, socketVars, Traced
  <2>2. PICK op \in {"join", "beat", "leave"} :
            /\ pipe' = Sent(op, s)
            /\ op = "join" <=> Connection(s)
    BY <1>4 DEF Connection, OnHeartbeat, OnGone
  <2>3. At(pipe, JoinOf(m)) = {} /\ ~(op = "join" /\ Owner(s) = m)
    <3>1. At(pipe', JoinOf(m)) = At(pipe, JoinOf(m))
              \cup (IF op = "join" /\ Owner(s) = m THEN {Len(pipe) + 1} ELSE {})
      BY <2>2, SentAt
    <3> QED BY <3>1
  <2>4. s = Sock(Owner(s))
    BY <2>1, OnlyOne
  <2>5. gs[t] = "open"
    <3>1. CASE Connection(s)
      <4>1. s # t
        BY <1>t, <2>2, <2>3, <3>1
      <4> QED BY <1>0, <1>t, <3>1, <4>1 DEF Connection, Up
    <3>2. CASE OnHeartbeat(s) \/ OnGone(s)
      BY <1>0, <1>t, <3>2 DEF OnHeartbeat, OnGone, Up
    <3> QED BY <1>4, <3>1, <3>2
  <2> QED BY <2>1, <2>3, <2>5 DEF Here, Up, Listed
<1>5. CASE Execute
  <2> DEFINE c == Head(pipe)
  <2>1. UNCHANGED <<gs, cs>> /\ pipe # <<>> /\ pipe' = Tail(pipe) /\ (RunTouch(c) \/ RunRemove(c))
    BY <1>5 DEF Execute, socketVars
  <2>2. /\ Up(m) /\ c \in Commands /\ c.s \in Sockets /\ gs[c.s] # "none"
        /\ c.op = "leave" => gs[c.s] = "gone"
    BY <1>0, <2>1, Running DEF Up, Traced, Commands
  <2>3. c.s = Sock(Owner(c.s)) /\ Owner(c.s) \in Members
    BY <2>2, OnlyOne
  <2>4. CASE Owner(c.s) = m
    <3>1. RunTouch(c)
      BY <2>1, <2>2, <2>3, <2>4 DEF RunRemove, Up
    <3>2. m \in ids' /\ keyTtl'[m] = Ttl /\ Ttl > 0
      BY <1>0, <2>4, <3>1 DEF RunTouch, TouchMember
    <3> QED BY <3>2 DEF Listed
  <2>5. CASE Owner(c.s) # m
    <3>1. At(pipe, JoinOf(m)) = {}
      <4>1. Head(pipe) \notin JoinOf(m)
        BY <2>5 DEF JoinOf
      <4> QED BY <1>0, <2>1, <4>1, PoppedAt
    <3> QED
      BY <1>0, <2>1, <2>2, <2>3, <2>5, <3>1
         DEF Here, Listed, RunTouch, RunRemove, TouchMember, RemoveMember
  <2> QED BY <2>4, <2>5
<1>6. CASE Tick
  <2>1. UNCHANGED <<gs, cs, made, pipe, beats>> /\ pipe = <<>> /\ beats = {}
    BY <1>6 DEF Tick, gateVars
  <2>2. ~InFlight(m)'
    BY <2>1 DEF InFlight, CommandsOf
  <2>3. gs[t] # "none"
    BY <2>1 DEF Up
  <2>4. made'[m] = 1
    BY <1>t, <2>1, <2>3, OnlyOne
  <2>5. Fresh(m)'
    BY <2>2, <2>4, AliveStep DEF Alive, Up, Sock
  <2>6. since'[m] \in 0 .. HeartbeatMs /\ keyTtl'[m] \in 0 .. MaxTtl
    BY DEF Typed, SocketsTyped, StoreTypeOK
  <2> QED BY <1>0, <2>5, <2>6 DEF Fresh, Listed
<1>7. CASE Halts \/ UNCHANGED Kept
  BY <1>7, <1>10 DEF Halts, Kept, storeVars, Up
<1> QED BY <1>1, <1>2, <1>3, <1>4, <1>5, <1>6, <1>7 DEF CalmStep

-----------------------------------------------------------------------------
(* What a step does to sockets, queues and lists *)

Live == {"connecting", "open"}

\* A step of the pages, of time or of the gateway's end that moves no message:
\* who loses one has no use for it any more.
Idle ==
    /\ UNCHANGED <<gs, pipe, replies, fetch, got, heard>>
    /\ \A t \in Sockets : gs[t] = "open" /\ cs'[t] \in Live => cs[t] \in Live /\ inbox'[t] = inbox[t]
    /\ \A t \in Sockets : inbox'[t] \in {inbox[t], <<>>}
    /\ synced' \subseteq synced
    /\ \A m \in Members : gs[Sock(m)] = "open" /\ cs'[Sock(m)] \in Live => view'[m] = view[m]

Reads(s) == OnEvent(s) \/ OnWelcome(s)
Fetches(s) == SetMembers(s) \/ FetchFails(s) \/ GetIds(s) \/ GetMembers(s)
Sends(s) == Connection(s) \/ OnHeartbeat(s) \/ OnGone(s)

OneEachStep ==
    \/ Idle
    \/ \E s \in Sockets : Reads(s) \/ Fetches(s) \/ Sends(s) \/ AfterTouch(s) \/ AfterRemove(s)
    \/ Execute

LEMMA OneEachSteps ==
    ASSUME Typed, Typed', Traced, MaxSockets # 0, [Next]_vars, Undisturbed', OneEach'
    PROVE  OneEach /\ OneEachStep
<1>0. /\ gs \in [Sockets -> {"none", "open", "gone"}]
      /\ cs \in [Sockets -> {"none", "connecting", "open", "closing", "closed"}]
      /\ inbox \in [Sockets -> Seq(Messages)]
      /\ made \in [Members -> 0 .. MaxSockets] /\ cur \in [Members -> 0 .. MaxSockets]
      /\ \A m \in Members : cur[m] <= made[m]
      /\ made' \in [Members -> 0 .. MaxSockets]
      /\ view \in [Members -> SUBSET Members]
      /\ MaxSockets \in Nat
  BY SocketsAssumption DEF Typed, GateTyped, SocketsTyped, ViewTyped
<1>t. \A m \in Members : Sock(m) \in Sockets /\ Owner(Sock(m)) = m
  BY SockIn
<1>1. ASSUME NEW n \in Members, Mount(n) \/ Rerun(n) PROVE OneEach /\ OneEachStep
  <2>1. /\ UNCHANGED <<gs, pipe, replies, fetch, got, heard, view>>
        /\ made' = [made EXCEPT ![n] = @ + 1] /\ synced' = synced \ {n}
        /\ inbox' = inbox \/ cur[n] # 0
        /\ \E sockets \in {cs, Closed(n)} :
               cs' = [sockets EXCEPT ![<<n, made[n] + 1>>] = "connecting"]
    BY <1>1 DEF Mount, Rerun, OpenSocket, gateVars
  <2>2. made[n] = 0
    <3>1. made'[n] = made[n] + 1 /\ made'[n] <= 1 /\ made[n] \in Nat
      BY <1>0, <2>1 DEF OneEach
    <3> QED BY <3>1
  <2>3. OneEach
    BY <1>0, <2>1 DEF OneEach
  <2>4. inbox' = inbox
    <3>1. cur[n] \in 0 .. MaxSockets /\ cur[n] <= made[n]
      BY <1>0
    <3> QED BY <2>1, <2>2, <3>1
  <2>5. ASSUME NEW t \in Sockets, gs[t] = "open", cs'[t] \in Live PROVE cs[t] \in Live
    <3>1. cs[t] # "none" /\ t[2] <= made[t[1]]
      BY <2>5 DEF Traced
    <3>2. t # <<n, made[n] + 1>>
      <4>1. ASSUME t = <<n, 1>> PROVE FALSE
        <5>1. t[1] = n /\ t[2] = 1
          BY <4>1
        <5> QED BY <2>2, <3>1, <5>1
      <4> QED BY <2>2, <4>1
    <3>3. cs'[t] = cs[t] \/ cs'[t] = Closed(n)[t]
      BY <1>0, <2>1, <3>2, ClosedAt
    <3> QED BY <2>5, <3>3, ClosedAt DEF Live
  <2> QED BY <2>1, <2>3, <2>4, <2>5 DEF OneEachStep, Idle
<1>2. ASSUME NEW n \in Members, Disable(n) PROVE OneEachStep
  <2>1. /\ UNCHANGED <<gs, pipe, replies, fetch, got, heard>>
        /\ synced' = synced \ {n} /\ cs' = Closed(n)
        /\ inbox' = [inbox EXCEPT ![<<n, cur[n]>>] = <<>>]
        /\ view' = [view EXCEPT ![n] = {}]
        /\ cur[n] # 0 /\ made' = made
    BY <1>2 DEF Disable, gateVars
  <2>2. \A t \in Sockets : inbox'[t] = IF t = <<n, cur[n]>> THEN <<>> ELSE inbox[t]
    BY <1>0, <2>1
  <2>3. ASSUME NEW t \in Sockets, cs'[t] \in Live PROVE cs[t] \in Live /\ inbox'[t] = inbox[t]
    BY <2>1, <2>2, <2>3, ClosedAt DEF Live
  <2>4. ASSUME NEW m \in Members, cs'[Sock(m)] \in Live PROVE view'[m] = view[m]
    <3>1. Sock(m) # <<n, cur[n]>>
      BY <1>t, <2>1, <2>4, ClosedAt DEF Live
    <3>2. ASSUME m = n PROVE FALSE
      <4>1. cur[n] = 1
        <5>1. cur[n] \in 0 .. MaxSockets /\ cur[n] <= made[n] /\ made[n] \in 0 .. MaxSockets
          BY <1>0
        <5>2. made[n] <= 1
          BY <2>1 DEF OneEach
        <5> QED BY <1>0, <2>1, <5>1, <5>2
      <4> QED BY <3>1, <3>2, <4>1 DEF Sock
    <3> QED BY <1>0, <2>1, <3>2
  <2> QED BY <2>1, <2>2, <2>3, <2>4 DEF OneEachStep, Idle
<1>3. ASSUME NEW s \in Sockets, Close(s) PROVE OneEachStep
  <2>1. /\ UNCHANGED <<gs, pipe, replies, fetch, got, heard, synced, view>>
        /\ cs' = [cs EXCEPT ![s] = "closed"]
        /\ inbox' = [inbox EXCEPT ![s] = <<>>]
    BY <1>3 DEF Close, gateVars, viewVars
  <2>2. ASSUME NEW t \in Sockets
        PROVE  /\ inbox'[t] \in {inbox[t], <<>>}
               /\ cs'[t] \in Live => cs[t] \in Live /\ inbox'[t] = inbox[t]
    BY <1>0, <2>1 DEF Live
  <2> QED BY <2>1, <2>2 DEF OneEachStep, Idle
<1>4. ASSUME NEW s \in Sockets, OnOpen(s) PROVE OneEachStep
  <2>1. /\ UNCHANGED <<gs, pipe, replies, fetch, got, heard, synced, view, inbox>>
        /\ cs' = [cs EXCEPT ![s] = "open"] /\ cs[s] = "connecting"
    BY <1>4 DEF OnOpen, gateVars, viewVars
  <2>2. \A t \in Sockets : cs'[t] \in Live => cs[t] \in Live
    BY <1>0, <2>1 DEF Live
  <2> QED BY <2>1, <2>2 DEF OneEachStep, Idle
<1>5. ASSUME UNCHANGED <<gs, pipe, replies, fetch, got, heard, synced, view, inbox, cs>>
      PROVE  OneEachStep
  BY <1>5 DEF OneEachStep, Idle
<1>6. ASSUME made' = made PROVE OneEach
  BY <1>6 DEF OneEach
<1>7. ASSUME NEW m \in Members, SendHeartbeat(m)
      PROVE  UNCHANGED <<gs, pipe, replies, fetch, got, heard, synced, view, inbox, cs, made>>
  BY <1>7 DEF SendHeartbeat, gateVars, viewVars
<1>8. ASSUME NEW s \in Sockets, PageStep(s) PROVE OneEach /\ OneEachStep
  <2>1. made' = made
    BY <1>8 DEF PageStep, OnOpen, OnClose, ConnectionLost, Close, OnEvent, OnWelcome, SetMembers,
                FetchFails, socketVars
  <2>2. OnOpen(s) \/ Close(s) \/ Reads(s) \/ Fetches(s)
    BY <1>8 DEF PageStep, OnClose, ConnectionLost, Reads, Fetches
  <2> QED BY <1>3, <1>4, <1>6, <2>1, <2>2 DEF OneEachStep
<1>9. ASSUME NEW s \in Sockets, RouteStep(s) \/ GatewayStep(s) PROVE OneEach /\ OneEachStep
  <2>1. made' = made
    BY <1>9 DEF RouteStep, GatewayStep, GetIds, GetMembers, Connection, OnHeartbeat, OnGone,
                AfterTouch, AfterRemove, socketVars
  <2> QED BY <1>6, <1>9, <2>1 DEF OneEachStep, RouteStep, GatewayStep, Fetches, Sends
<1>10. ASSUME NEW m \in Members, DELETE(m) \/ \E ttl \in PostTtls : POST(m, ttl) PROVE FALSE
  BY <1>10 DEF DELETE, POST, Upset, Undisturbed
<1>11. CASE Crash \/ CommandFails
  BY <1>11 DEF Crash, CommandFails, Upset, Undisturbed
<1>12. CASE Execute
  <2>1. made' = made
    BY <1>12 DEF Execute, socketVars
  <2> QED BY <1>6, <1>12, <2>1 DEF OneEachStep
<1>13. CASE Stop \/ Exit \/ Tick \/ UNCHANGED vars
  <2>1. UNCHANGED <<gs, pipe, replies, fetch, got, heard, synced, view, inbox, cs, made>>
    BY <1>13 DEF Stop, Exit, Tick, vars, gateVars, socketVars, viewVars
  <2> QED BY <1>5, <1>6, <2>1
<1>14. ASSUME NEW n \in Members, Disable(n) PROVE made' = made
  BY <1>14 DEF Disable
<1> QED
  BY <1>1, <1>2, <1>5, <1>6, <1>7, <1>8, <1>9, <1>10, <1>11, <1>12, <1>13, <1>14 DEF Next

-----------------------------------------------------------------------------
(* What follows what in a queue *)

\* Every X in the queue has a Y behind it, in the queue or further back.
Followed(q, X, Y, behind) ==
    behind \/ \A i \in At(q, X) : \E j \in At(q, Y) : i < j

LEMMA FollowedPushed ==
    ASSUME NEW T, NEW q \in Seq(T), NEW x \in T, NEW X, NEW Y,
           NEW b \in BOOLEAN, NEW c \in BOOLEAN,
           Followed(q, X, Y, b), x \in X => c, b => c \/ x \in Y
    PROVE  Followed(Append(q, x), X, Y, c)
<1>1. /\ Len(q) \in Nat
      /\ At(Append(q, x), X) = At(q, X) \cup (IF x \in X THEN {Len(q) + 1} ELSE {})
      /\ At(Append(q, x), Y) = At(q, Y) \cup (IF x \in Y THEN {Len(q) + 1} ELSE {})
      /\ \A i \in At(q, X) : i \in Nat /\ i < Len(q) + 1
  BY PushedAt
<1>2. CASE c
  BY <1>2 DEF Followed
<1>3. CASE ~c
  <2>1. x \notin X /\ At(Append(q, x), X) = At(q, X)
    BY <1>1, <1>3
  <2>2. ASSUME NEW i \in At(q, X) PROVE \E j \in At(Append(q, x), Y) : i < j
    <3>1. CASE b
      <4>1. Len(q) + 1 \in At(Append(q, x), Y)
        BY <1>1, <1>3, <3>1
      <4> QED BY <1>1, <4>1
    <3>2. CASE ~b
      BY <1>1, <3>2 DEF Followed
    <3> QED BY <3>1, <3>2
  <2> QED BY <2>1, <2>2 DEF Followed
<1> QED BY <1>2, <1>3

LEMMA FollowedPopped ==
    ASSUME NEW T, NEW q \in Seq(T), q # <<>>, NEW X, NEW Y,
           NEW b \in BOOLEAN, NEW c \in BOOLEAN,
           Followed(q, X, Y, b), b => c
    PROVE  /\ Followed(Tail(q), X, Y, c)
           /\ Head(q) \in X => b \/ At(Tail(q), Y) # {}
<1>1. /\ \A i \in At(Tail(q), X) : i \in Nat /\ i >= 1 /\ i + 1 \in At(q, X)
      /\ \A j \in At(q, Y) : /\ j \in Nat /\ j >= 1
                             /\ j # 1 => j - 1 \in At(Tail(q), Y)
      /\ 1 \in At(q, X) <=> Head(q) \in X
  BY PoppedAt
<1>2. CASE b
  BY <1>2 DEF Followed
<1>3. CASE ~b
  <2>1. ASSUME NEW i \in At(Tail(q), X) PROVE \E j \in At(Tail(q), Y) : i < j
    <3>1. i \in Nat /\ i >= 1 /\ i + 1 \in At(q, X)
      BY <1>1
    <3>2. PICK j \in At(q, Y) : i + 1 < j
      BY <1>3, <3>1 DEF Followed
    <3>3. j \in Nat /\ j - 1 \in At(Tail(q), Y)
      BY <1>1, <3>1, <3>2
    <3> QED BY <3>1, <3>2, <3>3
  <2>2. ASSUME Head(q) \in X PROVE At(Tail(q), Y) # {}
    <3>1. PICK j \in At(q, Y) : 1 < j
      BY <1>1, <1>3, <2>2 DEF Followed
    <3> QED BY <1>1, <3>1
  <2> QED BY <2>1, <2>2 DEF Followed
<1> QED BY <1>2, <1>3

\* What is left behind once the head is gone.
LEMMA PoppedStill ==
    ASSUME NEW T, NEW q \in Seq(T), q # <<>>, NEW X
    PROVE  /\ At(Tail(q), X) # {} => At(q, X) # {}
           /\ At(q, X) # {} => Head(q) \in X \/ At(Tail(q), X) # {}
BY PoppedAt

LEMMA PushedStill ==
    ASSUME NEW T, NEW q \in Seq(T), NEW x \in T, NEW X
    PROVE  At(Append(q, x), X) # {} <=> At(q, X) # {} \/ x \in X
BY PushedAt

LEMMA NothingAt == \A X : At(<<>>, X) = {}
BY DEF At

-----------------------------------------------------------------------------
(* The news of a member *)

JoinNews(n) == {c \in Messages : c.type = "join" /\ c.m = n}
LeaveNews(n) == {c \in Messages : c.type = "leave" /\ c.m = n}

IsUp(n) == gs[Sock(n)] = "open"
LeaveSent(n) == At(pipe, LeaveOf(n)) # {}
LeaveRun(n) == At(replies, LeaveOf(n)) # {}

\* A leave of n is sent after its socket has gone ...
LeavesLate(n) ==
    /\ LeaveSent(n) \/ LeaveRun(n) => gs[Sock(n)] = "gone"
    /\ \A t \in Sockets : At(inbox[t], LeaveNews(n)) # {} => gs[Sock(n)] = "gone"

\* ... and overtakes no join: unless n is up, every join has a leave behind it.
JoinsLeave(n) ==
    /\ Followed(pipe, JoinOf(n), LeaveOf(n), IsUp(n))
    /\ Followed(replies, JoinOf(n), LeaveOf(n), IsUp(n) \/ LeaveSent(n))
    /\ \A t \in Sockets :
          Reaches(t) => Followed(inbox[t], JoinNews(n), LeaveNews(n),
                                 IsUp(n) \/ LeaveSent(n) \/ LeaveRun(n))

\* A socket the gateway has not accepted has heard nothing, and only the pages
\* whose list is followed hear anything.
Bare(s) ==
    /\ gs[s] = "none" => fetch[s] = "none" /\ inbox[s] = <<>>
    /\ inbox[s] # <<>> \/ fetch[s] # "none" => Owner(s) \in Watchers

LEMMA QueueTypes ==
    Typed => /\ gs \in [Sockets -> {"none", "open", "gone"}]
             /\ cs \in [Sockets -> {"none", "connecting", "open", "closing", "closed"}]
             /\ pipe \in Seq(Commands) /\ replies \in Seq(Commands)
             /\ inbox \in [Sockets -> Seq(Messages)]
             /\ fetch \in [Sockets -> {"none", "asked", "ids", "answered"}]
             /\ got \in [Sockets -> SUBSET Members]
             /\ view \in [Members -> SUBSET Members]
BY DEF Typed, GateTyped, SocketsTyped, ViewTyped

\* What an answer brings to the pages: its news, and a welcome for the newcomer.
LEMMA ToldTypes ==
    ASSUME NEW s \in Sockets
    PROVE  /\ Owner(s) \in Members
           /\ Told("join", Owner(s)) \in Messages /\ Told("leave", Owner(s)) \in Messages
           /\ Told("welcome", Owner(s)) \in Messages
           /\ \A n : /\ Told("join", Owner(s)) \in JoinNews(n) <=> Owner(s) = n
                     /\ Told("join", Owner(s)) \notin LeaveNews(n)
                     /\ Told("leave", Owner(s)) \in LeaveNews(n) <=> Owner(s) = n
                     /\ Told("leave", Owner(s)) \notin JoinNews(n)
                     /\ Told("welcome", Owner(s)) \notin JoinNews(n)
                     /\ Told("welcome", Owner(s)) \notin LeaveNews(n)
<1>1. Owner(s) \in Members
  BY DEF Owner, Sockets
<1> QED BY <1>1 DEF Told, Messages, JoinNews, LeaveNews

LEMMA BareStep ==
    ASSUME Typed, OneEachStep, NEW s \in Sockets, Bare(s)
    PROVE  Bare(s)'
<1>0. /\ gs \in [Sockets -> {"none", "open", "gone"}]
      /\ inbox \in [Sockets -> Seq(Messages)]
      /\ fetch \in [Sockets -> {"none", "asked", "ids", "answered"}]
  BY QueueTypes
<1>1. ASSUME gs'[s] = "none" => gs[s] = "none",
             inbox'[s] # <<>> => inbox[s] # <<>> \/ Reaches(s),
             fetch'[s] # "none" => fetch[s] # "none" \/ inbox[s] # <<>>
      PROVE  Bare(s)'
  BY <1>1 DEF Bare, Reaches
<1>2. CASE Idle
  BY <1>1, <1>2 DEF Idle
<1>3. ASSUME NEW t \in Sockets, Reads(t) PROVE Bare(s)'
  <2>1. /\ gs' = gs /\ inbox[t] # <<>>
        /\ inbox' = [inbox EXCEPT ![t] = Tail(@)]
        /\ fetch' = fetch \/ fetch' = [fetch EXCEPT ![t] = "asked"]
    BY <1>3 DEF Reads, OnEvent, OnWelcome, gateVars
  <2>2. s # t => inbox'[s] = inbox[s] /\ fetch'[s] = fetch[s]
    BY <1>0, <2>1
  <2> QED BY <1>1, <2>1, <2>2
<1>4. ASSUME NEW t \in Sockets, Fetches(t) PROVE Bare(s)'
  <2>1. UNCHANGED <<gs, inbox>> /\ \E x : fetch[t] # "none" /\ fetch' = [fetch EXCEPT ![t] = x]
    BY <1>4 DEF Fetches, SetMembers, FetchFails, GetIds, GetMembers, gateVars, socketVars
  <2>2. fetch'[s] # "none" => fetch[s] # "none"
    BY <1>0, <2>1
  <2> QED BY <1>1, <2>1, <2>2
<1>5. ASSUME NEW t \in Sockets, Sends(t) PROVE Bare(s)'
  <2>1. UNCHANGED <<inbox, fetch>> /\ (gs'[s] = "none" => gs[s] = "none")
    BY <1>0, <1>5 DEF Sends, Connection, OnHeartbeat, OnGone, socketVars, viewVars
  <2> QED BY <1>1, <2>1
<1>6. ASSUME NEW t \in Sockets, AfterTouch(t) \/ AfterRemove(t) PROVE Bare(s)'
  <2>1. UNCHANGED <<gs, fetch>>
    BY <1>6 DEF AfterTouch, AfterRemove, viewVars
  <2>2. ~Reaches(s) => inbox'[s] = inbox[s]
    BY <1>6 DEF AfterTouch, AfterRemove
  <2> QED BY <1>1, <2>1, <2>2
<1>7. CASE Execute
  <2>1. UNCHANGED <<gs, inbox, fetch>>
    BY <1>7 DEF Execute, socketVars, viewVars
  <2> QED BY <1>1, <2>1
<1> QED BY <1>2, <1>3, <1>4, <1>5, <1>6, <1>7 DEF OneEachStep

LEMMA RunCommand ==
    ASSUME Typed, Execute
    PROVE  /\ pipe # <<>> /\ pipe' = Tail(pipe) /\ Head(pipe) \in Commands
           /\ replies' = replies \/ replies' = Append(replies, Head(pipe))
           /\ \A n : /\ Head(pipe) \in JoinOf(n) \/ Head(pipe) \in LeaveOf(n)
                           => replies' = Append(replies, Head(pipe))
                     /\ ~(Head(pipe) \in JoinOf(n) /\ Head(pipe) \in LeaveOf(n))
           /\ UNCHANGED <<gs, cs, inbox, view, fetch, got, heard, synced>>
<1>1. /\ pipe # <<>> /\ pipe' = Tail(pipe) /\ pipe \in Seq(Commands)
      /\ replies' = IF Head(pipe).op = "beat" THEN replies ELSE Append(replies, Head(pipe))
      /\ UNCHANGED <<gs, cs, inbox, view, fetch, got, heard, synced>>
  BY QueueTypes DEF Execute, socketVars, viewVars
<1>2. Head(pipe) \in Commands
  BY <1>1
<1> QED BY <1>1, <1>2 DEF JoinOf, LeaveOf

\* The callback of a join or a leave, seen by the pages.
LEMMA TellJoin ==
    ASSUME Typed, NEW s \in Sockets, AfterTouch(s)
    PROVE  /\ replies # <<>> /\ replies' = Tail(replies) /\ Head(replies) \in Commands
           /\ \A n : /\ Head(replies) \in JoinOf(n) <=> Owner(s) = n
                     /\ Head(replies) \notin LeaveOf(n)
           /\ \A t \in Sockets :
                 /\ ~Reaches(t) => inbox'[t] = inbox[t]
                 /\ Reaches(t) /\ t # s => inbox'[t] = Append(inbox[t], Told("join", Owner(s)))
                 /\ Reaches(t) /\ t = s
                    => inbox'[t] = Append(Append(inbox[t], Told("join", Owner(s))),
                                          Told("welcome", Owner(s)))
           /\ UNCHANGED <<gs, cs, pipe, view, fetch, got, heard, synced>>
<1>1. /\ replies # <<>> /\ replies' = Tail(replies) /\ replies \in Seq(Commands)
      /\ Head(replies) = [op |-> "join", s |-> s]
      /\ UNCHANGED <<gs, cs, pipe, view, fetch, got, heard, synced>>
  BY QueueTypes DEF AfterTouch, viewVars
<1>2. Head(replies) \in Commands
  BY <1>1
<1>3. \A n : /\ Head(replies) \in JoinOf(n) <=> Owner(s) = n
             /\ Head(replies) \notin LeaveOf(n)
  BY <1>1, <1>2 DEF JoinOf, LeaveOf
<1>4. ASSUME NEW t \in Sockets
      PROVE  /\ ~Reaches(t) => inbox'[t] = inbox[t]
             /\ Reaches(t) /\ t # s => inbox'[t] = Append(inbox[t], Told("join", Owner(s)))
             /\ Reaches(t) /\ t = s
                => inbox'[t] = Append(Append(inbox[t], Told("join", Owner(s))),
                                      Told("welcome", Owner(s)))
  <2>1. inbox[t] \in Seq(Messages)
    BY QueueTypes
  <2>2. inbox'[t] = IF ~Reaches(t) THEN inbox[t]
                    ELSE inbox[t] \o <<Told("join", Owner(s))>>
                                  \o (IF t = s THEN <<Told("welcome", Owner(s))>> ELSE <<>>)
    BY <1>1 DEF AfterTouch
  <2>3. /\ inbox[t] \o <<Told("join", Owner(s))>> \o <<>>
              = Append(inbox[t], Told("join", Owner(s)))
        /\ inbox[t] \o <<Told("join", Owner(s))>> \o <<Told("welcome", Owner(s))>>
              = Append(Append(inbox[t], Told("join", Owner(s))), Told("welcome", Owner(s)))
    BY <2>1, ToldTypes, PushedTwo
  <2> QED BY <2>2, <2>3
<1> QED BY <1>1, <1>2, <1>3, <1>4

LEMMA TellLeave ==
    ASSUME Typed, NEW s \in Sockets, AfterRemove(s)
    PROVE  /\ replies # <<>> /\ replies' = Tail(replies) /\ Head(replies) \in Commands
           /\ \A n : /\ Head(replies) \in LeaveOf(n) <=> Owner(s) = n
                     /\ Head(replies) \notin JoinOf(n)
           /\ \A t \in Sockets :
                 /\ ~Reaches(t) => inbox'[t] = inbox[t]
                 /\ Reaches(t) => inbox'[t] = Append(inbox[t], Told("leave", Owner(s)))
           /\ UNCHANGED <<gs, cs, pipe, view, fetch, got, heard, synced>>
<1>1. /\ replies # <<>> /\ replies' = Tail(replies) /\ replies \in Seq(Commands)
      /\ Head(replies) = [op |-> "leave", s |-> s]
      /\ UNCHANGED <<gs, cs, pipe, view, fetch, got, heard, synced>>
  BY QueueTypes DEF AfterRemove, viewVars
<1>2. Head(replies) \in Commands
  BY <1>1
<1>3. \A n : /\ Head(replies) \in LeaveOf(n) <=> Owner(s) = n
             /\ Head(replies) \notin JoinOf(n)
  BY <1>1, <1>2 DEF JoinOf, LeaveOf
<1> QED BY <1>1, <1>2, <1>3 DEF AfterRemove

\* A page that hears something had it at the head of its queue.
LEMMA HearsHead ==
    ASSUME Typed, NEW s \in Sockets, Reads(s)
    PROVE  /\ inbox[s] # <<>> /\ inbox'[s] = Tail(inbox[s]) /\ Head(inbox[s]) \in Messages
           /\ \A t \in Sockets : t # s => inbox'[t] = inbox[t]
           /\ UNCHANGED <<gs, cs, pipe, replies, synced, got>>
<1>1. /\ inbox[s] # <<>> /\ inbox' = [inbox EXCEPT ![s] = Tail(@)]
      /\ inbox \in [Sockets -> Seq(Messages)]
      /\ UNCHANGED <<gs, cs, pipe, replies, synced, got>>
  BY QueueTypes DEF Reads, OnEvent, OnWelcome, gateVars
<1>2. Head(inbox[s]) \in Messages
  BY <1>1
<1> QED BY <1>1, <1>2

LEMMA SendsOf ==
    ASSUME Typed, Traced, OneEach, NEW s \in Sockets, Sends(s)
    PROVE  /\ s = Sock(Owner(s)) /\ Owner(s) \in Members
           /\ UNCHANGED <<replies, cs, inbox, view, fetch, got, heard, synced>>
           /\ \A t \in Sockets : t # s => gs'[t] = gs[t]
           /\ \/ pipe' = Sent("join", s) /\ gs[s] = "none" /\ gs'[s] = "open"
              \/ pipe' = Sent("beat", s) /\ gs[s] = "open" /\ gs'[s] = "open"
              \/ /\ pipe' = Sent("leave", s) /\ gs[s] = "open" /\ gs'[s] = "gone"
                 /\ cs[s] \notin Live
<1>0. gs \in [Sockets -> {"none", "open", "gone"}]
  BY QueueTypes
<1>1. CASE Connection(s)
  <2>1. cs[s] # "none"
    BY <1>1 DEF Connection
  <2> QED BY <1>0, <1>1, <2>1, OnlyOne DEF Connection, socketVars, viewVars
<1>2. CASE OnHeartbeat(s)
  <2>1. gs[s] # "none"
    BY <1>2 DEF OnHeartbeat
  <2> QED BY <1>0, <1>2, <2>1, OnlyOne DEF OnHeartbeat, viewVars
<1>3. CASE OnGone(s)
  <2>1. gs[s] # "none"
    BY <1>3 DEF OnGone
  <2> QED BY <1>0, <1>3, <2>1, OnlyOne DEF OnGone, socketVars, viewVars, Live
<1> QED BY <1>1, <1>2, <1>3 DEF Sends

LEMMA FetchesOf ==
    ASSUME NEW s \in Sockets, Fetches(s)
    PROVE  UNCHANGED <<gs, cs, pipe, replies, inbox>>
BY DEF Fetches, SetMembers, FetchFails, GetIds, GetMembers, gateVars, socketVars

LEMMA LeavesLateStep ==
    ASSUME Typed, Traced, OneEach, MaxSockets # 0, OneEachStep, NEW n \in Members, LeavesLate(n)
    PROVE  LeavesLate(n)'
<1>0. /\ pipe \in Seq(Commands) /\ replies \in Seq(Commands)
      /\ inbox \in [Sockets -> Seq(Messages)]
      /\ gs \in [Sockets -> {"none", "open", "gone"}]
      /\ Sock(n) \in Sockets /\ Owner(Sock(n)) = n
  BY QueueTypes, SockIn
<1>1. ASSUME gs[Sock(n)] = "gone" => gs'[Sock(n)] = "gone",
             LeaveSent(n)' \/ LeaveRun(n)' => gs'[Sock(n)] = "gone",
             \A t \in Sockets : At(inbox'[t], LeaveNews(n)) # {}
                 => At(inbox[t], LeaveNews(n)) # {} \/ gs'[Sock(n)] = "gone"
      PROVE  LeavesLate(n)'
  BY <1>1 DEF LeavesLate
<1>2. CASE Idle
  <2>1. UNCHANGED <<gs, pipe, replies>> /\ \A t \in Sockets : inbox'[t] \in {inbox[t], <<>>}
    BY <1>2 DEF Idle
  <2> QED BY <2>1, <1>1, NothingAt DEF LeavesLate, LeaveSent, LeaveRun
<1>3. ASSUME NEW s \in Sockets, Reads(s) PROVE LeavesLate(n)'
  <2>1. /\ inbox[s] # <<>> /\ inbox'[s] = Tail(inbox[s])
        /\ \A t \in Sockets : t # s => inbox'[t] = inbox[t]
        /\ UNCHANGED <<gs, pipe, replies>>
    BY <1>3, HearsHead
  <2>2. At(inbox'[s], LeaveNews(n)) # {} => At(inbox[s], LeaveNews(n)) # {}
    BY <1>0, <2>1, PoppedStill
  <2> QED BY <2>1, <2>2, <1>1 DEF LeavesLate, LeaveSent, LeaveRun
<1>4. ASSUME NEW s \in Sockets, Fetches(s) PROVE LeavesLate(n)'
  BY <1>1, <1>4, FetchesOf DEF LeavesLate, LeaveSent, LeaveRun
<1>5. ASSUME NEW s \in Sockets, Sends(s) PROVE LeavesLate(n)'
  <2>1. /\ s = Sock(Owner(s)) /\ UNCHANGED <<replies, inbox>>
        /\ Sock(n) # s => gs'[Sock(n)] = gs[Sock(n)]
        /\ gs[s] # "gone"
    BY <1>0, <1>5, SendsOf
  <2>2. PICK op \in {"join", "beat", "leave"} :
            pipe' = Sent(op, s) /\ (op = "leave" => gs'[s] = "gone")
    BY <1>5, SendsOf
  <2>3. At(pipe', LeaveOf(n)) = At(pipe, LeaveOf(n))
                  \cup (IF op = "leave" /\ Owner(s) = n THEN {Len(pipe) + 1} ELSE {})
    BY <2>2, SentAt
  <2>4. CASE s = Sock(n)
    BY <1>0, <1>1, <2>1, <2>2, <2>3, <2>4 DEF LeavesLate, LeaveSent, LeaveRun
  <2>5. CASE s # Sock(n)
    BY <1>0, <1>1, <2>1, <2>2, <2>3, <2>5 DEF LeavesLate, LeaveSent, LeaveRun
  <2> QED BY <2>4, <2>5
<1>6. CASE Execute
  <2>1. /\ pipe # <<>> /\ pipe' = Tail(pipe) /\ Head(pipe) \in Commands
        /\ replies' = replies \/ replies' = Append(replies, Head(pipe))
        /\ UNCHANGED <<gs, inbox>>
    BY <1>6, RunCommand
  <2>2. /\ LeaveSent(n)' => LeaveSent(n)
        /\ Head(pipe) \in LeaveOf(n) => LeaveSent(n)
    <3>1. 1 \in At(pipe, LeaveOf(n)) <=> Head(pipe) \in LeaveOf(n)
      BY <1>0, <2>1, PoppedAt
    <3>2. At(Tail(pipe), LeaveOf(n)) # {} => At(pipe, LeaveOf(n)) # {}
      BY <1>0, <2>1, PoppedStill
    <3> QED BY <2>1, <3>1, <3>2 DEF LeaveSent
  <2>3. LeaveRun(n)' => LeaveRun(n) \/ Head(pipe) \in LeaveOf(n)
    BY <1>0, <2>1, PushedStill DEF LeaveRun
  <2> QED BY <1>1, <2>1, <2>2, <2>3 DEF LeavesLate
<1>7. ASSUME NEW s \in Sockets, AfterTouch(s) \/ AfterRemove(s) PROVE LeavesLate(n)'
  <2>1. replies # <<>> /\ replies' = Tail(replies) /\ UNCHANGED <<gs, pipe>>
    BY <1>7, TellJoin, TellLeave
  <2>2. LeaveRun(n)' => LeaveRun(n)
    BY <1>0, <2>1, PoppedStill DEF LeaveRun
  <2>3. ASSUME NEW t \in Sockets, At(inbox'[t], LeaveNews(n)) # {}
        PROVE  At(inbox[t], LeaveNews(n)) # {} \/ gs'[Sock(n)] = "gone"
    <3>1. CASE AfterTouch(s)
      <4> DEFINE q == Append(inbox[t], Told("join", Owner(s)))
      <4>1. inbox'[t] \in {inbox[t], q, Append(q, Told("welcome", Owner(s)))}
        BY <3>1, TellJoin
      <4>2. /\ inbox[t] \in Seq(Messages)
            /\ Told("join", Owner(s)) \in Messages /\ Told("join", Owner(s)) \notin LeaveNews(n)
            /\ Told("welcome", Owner(s)) \in Messages /\ Told("welcome", Owner(s)) \notin LeaveNews(n)
        BY <1>0, ToldTypes
      <4>3. q \in Seq(Messages) /\ (At(q, LeaveNews(n)) # {} <=> At(inbox[t], LeaveNews(n)) # {})
        BY <4>2, PushedStill
      <4> HIDE DEF q
      <4>4. At(Append(q, Told("welcome", Owner(s))), LeaveNews(n)) # {} <=> At(q,
           LeaveNews(n)) # {}
        BY <4>2, <4>3, PushedStill
      <4> QED BY <2>3, <4>1, <4>3, <4>4
    <3>2. CASE AfterRemove(s)
      <4>1. inbox'[t] \in {inbox[t], Append(inbox[t], Told("leave", Owner(s)))}
        BY <3>2, TellLeave
      <4>2. At(Append(inbox[t], Told("leave", Owner(s))), LeaveNews(n)) # {}
               => At(inbox[t], LeaveNews(n)) # {} \/ Owner(s) = n
        BY <1>0, ToldTypes, PushedStill
      <4>3. Owner(s) = n => LeaveRun(n)
        <5>1. Head(replies) \in LeaveOf(n) <=> Owner(s) = n
          BY <3>2, TellLeave
        <5>2. 1 \in At(replies, LeaveOf(n)) <=> Head(replies) \in LeaveOf(n)
          BY <1>0, <2>1, PoppedAt
        <5> QED BY <5>1, <5>2 DEF LeaveRun
      <4> QED BY <2>1, <2>3, <4>1, <4>2, <4>3 DEF LeavesLate
    <3> QED BY <1>7, <3>1, <3>2
  <2> QED BY <1>1, <2>1, <2>2, <2>3 DEF LeavesLate, LeaveSent
<1> QED BY <1>2, <1>3, <1>4, <1>5, <1>6, <1>7 DEF OneEachStep

LEMMA FollowedStill ==
    ASSUME NEW q, NEW X, NEW Y, NEW b \in BOOLEAN, NEW c \in BOOLEAN, Followed(q, X, Y, b), b => c
    PROVE  Followed(q, X, Y, c)
BY DEF Followed

LEMMA JoinsLeaveStep ==
    ASSUME Typed, Traced, OneEach, MaxSockets # 0, OneEachStep, NEW n \in Members,
           JoinsLeave(n), \A t \in Sockets : Bare(t)
    PROVE  JoinsLeave(n)'
<1> DEFINE behindR == IsUp(n) \/ LeaveSent(n)
           behindI == IsUp(n) \/ LeaveSent(n) \/ LeaveRun(n)
<1>0. /\ pipe \in Seq(Commands) /\ replies \in Seq(Commands)
      /\ inbox \in [Sockets -> Seq(Messages)]
      /\ gs \in [Sockets -> {"none", "open", "gone"}]
      /\ Sock(n) \in Sockets /\ Owner(Sock(n)) = n
  BY QueueTypes, SockIn
<1>1. /\ Followed(pipe, JoinOf(n), LeaveOf(n), IsUp(n))
      /\ Followed(replies, JoinOf(n), LeaveOf(n), behindR)
      /\ \A t \in Sockets : Reaches(t) => Followed(inbox[t], JoinNews(n), LeaveNews(n), behindI)
  BY DEF JoinsLeave
<1>2. /\ IsUp(n) \in BOOLEAN /\ behindR \in BOOLEAN /\ behindI \in BOOLEAN
      /\ IsUp(n)' \in BOOLEAN /\ behindR' \in BOOLEAN /\ behindI' \in BOOLEAN
  BY DEF IsUp, LeaveSent, LeaveRun
<1>3. ASSUME Followed(pipe', JoinOf(n), LeaveOf(n), IsUp(n)'),
             Followed(replies', JoinOf(n), LeaveOf(n), behindR'),
             \A t \in Sockets : Reaches(t)' => Followed(inbox'[t], JoinNews(n), LeaveNews(n), behindI')
      PROVE  JoinsLeave(n)'
  BY <1>3 DEF JoinsLeave
<1> HIDE DEF behindR, behindI
<1>4. ASSUME UNCHANGED <<gs, pipe, replies>>
      PROVE  /\ IsUp(n)' = IsUp(n) /\ behindR' = behindR /\ behindI' = behindI
             /\ Followed(pipe', JoinOf(n), LeaveOf(n), IsUp(n)')
             /\ Followed(replies', JoinOf(n), LeaveOf(n), behindR')
  <2>1. IsUp(n)' = IsUp(n) /\ behindR' = behindR /\ behindI' = behindI
    BY <1>4 DEF IsUp, behindR, behindI, LeaveSent, LeaveRun
  <2> QED BY <1>1, <1>4, <2>1
<1>5. CASE Idle
  <2>1. \A t \in Sockets : Reaches(t)' => Reaches(t) /\ inbox'[t] = inbox[t]
    BY <1>5 DEF Idle, Reaches, Live
  <2>2. UNCHANGED <<gs, pipe, replies>>
    BY <1>5 DEF Idle
  <2> QED BY <1>1, <1>3, <1>4, <2>1, <2>2
<1>6. ASSUME NEW s \in Sockets, Reads(s) PROVE JoinsLeave(n)'
  <2>1. /\ inbox[s] # <<>> /\ inbox'[s] = Tail(inbox[s]) /\ inbox[s] \in Seq(Messages)
        /\ \A t \in Sockets : t # s => inbox'[t] = inbox[t]
        /\ UNCHANGED <<gs, cs, pipe, replies>>
    BY <1>0, <1>6, HearsHead
  <2>2. Reaches(s) => Followed(inbox'[s], JoinNews(n), LeaveNews(n), behindI)
    BY <1>1, <1>2, <2>1, FollowedPopped
  <2>3. \A t \in Sockets : Reaches(t)' => Reaches(t)
    BY <2>1 DEF Reaches
  <2> QED BY <1>1, <1>3, <1>4, <2>1, <2>2, <2>3
<1>7. ASSUME NEW s \in Sockets, Fetches(s) PROVE JoinsLeave(n)'
  <2>1. UNCHANGED <<gs, cs, pipe, replies, inbox>>
    BY <1>7, FetchesOf
  <2>2. \A t \in Sockets : Reaches(t)' => Reaches(t)
    BY <2>1 DEF Reaches
  <2> QED BY <1>1, <1>3, <1>4, <2>1, <2>2
<1>8. ASSUME NEW s \in Sockets, Sends(s) PROVE JoinsLeave(n)'
  <2>1. PICK op \in {"join", "beat", "leave"} :
            /\ pipe' = Sent(op, s)
            /\ op = "join" => gs[s] = "none" /\ gs'[s] = "open"
            /\ op = "beat" => gs[s] = "open" /\ gs'[s] = "open"
            /\ op = "leave" => gs[s] = "open" /\ gs'[s] = "gone"
    BY <1>8, SendsOf
  <2>2. /\ s = Sock(Owner(s)) /\ UNCHANGED <<replies, inbox, cs>>
        /\ \A t \in Sockets : t # s => gs'[t] = gs[t]
    BY <1>8, SendsOf
  <2> DEFINE c == [op |-> op, s |-> s]
  <2>3. /\ c \in Commands /\ pipe' = Append(pipe, c)
        /\ c \in JoinOf(n) => op = "join" /\ s = Sock(n)
        /\ c \in LeaveOf(n) <=> op = "leave" /\ Owner(s) = n
    BY <2>1, <2>2 DEF Sent, Commands, JoinOf, LeaveOf
  <2> HIDE DEF c
  <2>4. /\ c \in JoinOf(n) => IsUp(n)'
        /\ IsUp(n) => IsUp(n)' \/ c \in LeaveOf(n)
    BY <1>0, <2>1, <2>2, <2>3 DEF IsUp
  <2>5. LeaveSent(n)' <=> LeaveSent(n) \/ c \in LeaveOf(n)
    BY <1>0, <2>3, PushedStill DEF LeaveSent
  <2>6. (behindR => behindR') /\ (behindI => behindI')
    BY <2>2, <2>4, <2>5 DEF behindR, behindI, LeaveRun
  <2>7. Followed(pipe', JoinOf(n), LeaveOf(n), IsUp(n)')
    BY <1>0, <1>1, <1>2, <2>3, <2>4, FollowedPushed
  <2>8. Followed(replies', JoinOf(n), LeaveOf(n), behindR')
    BY <1>1, <1>2, <2>2, <2>6, FollowedStill
  <2>9. ASSUME NEW t \in Sockets, Reaches(t)'
        PROVE  Followed(inbox'[t], JoinNews(n), LeaveNews(n), behindI')
    <3>1. CASE Reaches(t)
      BY <1>1, <1>2, <2>2, <2>6, <3>1, FollowedStill
    <3>2. CASE ~Reaches(t)
      <4>1. gs[t] = "none"
        BY <2>1, <2>2, <2>9, <3>2 DEF Reaches
      <4>2. inbox'[t] = <<>>
        BY <2>2, <4>1 DEF Bare
      <4> QED BY <4>2, NothingAt DEF Followed
    <3> QED BY <3>1, <3>2
  <2> QED BY <1>3, <2>7, <2>8, <2>9
<1>9. CASE Execute
  <2> DEFINE c == Head(pipe)
  <2>1. /\ pipe # <<>> /\ pipe' = Tail(pipe) /\ c \in Commands
        /\ replies' = replies \/ replies' = Append(replies, c)
        /\ c \in JoinOf(n) \/ c \in LeaveOf(n) => replies' = Append(replies, c)
        /\ UNCHANGED <<gs, cs, inbox>>
    BY <1>9, RunCommand
  <2>2. IsUp(n)' = IsUp(n)
    BY <2>1 DEF IsUp
  <2>3. /\ Followed(pipe', JoinOf(n), LeaveOf(n), IsUp(n)')
        /\ c \in JoinOf(n) => IsUp(n) \/ LeaveSent(n)'
    BY <1>0, <1>1, <1>2, <2>1, <2>2, FollowedPopped DEF LeaveSent
  <2>4. LeaveSent(n) => LeaveSent(n)' \/ c \in LeaveOf(n)
    BY <1>0, <2>1, PoppedStill DEF LeaveSent
  <2>5. LeaveRun(n)' <=> LeaveRun(n) \/ c \in LeaveOf(n)
    BY <1>0, <2>1, PushedStill DEF LeaveRun
  <2>6. /\ c \in JoinOf(n) => behindR'
        /\ behindR => behindR' \/ c \in LeaveOf(n)
        /\ behindI => behindI'
    BY <2>2, <2>3, <2>4, <2>5 DEF behindR, behindI
  <2>7. Followed(replies', JoinOf(n), LeaveOf(n), behindR')
    <3>1. CASE replies' = Append(replies, c)
      BY <1>0, <1>1, <1>2, <2>1, <2>6, <3>1, FollowedPushed
    <3>2. CASE replies' # Append(replies, c)
      BY <1>1, <1>2, <2>1, <2>6, <3>2, FollowedStill
    <3> QED BY <3>1, <3>2
  <2>8. ASSUME NEW t \in Sockets, Reaches(t)'
        PROVE  Followed(inbox'[t], JoinNews(n), LeaveNews(n), behindI')
    <3>1. Reaches(t)
      BY <2>1, <2>8 DEF Reaches
    <3> QED BY <1>1, <1>2, <2>1, <2>6, <3>1, FollowedStill
  <2> QED BY <1>3, <2>3, <2>7, <2>8
<1>10. ASSUME NEW s \in Sockets, AfterTouch(s) PROVE JoinsLeave(n)'
  <2> DEFINE join == Told("join", Owner(s))
             welcome == Told("welcome", Owner(s))
  <2>1. /\ replies # <<>> /\ replies' = Tail(replies)
        /\ Head(replies) \in JoinOf(n) <=> Owner(s) = n
        /\ Head(replies) \notin LeaveOf(n)
        /\ UNCHANGED <<gs, cs, pipe>>
    BY <1>10, TellJoin
  <2>2. IsUp(n)' = IsUp(n) /\ LeaveSent(n)' = LeaveSent(n) /\ behindR' = behindR
    BY <2>1 DEF IsUp, LeaveSent, behindR
  <2>3. /\ Followed(replies', JoinOf(n), LeaveOf(n), behindR')
        /\ Owner(s) = n => behindR \/ LeaveRun(n)'
    BY <1>0, <1>1, <1>2, <2>1, <2>2, FollowedPopped DEF LeaveRun
  <2>4. LeaveRun(n) => LeaveRun(n)'
    BY <1>0, <2>1, PoppedStill DEF LeaveRun
  <2>5. (behindI => behindI') /\ (Owner(s) = n => behindI')
    BY <2>2, <2>3, <2>4 DEF behindI, behindR
  <2>6. ASSUME NEW t \in Sockets, Reaches(t)'
        PROVE  Followed(inbox'[t], JoinNews(n), LeaveNews(n), behindI')
    <3>1. Reaches(t) /\ inbox[t] \in Seq(Messages)
      BY <1>0, <2>1, <2>6 DEF Reaches
    <3>2. /\ join \in Messages /\ join \notin LeaveNews(n) /\ (join \in JoinNews(n) <=> Owner(s) = n)
          /\ welcome \in Messages /\ welcome \notin LeaveNews(n) /\ welcome \notin JoinNews(n)
      BY ToldTypes
    <3>3. inbox'[t] = Append(inbox[t], join) \/ inbox'[t] = Append(Append(inbox[t], join), welcome)
      BY <1>10, <3>1, TellJoin
    <3> HIDE DEF join, welcome
    <3>4. Followed(inbox[t], JoinNews(n), LeaveNews(n), behindI)
      BY <1>1, <3>1
    <3>5. /\ Followed(Append(inbox[t], join), JoinNews(n), LeaveNews(n), behindI')
          /\ Append(inbox[t], join) \in Seq(Messages)
      BY <1>2, <2>5, <3>1, <3>2, <3>4, FollowedPushed
    <3>6. Followed(Append(Append(inbox[t], join), welcome), JoinNews(n), LeaveNews(n), behindI')
      BY <1>2, <3>2, <3>5, FollowedPushed
    <3> QED BY <3>3, <3>5, <3>6
  <2> QED BY <1>1, <1>3, <2>1, <2>2, <2>3, <2>6
<1>11. ASSUME NEW s \in Sockets, AfterRemove(s) PROVE JoinsLeave(n)'
  <2> DEFINE leave == Told("leave", Owner(s))
  <2>1. /\ replies # <<>> /\ replies' = Tail(replies)
        /\ Head(replies) \in LeaveOf(n) <=> Owner(s) = n
        /\ Head(replies) \notin JoinOf(n)
        /\ UNCHANGED <<gs, cs, pipe>>
    BY <1>11, TellLeave
  <2>2. IsUp(n)' = IsUp(n) /\ LeaveSent(n)' = LeaveSent(n) /\ behindR' = behindR
    BY <2>1 DEF IsUp, LeaveSent, behindR
  <2>3. Followed(replies', JoinOf(n), LeaveOf(n), behindR')
    BY <1>0, <1>1, <1>2, <2>1, <2>2, FollowedPopped
  <2>4. LeaveRun(n) => LeaveRun(n)' \/ Owner(s) = n
    BY <1>0, <2>1, PoppedStill DEF LeaveRun
  <2>5. behindI => behindI' \/ Owner(s) = n
    BY <2>2, <2>4 DEF behindI
  <2>6. ASSUME NEW t \in Sockets, Reaches(t)'
        PROVE  Followed(inbox'[t], JoinNews(n), LeaveNews(n), behindI')
    <3>1. Reaches(t) /\ inbox[t] \in Seq(Messages)
      BY <1>0, <2>1, <2>6 DEF Reaches
    <3>2. leave \in Messages /\ leave \notin JoinNews(n) /\ (leave \in LeaveNews(n) <=> Owner(s) = n)
      BY ToldTypes
    <3>3. inbox'[t] = Append(inbox[t], leave)
      BY <1>11, <3>1, TellLeave
    <3> HIDE DEF leave
    <3>4. Followed(inbox[t], JoinNews(n), LeaveNews(n), behindI)
      BY <1>1, <3>1
    <3> QED BY <1>2, <2>5, <3>1, <3>2, <3>3, <3>4, FollowedPushed
  <2> QED BY <1>1, <1>3, <2>1, <2>2, <2>3, <2>6
<1> QED BY <1>5, <1>6, <1>7, <1>8, <1>9, <1>10, <1>11 DEF OneEachStep

LEMMA ReadsOf ==
    ASSUME Typed, Traced, OneEach, NEW s \in Sockets, Bare(s), Reads(s)
    PROVE  /\ s = Sock(Owner(s)) /\ Owner(s) \in Members /\ synced' = synced /\ got' = got
           /\ \A t \in Sockets : t # s => fetch'[t] = fetch[t] /\ (t \in heard' <=> t \in heard)
           /\ \A m \in Members : m # Owner(s) => view'[m] = view[m]
           /\ OnWelcome(s) => view' = view /\ fetch'[s] = "asked"
           /\ OnEvent(s) => fetch' = fetch /\ (fetch[s] # "none" => s \in heard')
<1>0. /\ gs \in [Sockets -> {"none", "open", "gone"}]
      /\ fetch \in [Sockets -> {"none", "asked", "ids", "answered"}]
      /\ view \in [Members -> SUBSET Members]
  BY QueueTypes
<1>1. s = Sock(Owner(s)) /\ Owner(s) \in Members
  <2>1. inbox[s] # <<>>
    BY DEF Reads, OnEvent, OnWelcome
  <2>2. gs[s] # "none"
    BY <2>1 DEF Bare
  <2> QED BY <2>2, OnlyOne
<1>2. CASE OnEvent(s)
  <2>1. /\ \E S : view' = [view EXCEPT ![Owner(s)] = S]
        /\ heard' = IF fetch[s] # "none" THEN heard \cup {s} ELSE heard
        /\ UNCHANGED <<fetch, got, synced>>
    BY <1>2 DEF OnEvent
  <2>2. ~OnWelcome(s)
    BY <1>2 DEF OnEvent, OnWelcome
  <2> QED BY <1>0, <1>1, <2>1, <2>2
<1>3. CASE OnWelcome(s)
  <2>1. /\ fetch' = [fetch EXCEPT ![s] = "asked"]
        /\ UNCHANGED <<view, got, heard, synced>>
    BY <1>3 DEF OnWelcome
  <2>2. ~OnEvent(s)
    BY <1>3 DEF OnEvent, OnWelcome
  <2> QED BY <1>0, <1>1, <2>1, <2>2
<1> QED BY <1>2, <1>3 DEF Reads

LEMMA FetchesFor ==
    ASSUME Typed, Traced, OneEach, NEW s \in Sockets, Bare(s), Fetches(s)
    PROVE  /\ s = Sock(Owner(s)) /\ Owner(s) \in Members /\ Owner(s) \in Watchers
           /\ fetch[s] # "none"
           /\ \A t \in Sockets : t # s => fetch'[t] = fetch[t] /\ got'[t] = got[t]
           /\ \A t \in Sockets : t # s => (t \in heard' <=> t \in heard)
           /\ \A m \in Members : m # Owner(s) => view'[m] = view[m]
           /\ \A m \in Members : m # Owner(s) => (m \in synced' <=> m \in synced)
<1>0. /\ gs \in [Sockets -> {"none", "open", "gone"}]
      /\ fetch \in [Sockets -> {"none", "asked", "ids", "answered"}]
      /\ got \in [Sockets -> SUBSET Members]
      /\ view \in [Members -> SUBSET Members]
  BY QueueTypes
<1>1. /\ fetch[s] # "none"
      /\ \E x : fetch' = [fetch EXCEPT ![s] = x]
      /\ \E S : got' = [got EXCEPT ![s] = S]
      /\ heard' = heard \/ heard' = heard \ {s}
      /\ view' = view \/ \E S : view' = [view EXCEPT ![Owner(s)] = S]
      /\ synced' \in {synced, synced \cup {Owner(s)}, synced \ {Owner(s)}}
  <2>1. CASE SetMembers(s)
    BY <2>1 DEF SetMembers
  <2>2. CASE FetchFails(s)
    BY <2>2 DEF FetchFails
  <2>3. CASE GetIds(s)
    BY <2>3 DEF GetIds
  <2>4. CASE GetMembers(s)
    <3>1. got' = [got EXCEPT ![s] = {m \in got[s] : keyTtl[m] > 0}]
      BY <2>4 DEF GetMembers
    <3> QED BY <2>4, <3>1 DEF GetMembers
  <2> QED BY <2>1, <2>2, <2>3, <2>4 DEF Fetches
<1>2. gs[s] # "none" /\ Owner(s) \in Watchers
  BY <1>1 DEF Bare
<1>3. s = Sock(Owner(s)) /\ Owner(s) \in Members
  BY <1>2, OnlyOne
<1>4. \A t \in Sockets : t # s => fetch'[t] = fetch[t] /\ got'[t] = got[t]
  BY <1>0, <1>1
<1>5. \A m \in Members : m # Owner(s) => view'[m] = view[m]
  BY <1>0, <1>1
<1> QED BY <1>1, <1>2, <1>3, <1>4, <1>5

-----------------------------------------------------------------------------
(* A member's own join *)

Welcomes == {c \in Messages : c.type = "welcome"}
Loaded(m) == fetch[Sock(m)] # "none" \/ m \in synced
Single(A) == \A i, j \in A : i = j

OwnSent(m) == At(pipe, JoinOf(m))
OwnRun(m) == At(replies, JoinOf(m))
OwnHeard(m) == At(inbox[Sock(m)], JoinNews(m))
Greeted(m) == At(inbox[Sock(m)], Welcomes)

\* The join of a member reaches its own page once, ahead of the welcome, and
\* the page loads its list after that.
OwnJoinFirst(m) ==
    /\ gs[Sock(m)] = "none" => /\ OwnSent(m) = {} /\ OwnRun(m) = {}
                               /\ OwnHeard(m) = {} /\ Greeted(m) = {} /\ ~Loaded(m)
    /\ Single(OwnSent(m)) /\ Single(OwnRun(m))
    /\ OwnSent(m) = {} \/ OwnRun(m) = {}
    /\ OwnSent(m) # {} \/ OwnRun(m) # {} => OwnHeard(m) = {} /\ Greeted(m) = {} /\ ~Loaded(m)
    /\ Loaded(m) => OwnHeard(m) = {}
    /\ \A i \in OwnHeard(m), j \in Greeted(m) : i < j
    /\ m \in synced => m \in Watchers

LEMMA SinglePopped ==
    ASSUME NEW T, NEW q \in Seq(T), q # <<>>, NEW X, Single(At(q, X))
    PROVE  Single(At(Tail(q), X)) /\ (Head(q) \in X => At(Tail(q), X) = {})
<1>1. /\ \A i \in At(Tail(q), X) : i \in Nat /\ i >= 1 /\ i + 1 \in At(q, X)
      /\ 1 \in At(q, X) <=> Head(q) \in X
  BY PoppedAt
<1>2. ASSUME NEW i \in At(Tail(q), X), NEW j \in At(Tail(q), X) PROVE i = j
  <2>1. i \in Nat /\ j \in Nat /\ i + 1 = j + 1
    BY <1>1 DEF Single
  <2> QED BY <2>1
<1>3. ASSUME Head(q) \in X, NEW i \in At(Tail(q), X) PROVE FALSE
  <2>1. i \in Nat /\ i >= 1 /\ i + 1 = 1
    BY <1>1, <1>3 DEF Single
  <2> QED BY <2>1
<1> QED BY <1>2, <1>3 DEF Single

LEMMA SinglePushed ==
    ASSUME NEW T, NEW q \in Seq(T), NEW x \in T, NEW X, Single(At(q, X)), At(q, X) = {} \/ x \notin X
    PROVE  Single(At(Append(q, x), X)) /\ (x \notin X => At(Append(q, x), X) = At(q, X))
<1>1. At(Append(q, x), X) = At(q, X) \cup (IF x \in X THEN {Len(q) + 1} ELSE {})
  BY PushedAt
<1>2. CASE x \in X
  BY <1>1, <1>2 DEF Single
<1>3. CASE x \notin X
  BY <1>1, <1>3
<1> QED BY <1>2, <1>3

\* Taking the head keeps what was ahead ahead.
LEMMA AheadPopped ==
    ASSUME NEW T, NEW q \in Seq(T), q # <<>>, NEW X, NEW Y, \A i \in At(q, X), j \in At(q, Y) : i < j
    PROVE  /\ \A i \in At(Tail(q), X), j \in At(Tail(q), Y) : i < j
           /\ Head(q) \in Y => At(Tail(q), X) = {}
           /\ At(q, X) = {} => At(Tail(q), X) = {}
           /\ At(q, Y) = {} => At(Tail(q), Y) = {}
           /\ Head(q) \in Y => At(q, Y) # {}
<1>1. /\ \A i \in At(Tail(q), X) : i \in Nat /\ i >= 1 /\ i + 1 \in At(q, X)
      /\ \A j \in At(Tail(q), Y) : j \in Nat /\ j >= 1 /\ j + 1 \in At(q, Y)
      /\ 1 \in At(q, Y) <=> Head(q) \in Y
  BY PoppedAt
<1>2. ASSUME NEW i \in At(Tail(q), X), NEW j \in At(Tail(q), Y) PROVE i < j
  <2>1. i \in Nat /\ j \in Nat /\ i + 1 < j + 1
    BY <1>1
  <2> QED BY <2>1
<1>3. ASSUME Head(q) \in Y, NEW i \in At(Tail(q), X) PROVE FALSE
  <2>1. i \in Nat /\ i >= 1 /\ i + 1 < 1
    BY <1>1, <1>3
  <2> QED BY <2>1
<1> QED BY <1>1, <1>2, <1>3

LEMMA OwnJoinStep ==
    ASSUME Typed, Traced, OneEach, MaxSockets # 0, OneEachStep, NEW m \in Members,
           OwnJoinFirst(m), \A t \in Sockets : Bare(t)
    PROVE  OwnJoinFirst(m)'
<1> DEFINE t == Sock(m)
           q == inbox[t]
<1>0. /\ pipe \in Seq(Commands) /\ replies \in Seq(Commands) /\ q \in Seq(Messages)
      /\ gs \in [Sockets -> {"none", "open", "gone"}]
      /\ t \in Sockets /\ Owner(t) = m
  BY QueueTypes, SockIn
<1>1. ASSUME gs'[t] = "none" => gs[t] = "none",
             UNCHANGED <<pipe, replies>>, inbox'[t] \in {q, <<>>},
             Loaded(m)' => Loaded(m), m \in synced' => m \in Watchers
      PROVE  OwnJoinFirst(m)'
  BY <1>1, NothingAt DEF OwnJoinFirst, OwnSent, OwnRun, OwnHeard, Greeted
<1>2. CASE Idle
  <2>1. m \in synced' => m \in synced
    BY <1>2 DEF Idle
  <2> QED BY <1>0, <1>1, <1>2, <2>1 DEF Idle, Loaded, OwnJoinFirst
<1>3. ASSUME NEW s \in Sockets, Reads(s) PROVE OwnJoinFirst(m)'
  <2>1. UNCHANGED <<gs, pipe, replies, synced>>
    BY <1>3, HearsHead
  <2>2. CASE s # t
    BY <1>0, <1>1, <1>3, <2>1, <2>2, HearsHead, ReadsOf DEF Loaded, OwnJoinFirst
  <2>3. CASE s = t
    <3>1. q # <<>> /\ inbox'[t] = Tail(q)
      BY <1>3, <2>3, HearsHead
    <3>2. /\ \A i \in OwnHeard(m)', j \in Greeted(m)' : i < j
          /\ Head(q) \in Welcomes => OwnHeard(m)' = {} /\ Greeted(m) # {}
          /\ OwnHeard(m) = {} => OwnHeard(m)' = {}
          /\ Greeted(m) = {} => Greeted(m)' = {}
      <4>1. \A i \in At(q, JoinNews(m)), j \in At(q, Welcomes) : i < j
        BY DEF OwnJoinFirst, OwnHeard, Greeted
      <4> HIDE DEF q
      <4>2. /\ \A i \in At(Tail(q), JoinNews(m)), j \in At(Tail(q), Welcomes) : i < j
            /\ Head(q) \in Welcomes => At(Tail(q), JoinNews(m)) = {}
            /\ At(q, JoinNews(m)) = {} => At(Tail(q), JoinNews(m)) = {}
            /\ At(q, Welcomes) = {} => At(Tail(q), Welcomes) = {}
            /\ Head(q) \in Welcomes => At(q, Welcomes) # {}
        BY <1>0, <3>1, <4>1, AheadPopped
      <4> QED BY <3>1, <4>2 DEF OwnHeard, Greeted, q
    <3>3. OwnSent(m)' = OwnSent(m) /\ OwnRun(m)' = OwnRun(m)
      BY <2>1 DEF OwnSent, OwnRun
    <3>4. CASE OnEvent(s)
      <4>1. Loaded(m)' = Loaded(m)
        BY <2>1, <2>3, <3>4, ReadsOf, <1>3 DEF Loaded
      <4> QED BY <2>1, <3>2, <3>3, <4>1 DEF OwnJoinFirst
    <3>5. CASE OnWelcome(s)
      <4>1. Head(q) \in Welcomes
        BY <1>0, <2>3, <3>1, <3>5 DEF OnWelcome, Welcomes
      <4>2. OwnHeard(m)' = {} /\ OwnSent(m) = {} /\ OwnRun(m) = {} /\ gs[t] # "none"
        BY <3>2, <4>1 DEF OwnJoinFirst
      <4> QED BY <2>1, <3>3, <4>2 DEF OwnJoinFirst, Single
    <3> QED BY <1>3, <3>4, <3>5 DEF Reads
  <2> QED BY <2>2, <2>3
<1>4. ASSUME NEW s \in Sockets, Fetches(s) PROVE OwnJoinFirst(m)'
  <2>1. UNCHANGED <<gs, pipe, replies, inbox>>
    BY <1>4, FetchesOf
  <2>2. /\ s = Sock(Owner(s)) /\ Owner(s) \in Watchers /\ fetch[s] # "none"
        /\ s # t => fetch'[t] = fetch[t]
        /\ m # Owner(s) => (m \in synced' <=> m \in synced)
    <3>1. Bare(s)
      OBVIOUS
    <3>2. s = Sock(Owner(s)) /\ Owner(s) \in Watchers /\ fetch[s] # "none"
      BY <1>4, <3>1, FetchesFor
    <3>3. ASSUME s # t PROVE fetch'[t] = fetch[t]
      BY <1>0, <1>4, <3>1, <3>3, FetchesFor
    <3>4. ASSUME m # Owner(s) PROVE m \in synced' <=> m \in synced
      BY <1>4, <3>1, <3>4, FetchesFor
    <3> QED BY <3>2, <3>3, <3>4
  <2> QED BY <1>0, <1>1, <2>1, <2>2 DEF Loaded, OwnJoinFirst
<1>5. ASSUME NEW s \in Sockets, Sends(s) PROVE OwnJoinFirst(m)'
  <2>1. /\ s = Sock(Owner(s)) /\ UNCHANGED <<replies, inbox, fetch, synced>>
        /\ t # s => gs'[t] = gs[t]
    BY <1>0, <1>5, SendsOf
  <2>2. PICK op \in {"join", "beat", "leave"} :
            pipe' = Sent(op, s) /\ gs'[s] # "none" /\ (op = "join" => gs[s] = "none")
    BY <1>5, SendsOf
  <2>3. OwnSent(m)' = OwnSent(m) \cup (IF op = "join" /\ Owner(s) = m THEN {Len(pipe) + 1} ELSE {})
    BY <2>2, SentAt DEF OwnSent
  <2>4. /\ OwnRun(m)' = OwnRun(m) /\ OwnHeard(m)' = OwnHeard(m) /\ Greeted(m)' = Greeted(m)
        /\ Loaded(m)' = Loaded(m)
    BY <2>1 DEF OwnRun, OwnHeard, Greeted, Loaded
  <2>5. CASE op = "join" /\ Owner(s) = m
    <3>1. gs[t] = "none" /\ gs'[t] # "none"
      BY <1>0, <2>1, <2>2, <2>5
    <3>2. /\ OwnSent(m) = {} /\ OwnRun(m) = {} /\ OwnHeard(m) = {} /\ Greeted(m) = {} /\ ~Loaded(m)
      BY <3>1 DEF OwnJoinFirst
    <3>3. Single(OwnSent(m)')
      BY <2>3, <2>5, <3>2 DEF Single
    <3> QED BY <2>1, <2>4, <3>1, <3>2, <3>3 DEF OwnJoinFirst
  <2>6. CASE ~(op = "join" /\ Owner(s) = m)
    <3>1. OwnSent(m)' = OwnSent(m)
      BY <2>3, <2>6
    <3>2. gs'[t] = "none" => gs[t] = "none"
      BY <2>1, <2>2
    <3> QED BY <2>1, <2>4, <3>1, <3>2 DEF OwnJoinFirst
  <2> QED BY <2>5, <2>6
<1>6. CASE Execute
  <2> DEFINE c == Head(pipe)
  <2>1. /\ pipe # <<>> /\ pipe' = Tail(pipe) /\ c \in Commands
        /\ replies' = replies \/ replies' = Append(replies, c)
        /\ c \in JoinOf(m) => replies' = Append(replies, c)
        /\ UNCHANGED <<gs, inbox, fetch, synced>>
    BY <1>6, RunCommand
  <2>2. /\ OwnHeard(m)' = OwnHeard(m) /\ Greeted(m)' = Greeted(m) /\ Loaded(m)' = Loaded(m)
    BY <2>1 DEF OwnHeard, Greeted, Loaded
  <2>3. /\ Single(OwnSent(m)') /\ (c \in JoinOf(m) => OwnSent(m)' = {})
    <3>1. Single(At(pipe, JoinOf(m)))
      BY DEF OwnJoinFirst, OwnSent
    <3> QED BY <1>0, <2>1, <3>1, SinglePopped DEF OwnSent
  <2>4. /\ c \in JoinOf(m) => OwnSent(m) # {}
        /\ OwnSent(m)' # {} => OwnSent(m) # {}
    <3>1. 1 \in At(pipe, JoinOf(m)) <=> c \in JoinOf(m)
      BY <1>0, <2>1, PoppedAt
    <3>2. At(Tail(pipe), JoinOf(m)) # {} => At(pipe, JoinOf(m)) # {}
      BY <1>0, <2>1, PoppedStill
    <3> QED BY <2>1, <3>1, <3>2 DEF OwnSent
  <2>5. Single(OwnRun(m)') /\ (c \notin JoinOf(m) => OwnRun(m)' = OwnRun(m))
    <3>1. Single(At(replies, JoinOf(m))) /\ (At(replies, JoinOf(m)) = {} \/ c \notin JoinOf(m))
      BY <2>4 DEF OwnJoinFirst, OwnRun
    <3> HIDE DEF c
    <3>2. /\ Single(At(Append(replies, c), JoinOf(m)))
          /\ c \notin JoinOf(m) => At(Append(replies, c), JoinOf(m)) = At(replies, JoinOf(m))
      BY <1>0, <2>1, <3>1, SinglePushed
    <3> QED BY <2>1, <3>1, <3>2 DEF OwnRun
  <2> HIDE DEF c
  <2>6. CASE c \in JoinOf(m)
    BY <2>1, <2>2, <2>3, <2>4, <2>5, <2>6 DEF OwnJoinFirst
  <2>7. CASE c \notin JoinOf(m)
    BY <2>1, <2>2, <2>3, <2>4, <2>5, <2>7 DEF OwnJoinFirst
  <2> QED BY <2>6, <2>7
<1>7. ASSUME NEW s \in Sockets, AfterTouch(s) PROVE OwnJoinFirst(m)'
  <2> DEFINE join == Told("join", Owner(s))
             welcome == Told("welcome", Owner(s))
  <2>1. /\ replies # <<>> /\ replies' = Tail(replies)
        /\ Head(replies) \in JoinOf(m) <=> Owner(s) = m
        /\ UNCHANGED <<gs, cs, pipe, fetch, synced>>
    BY <1>7, TellJoin
  <2>2. OwnSent(m)' = OwnSent(m) /\ Loaded(m)' = Loaded(m)
    BY <2>1 DEF OwnSent, Loaded
  <2>3. /\ Single(OwnRun(m)') /\ (Owner(s) = m => OwnRun(m)' = {} /\ OwnRun(m) # {})
        /\ OwnRun(m)' # {} => OwnRun(m) # {}
    <3>1. Single(At(replies, JoinOf(m)))
      BY DEF OwnJoinFirst, OwnRun
    <3>2. /\ 1 \in At(replies, JoinOf(m)) <=> Head(replies) \in JoinOf(m)
      BY <1>0, <2>1, PoppedAt
    <3>3. /\ Single(At(Tail(replies), JoinOf(m)))
          /\ Head(replies) \in JoinOf(m) => At(Tail(replies), JoinOf(m)) = {}
      BY <1>0, <2>1, <3>1, SinglePopped
    <3>4. At(Tail(replies), JoinOf(m)) # {} => At(replies, JoinOf(m)) # {}
      BY <1>0, <2>1, PoppedStill
    <3> QED BY <2>1, <3>2, <3>3, <3>4 DEF OwnRun
  <2>4. /\ join \in Messages /\ welcome \in Messages
        /\ join \in JoinNews(m) <=> Owner(s) = m
        /\ welcome \notin JoinNews(m) /\ welcome \in Welcomes /\ join \notin Welcomes
    BY ToldTypes DEF Told, Welcomes
  <2>5. \/ inbox'[t] = q
        \/ t # s /\ inbox'[t] = Append(q, join)
        \/ t = s /\ inbox'[t] = Append(Append(q, join), welcome)
    BY <1>0, <1>7, TellJoin
  <2>6. CASE Owner(s) = m
    <3>1. /\ gs[t] # "none" /\ OwnSent(m) = {} /\ OwnRun(m)' = {}
          /\ OwnHeard(m) = {} /\ Greeted(m) = {} /\ ~Loaded(m)
      BY <2>3, <2>6 DEF OwnJoinFirst
    <3>2. At(q, JoinNews(m)) = {} /\ At(q, Welcomes) = {}
      BY <3>1 DEF OwnHeard, Greeted
    <3>3. \A i \in At(inbox'[t], JoinNews(m)), j \in At(inbox'[t], Welcomes) : i < j
      <4> HIDE DEF join, welcome, q
      <4>1. /\ Len(q) \in Nat /\ Append(q, join) \in Seq(Messages)
            /\ At(Append(q, join), JoinNews(m)) = {Len(q) + 1}
            /\ At(Append(q, join), Welcomes) = {}
            /\ Len(Append(q, join)) = Len(q) + 1
        <5>1. Len(q) \in Nat /\ Append(q, join) \in Seq(Messages) /\ Len(Append(q, join)) = Len(q) + 1
          BY <1>0, <2>4
        <5>2. At(Append(q, join), JoinNews(m))
                 = At(q, JoinNews(m)) \cup (IF join \in JoinNews(m) THEN {Len(q) + 1} ELSE {})
          BY <1>0, <2>4, PushedAt
        <5>3. At(Append(q, join), Welcomes)
                 = At(q, Welcomes) \cup (IF join \in Welcomes THEN {Len(q) + 1} ELSE {})
          BY <1>0, <2>4, PushedAt
        <5> QED BY <2>4, <2>6, <3>2, <5>1, <5>2, <5>3
      <4> DEFINE p == Append(q, join)
      <4>2. p \in Seq(Messages) /\ At(p, JoinNews(m)) = {Len(q) + 1} /\ At(p, Welcomes) = {}
            /\ Len(p) = Len(q) + 1
        BY <4>1
      <4>3. inbox'[t] = q \/ inbox'[t] = p \/ inbox'[t] = Append(p, welcome)
        BY <2>5
      <4> HIDE DEF p
      <4>4. At(Append(p, welcome), JoinNews(m))
                 = At(p, JoinNews(m)) \cup (IF welcome \in JoinNews(m) THEN {Len(p) + 1} ELSE {})
        BY <2>4, <4>2, PushedAt
      <4>5. At(Append(p, welcome), Welcomes)
                 = At(p, Welcomes) \cup (IF welcome \in Welcomes THEN {Len(p) + 1} ELSE {})
        BY <2>4, <4>2, PushedAt
      <4>6. /\ At(Append(p, welcome), JoinNews(m)) = {Len(q) + 1}
            /\ At(Append(p, welcome), Welcomes) = {Len(q) + 1 + 1}
        BY <2>4, <4>2, <4>4, <4>5
      <4>7. CASE inbox'[t] = Append(p, welcome)
        BY <4>1, <4>6, <4>7
      <4> QED BY <3>2, <4>2, <4>3, <4>7
    <3> QED BY <2>1, <2>2, <3>1, <3>3 DEF OwnJoinFirst, OwnHeard, Greeted, Single
  <2>7. CASE Owner(s) # m
    <3>1. t # s
      BY <1>0, <2>7
    <3>2. OwnHeard(m)' = OwnHeard(m) /\ Greeted(m)' = Greeted(m)
      <4> HIDE DEF join, q
      <4>1. /\ At(Append(q, join), JoinNews(m)) = At(q, JoinNews(m))
                  \cup (IF join \in JoinNews(m) THEN {Len(q) + 1} ELSE {})
            /\ At(Append(q, join), Welcomes) = At(q, Welcomes)
                  \cup (IF join \in Welcomes THEN {Len(q) + 1} ELSE {})
        BY <1>0, <2>4, PushedAt
      <4> QED BY <2>4, <2>5, <2>7, <3>1, <4>1 DEF OwnHeard, Greeted, q
    <3> QED BY <2>1, <2>2, <2>3, <3>2 DEF OwnJoinFirst
  <2> QED BY <2>6, <2>7
<1>8. ASSUME NEW s \in Sockets, AfterRemove(s) PROVE OwnJoinFirst(m)'
  <2> DEFINE leave == Told("leave", Owner(s))
  <2>1. /\ replies # <<>> /\ replies' = Tail(replies)
        /\ Head(replies) \notin JoinOf(m)
        /\ UNCHANGED <<gs, cs, pipe, fetch, synced>>
    BY <1>8, TellLeave
  <2>2. OwnSent(m)' = OwnSent(m) /\ Loaded(m)' = Loaded(m)
    BY <2>1 DEF OwnSent, Loaded
  <2>3. Single(OwnRun(m)') /\ (OwnRun(m)' # {} => OwnRun(m) # {})
    <3>1. Single(At(replies, JoinOf(m)))
      BY DEF OwnJoinFirst, OwnRun
    <3>2. Single(At(Tail(replies), JoinOf(m)))
      BY <1>0, <2>1, <3>1, SinglePopped
    <3>3. At(Tail(replies), JoinOf(m)) # {} => At(replies, JoinOf(m)) # {}
      BY <1>0, <2>1, PoppedStill
    <3> QED BY <2>1, <3>2, <3>3 DEF OwnRun
  <2>4. leave \in Messages /\ leave \notin JoinNews(m) /\ leave \notin Welcomes
    BY ToldTypes DEF Told, Welcomes
  <2>5. OwnHeard(m)' = OwnHeard(m) /\ Greeted(m)' = Greeted(m)
    <3>1. inbox'[t] = q \/ inbox'[t] = Append(q, leave)
      BY <1>0, <1>8, TellLeave
    <3> HIDE DEF leave, q
    <3>2. /\ At(Append(q, leave), JoinNews(m)) = At(q, JoinNews(m))
                \cup (IF leave \in JoinNews(m) THEN {Len(q) + 1} ELSE {})
          /\ At(Append(q, leave), Welcomes) = At(q, Welcomes)
                \cup (IF leave \in Welcomes THEN {Len(q) + 1} ELSE {})
      BY <1>0, <2>4, PushedAt
    <3> QED BY <2>4, <3>1, <3>2 DEF OwnHeard, Greeted, q
  <2> QED BY <2>1, <2>2, <2>3, <2>5 DEF OwnJoinFirst
<1> QED BY <1>2, <1>3, <1>4, <1>5, <1>6, <1>7, <1>8 DEF OneEachStep

-----------------------------------------------------------------------------
(* Lists and what is on its way to them *)

JoinSent(n) == At(pipe, JoinOf(n)) # {}
JoinRun(n) == At(replies, JoinOf(n)) # {}

\* Whom a list rightly shows: n is up, or a leave is on its way to the page.
Stays(n, t) == IsUp(n) \/ LeaveSent(n) \/ LeaveRun(n) \/ At(inbox[t], LeaveNews(n)) # {}

\* Whom a list rightly lacks: the gateway does not send to n, or a join is on its way.
Comes(n, t) == Up(n) => JoinSent(n) \/ JoinRun(n) \/ At(inbox[t], JoinNews(n)) # {}

Seen(m, S) ==
    \A n \in Members \ {m} : /\ n \in S => Stays(n, Sock(m))
                             /\ n \notin S => Comes(n, Sock(m))

\* A list that was loaded unraced, and one that is being loaded and heard
\* nothing since, are right but for what is on its way.
ListRight(m) == m \in synced /\ Up(m) => m \notin view[m] /\ Seen(m, view[m])
LoadRight(m) ==
    fetch[Sock(m)] \in {"ids", "answered"} /\ Up(m) /\ Sock(m) \notin heard
        => Seen(m, got[Sock(m)])

LEMMA Carried ==
    ASSUME Typed, Traced, OneEach, MaxSockets # 0, NEW n \in Members, NEW t \in Sockets, Reaches(t),
           \/ Idle /\ inbox'[t] = inbox[t]
           \/ \E s \in Sockets : \/ Reads(s) /\ s # t
                                 \/ Fetches(s) \/ Sends(s) \/ AfterTouch(s) \/ AfterRemove(s)
           \/ Execute
    PROVE  (Stays(n, t) => Stays(n, t)') /\ (Comes(n, t) => Comes(n, t)')
<1>0. /\ pipe \in Seq(Commands) /\ replies \in Seq(Commands) /\ inbox[t] \in Seq(Messages)
      /\ gs \in [Sockets -> {"none", "open", "gone"}]
      /\ Sock(n) \in Sockets /\ Owner(Sock(n)) = n
  BY QueueTypes, SockIn
<1>1. ASSUME UNCHANGED <<gs, pipe, replies>>, inbox'[t] = inbox[t], Up(n)' => Up(n)
      PROVE  (Stays(n, t) => Stays(n, t)') /\ (Comes(n, t) => Comes(n, t)')
  BY <1>1 DEF Stays, Comes, IsUp, LeaveSent, LeaveRun, JoinSent, JoinRun
<1>2. CASE Idle /\ inbox'[t] = inbox[t]
  BY <1>0, <1>1, <1>2 DEF Idle, Up, Live
<1>3. ASSUME NEW s \in Sockets, (Reads(s) /\ s # t) \/ Fetches(s)
      PROVE  (Stays(n, t) => Stays(n, t)') /\ (Comes(n, t) => Comes(n, t)')
  <2>1. UNCHANGED <<gs, cs, pipe, replies>> /\ inbox'[t] = inbox[t]
    BY <1>3, HearsHead, FetchesOf
  <2> QED BY <1>1, <2>1 DEF Up
<1>4. ASSUME NEW s \in Sockets, Sends(s)
      PROVE  (Stays(n, t) => Stays(n, t)') /\ (Comes(n, t) => Comes(n, t)')
  <2>1. PICK op \in {"join", "beat", "leave"} :
            /\ pipe' = Sent(op, s)
            /\ op = "join" => gs[s] = "none" /\ gs'[s] = "open"
            /\ op = "beat" => gs[s] = "open" /\ gs'[s] = "open"
            /\ op = "leave" => gs[s] = "open" /\ gs'[s] = "gone"
    BY <1>4, SendsOf
  <2>2. /\ s = Sock(Owner(s)) /\ UNCHANGED <<replies, inbox, cs>>
        /\ Sock(n) # s => gs'[Sock(n)] = gs[Sock(n)]
    BY <1>0, <1>4, SendsOf
  <2>3. /\ JoinSent(n)' <=> JoinSent(n) \/ (op = "join" /\ Owner(s) = n)
        /\ LeaveSent(n)' <=> LeaveSent(n) \/ (op = "leave" /\ Owner(s) = n)
    <3>1. /\ At(pipe', JoinOf(n)) = At(pipe, JoinOf(n))
                  \cup (IF op = "join" /\ Owner(s) = n THEN {Len(pipe) + 1} ELSE {})
          /\ At(pipe', LeaveOf(n)) = At(pipe, LeaveOf(n))
                  \cup (IF op = "leave" /\ Owner(s) = n THEN {Len(pipe) + 1} ELSE {})
      BY <2>1, SentAt
    <3> QED BY <3>1 DEF JoinSent, LeaveSent
  <2>4. JoinRun(n)' = JoinRun(n) /\ LeaveRun(n)' = LeaveRun(n)
    BY <2>2 DEF JoinRun, LeaveRun
  <2>5. CASE Owner(s) = n
    <3>1. s = Sock(n)
      BY <2>2, <2>5
    <3>2. IsUp(n) => IsUp(n)' \/ LeaveSent(n)'
      BY <2>1, <2>3, <2>5, <3>1 DEF IsUp
    <3>3. Up(n)' => Up(n) \/ JoinSent(n)'
      BY <2>1, <2>2, <2>3, <2>5, <3>1 DEF Up
    <3> QED BY <2>2, <2>3, <2>4, <3>2, <3>3 DEF Stays, Comes
  <2>6. CASE Owner(s) # n
    <3>1. gs'[Sock(n)] = gs[Sock(n)]
      BY <1>0, <2>2, <2>6
    <3>2. IsUp(n)' = IsUp(n) /\ Up(n)' = Up(n)
      BY <2>2, <3>1 DEF IsUp, Up
    <3> QED BY <2>2, <2>3, <2>4, <2>6, <3>2 DEF Stays, Comes
  <2> QED BY <2>5, <2>6
<1>5. CASE Execute
  <2> DEFINE c == Head(pipe)
  <2>1. /\ pipe # <<>> /\ pipe' = Tail(pipe) /\ c \in Commands
        /\ replies' = replies \/ replies' = Append(replies, c)
        /\ c \in JoinOf(n) \/ c \in LeaveOf(n) => replies' = Append(replies, c)
        /\ UNCHANGED <<gs, cs, inbox>>
    BY <1>5, RunCommand
  <2>2. /\ LeaveSent(n) => LeaveSent(n)' \/ c \in LeaveOf(n)
        /\ JoinSent(n) => JoinSent(n)' \/ c \in JoinOf(n)
    BY <1>0, <2>1, PoppedStill DEF LeaveSent, JoinSent
  <2>3. /\ LeaveRun(n) \/ c \in LeaveOf(n) => LeaveRun(n)'
        /\ JoinRun(n) \/ c \in JoinOf(n) => JoinRun(n)'
    BY <1>0, <2>1, PushedStill DEF LeaveRun, JoinRun
  <2>4. IsUp(n)' = IsUp(n) /\ Up(n)' = Up(n)
    BY <2>1 DEF IsUp, Up
  <2> QED BY <2>1, <2>2, <2>3, <2>4 DEF Stays, Comes
<1>6. ASSUME NEW s \in Sockets, AfterTouch(s) \/ AfterRemove(s)
      PROVE  (Stays(n, t) => Stays(n, t)') /\ (Comes(n, t) => Comes(n, t)')
  <2> DEFINE join == Told("join", Owner(s))
             leave == Told("leave", Owner(s))
             welcome == Told("welcome", Owner(s))
             heardJoin == At(inbox[t], JoinNews(n)) # {}
             heardLeave == At(inbox[t], LeaveNews(n)) # {}
  <2>1. replies # <<>> /\ replies' = Tail(replies) /\ UNCHANGED <<gs, cs, pipe>>
    BY <1>6, TellJoin, TellLeave
  <2>2. /\ LeaveRun(n) => LeaveRun(n)' \/ Head(replies) \in LeaveOf(n)
        /\ JoinRun(n) => JoinRun(n)' \/ Head(replies) \in JoinOf(n)
    BY <1>0, <2>1, PoppedStill DEF LeaveRun, JoinRun
  <2>3. /\ IsUp(n)' = IsUp(n) /\ Up(n)' = Up(n)
        /\ LeaveSent(n)' = LeaveSent(n) /\ JoinSent(n)' = JoinSent(n)
    BY <2>1 DEF IsUp, Up, LeaveSent, JoinSent
  <2>4. /\ join \in Messages /\ (join \in JoinNews(n) <=> Owner(s) = n)
        /\ leave \in Messages /\ (leave \in LeaveNews(n) <=> Owner(s) = n)
        /\ welcome \in Messages
    BY ToldTypes
  <2>5. /\ heardJoin \/ Head(replies) \in JoinOf(n) => heardJoin'
        /\ heardLeave \/ Head(replies) \in LeaveOf(n) => heardLeave'
    <3>1. CASE AfterTouch(s)
      <4>1. /\ Head(replies) \in JoinOf(n) <=> Owner(s) = n
            /\ Head(replies) \notin LeaveOf(n)
            /\ inbox'[t] = Append(inbox[t], join) \/ inbox'[t] = Append(Append(inbox[t], join), welcome)
        BY <3>1, TellJoin
      <4> HIDE DEF join, welcome
      <4>2. /\ Append(inbox[t], join) \in Seq(Messages)
            /\ heardJoin \/ join \in JoinNews(n) => At(Append(inbox[t], join), JoinNews(n)) # {}
            /\ heardLeave => At(Append(inbox[t], join), LeaveNews(n)) # {}
        BY <1>0, <2>4, PushedStill
      <4> DEFINE q == Append(inbox[t], join)
      <4>3. q \in Seq(Messages)
        BY <4>2
      <4> HIDE DEF q
      <4>4. /\ At(q, JoinNews(n)) # {} => At(Append(q, welcome), JoinNews(n)) # {}
            /\ At(q, LeaveNews(n)) # {} => At(Append(q, welcome), LeaveNews(n)) # {}
        BY <2>4, <4>3, PushedStill
      <4> QED BY <2>4, <4>1, <4>2, <4>4 DEF q
    <3>2. CASE AfterRemove(s)
      <4>1. /\ Head(replies) \in LeaveOf(n) <=> Owner(s) = n
            /\ Head(replies) \notin JoinOf(n)
            /\ inbox'[t] = Append(inbox[t], leave)
        BY <3>2, TellLeave
      <4> HIDE DEF leave
      <4>2. /\ heardJoin => At(Append(inbox[t], leave), JoinNews(n)) # {}
            /\ heardLeave \/ leave \in LeaveNews(n) => At(Append(inbox[t], leave), LeaveNews(n)) # {}
        BY <1>0, <2>4, PushedStill
      <4> QED BY <2>4, <4>1, <4>2
    <3> QED BY <1>6, <3>1, <3>2
  <2> QED BY <2>2, <2>3, <2>5 DEF Stays, Comes
<1> QED BY <1>2, <1>3, <1>4, <1>5, <1>6

\* Hearing an event keeps a right list right.
LEMMA EventSeen ==
    ASSUME Typed, MaxSockets # 0, NEW m \in Members, Reaches(Sock(m)), OnEvent(Sock(m)),
           \A n \in Members : LeavesLate(n) /\ JoinsLeave(n),
           At(inbox[Sock(m)], JoinNews(m)) = {}, m \notin view[m], Seen(m, view[m])
    PROVE  m \notin view'[m] /\ Seen(m, view[m])'
<1> DEFINE t == Sock(m)
           q == inbox[t]
           c == Head(q)
<1>0. /\ q \in Seq(Messages) /\ t \in Sockets /\ Owner(t) = m
      /\ view \in [Members -> SUBSET Members]
  BY QueueTypes, SockIn
<1>1. /\ q # <<>> /\ inbox'[t] = Tail(q) /\ c \in Messages
      /\ UNCHANGED <<gs, cs, pipe, replies>>
  BY <1>0, HearsHead DEF Reads
<1>2. /\ c.type \in {"join", "leave"}
      /\ view'[m] = IF c.type = "join" THEN view[m] \cup {c.m} ELSE view[m] \ {c.m}
  BY <1>0 DEF OnEvent
<1>3. c.m \in Members
  BY <1>1 DEF Messages
<1>4. \A n : /\ c \in JoinNews(n) <=> c.type = "join" /\ c.m = n
             /\ c \in LeaveNews(n) <=> c.type = "leave" /\ c.m = n
  BY <1>1 DEF JoinNews, LeaveNews
<1> HIDE DEF c
<1>5. c \notin JoinNews(m)
  <2>1. 1 \in At(q, JoinNews(m)) <=> c \in JoinNews(m)
    BY <1>0, <1>1, PoppedAt DEF c
  <2> QED BY <2>1
<1>6. m \notin view'[m]
  BY <1>2, <1>4, <1>5
<1>7. ASSUME NEW n \in Members \ {m}
      PROVE  /\ n \in view'[m] => Stays(n, t)'
             /\ n \notin view'[m] => Comes(n, t)'
  <2>1. /\ IsUp(n)' = IsUp(n) /\ Up(n)' = Up(n)
        /\ LeaveSent(n)' = LeaveSent(n) /\ LeaveRun(n)' = LeaveRun(n)
        /\ JoinSent(n)' = JoinSent(n) /\ JoinRun(n)' = JoinRun(n)
    BY <1>1 DEF IsUp, Up, LeaveSent, LeaveRun, JoinSent, JoinRun
  <2>2. /\ At(q, JoinNews(n)) # {} => c \in JoinNews(n) \/ At(Tail(q), JoinNews(n)) # {}
        /\ At(q, LeaveNews(n)) # {} => c \in LeaveNews(n) \/ At(Tail(q), LeaveNews(n)) # {}
    BY <1>0, <1>1, PoppedStill DEF c
  <2>3. (n \in view[m] => Stays(n, t)) /\ (n \notin view[m] => Comes(n, t))
    BY DEF Seen
  <2>4. CASE c \in JoinNews(n)
    <3> DEFINE behind == IsUp(n) \/ LeaveSent(n) \/ LeaveRun(n)
    <3>1. Followed(q, JoinNews(n), LeaveNews(n), behind)
      BY <1>0 DEF JoinsLeave
    <3>2. behind \in BOOLEAN
      BY DEF IsUp, LeaveSent, LeaveRun
    <3> HIDE DEF behind, q
    <3>3. behind \/ At(Tail(q), LeaveNews(n)) # {}
      BY <1>0, <1>1, <2>4, <3>1, <3>2, FollowedPopped DEF c
    <3>4. Stays(n, t)'
      BY <1>1, <2>1, <3>3 DEF Stays, behind
    <3>5. n \in view'[m]
      BY <1>2, <1>4, <2>4
    <3> QED BY <3>4, <3>5
  <2>5. CASE c \in LeaveNews(n)
    <3>1. 1 \in At(q, LeaveNews(n))
      BY <1>0, <1>1, <2>5, PoppedAt DEF c
    <3>2. gs[Sock(n)] = "gone"
      BY <1>0, <3>1 DEF LeavesLate
    <3>3. ~Up(n)
      BY <3>2 DEF Up
    <3>4. n \notin view'[m]
      BY <1>2, <1>4, <2>5
    <3> QED BY <2>1, <3>3, <3>4 DEF Comes
  <2>6. CASE c \notin JoinNews(n) /\ c \notin LeaveNews(n)
    <3>1. n \in view'[m] <=> n \in view[m]
      BY <1>2, <1>4, <2>6
    <3> QED BY <1>1, <2>1, <2>2, <2>3, <2>6, <3>1 DEF Stays, Comes
  <2> QED BY <2>4, <2>5, <2>6
<1>8. Seen(m, view[m])'
  BY <1>7 DEF Seen
<1> QED BY <1>6, <1>8

LEMMA ViewsStep ==
    ASSUME Typed, Traced, OneEach, MaxSockets # 0, OneEachStep,
           \A n \in Members : GhostFree(n) /\ Here(n),
           \A n \in Members : LeavesLate(n) /\ JoinsLeave(n),
           \A s \in Sockets : Bare(s),
           NEW m \in Members, OwnJoinFirst(m), ListRight(m), LoadRight(m)
    PROVE  ListRight(m)' /\ LoadRight(m)'
<1> DEFINE t == Sock(m)
<1> SUFFICES ASSUME Up(m)' PROVE ListRight(m)' /\ LoadRight(m)'
  BY DEF ListRight, LoadRight
<1>0. /\ t \in Sockets /\ Owner(t) = m
      /\ gs \in [Sockets -> {"none", "open", "gone"}]
      /\ inbox \in [Sockets -> Seq(Messages)]
      /\ fetch \in [Sockets -> {"none", "asked", "ids", "answered"}]
      /\ got \in [Sockets -> SUBSET Members]
      /\ view \in [Members -> SUBSET Members]
      /\ synced \in SUBSET Members
  BY QueueTypes, SockIn DEF Typed, ViewTyped
<1>b. \A s \in Sockets : Bare(s)
  OBVIOUS
<1>r. Up(m) /\ (m \in synced \/ fetch[t] # "none") => Reaches(t)
  <2>1. Bare(t)
    BY <1>0, <1>b
  <2> QED BY <1>0, <2>1 DEF OwnJoinFirst, Bare, Reaches, Up
\* Nothing was loaded, and what is on its way was carried along.
<1>1. ASSUME Up(m), m \in synced' => m \in synced, view'[m] = view[m],
             fetch'[t] \in {"ids", "answered"} => fetch'[t] = fetch[t] /\ got'[t] = got[t],
             t \in heard => t \in heard',
             Reaches(t) => \A n \in Members : /\ Stays(n, t) => Stays(n, t)'
                                              /\ Comes(n, t) => Comes(n, t)'
      PROVE  ListRight(m)' /\ LoadRight(m)'
  <2>1. ASSUME NEW S, Seen(m, S), Reaches(t)
        PROVE  \A n \in Members \ {m} : /\ n \in S => Stays(n, t)'
                                        /\ n \notin S => Comes(n, t)'
    BY <1>1, <2>1 DEF Seen
  <2>2. ASSUME m \in synced' PROVE m \notin view'[m] /\ Seen(m, view[m])'
    <3>1. m \notin view[m] /\ Seen(m, view[m]) /\ Reaches(t)
      BY <1>1, <1>r, <2>2 DEF ListRight
    <3> QED BY <1>1, <2>1, <3>1 DEF Seen
  <2>3. ASSUME fetch'[t] \in {"ids", "answered"}, t \notin heard' PROVE Seen(m, got[t])'
    <3>1. Seen(m, got[t]) /\ Reaches(t)
      BY <1>1, <1>r, <2>3 DEF LoadRight
    <3> QED BY <1>1, <2>1, <2>3, <3>1 DEF Seen
  <2> QED BY <2>2, <2>3 DEF ListRight, LoadRight
<1>2. CASE Idle
  <2>1. Up(m) /\ inbox'[t] = inbox[t] /\ view'[m] = view[m]
    BY <1>0, <1>2 DEF Idle, Up, Live
  <2>2. /\ m \in synced' => m \in synced
        /\ UNCHANGED <<fetch, got, heard>>
    BY <1>2 DEF Idle
  <2>3. \A n \in Members : Reaches(t) => /\ Stays(n, t) => Stays(n, t)'
                                         /\ Comes(n, t) => Comes(n, t)'
    BY <1>0, <1>2, <2>1, Carried
  <2> QED BY <1>1, <2>1, <2>2, <2>3
<1>3. CASE Execute
  <2>1. UNCHANGED <<gs, cs, view, fetch, got, heard, synced>>
    BY <1>3, RunCommand
  <2>2. \A n \in Members : Reaches(t) => /\ Stays(n, t) => Stays(n, t)'
                                         /\ Comes(n, t) => Comes(n, t)'
    BY <1>0, <1>3, Carried
  <2> QED BY <1>1, <2>1, <2>2 DEF Up
<1>4. ASSUME NEW s \in Sockets, AfterTouch(s) \/ AfterRemove(s)
      PROVE  ListRight(m)' /\ LoadRight(m)'
  <2>1. UNCHANGED <<gs, cs, view, fetch, got, heard, synced>>
    BY <1>4, TellJoin, TellLeave
  <2>2. \A n \in Members : Reaches(t) => /\ Stays(n, t) => Stays(n, t)'
                                         /\ Comes(n, t) => Comes(n, t)'
    BY <1>0, <1>4, Carried
  <2> QED BY <1>1, <2>1, <2>2 DEF Up
<1>5. ASSUME NEW s \in Sockets, Sends(s)
      PROVE  ListRight(m)' /\ LoadRight(m)'
  <2>1. /\ UNCHANGED <<cs, view, fetch, got, heard, synced>>
        /\ t # s => gs'[t] = gs[t]
        /\ gs'[s] = "open" => gs[s] \in {"none", "open"}
    BY <1>0, <1>5, SendsOf
  <2>2. CASE gs[t] = "none"
    <3>1. m \notin synced /\ fetch[t] = "none"
      BY <1>0, <1>b, <2>2 DEF OwnJoinFirst, Loaded
    <3> QED BY <2>1, <3>1 DEF ListRight, LoadRight
  <2>3. CASE gs[t] # "none"
    <3>1. Up(m)
      BY <1>0, <2>1, <2>3 DEF Up
    <3>2. \A n \in Members : Reaches(t) => /\ Stays(n, t) => Stays(n, t)'
                                           /\ Comes(n, t) => Comes(n, t)'
      BY <1>0, <1>5, Carried
    <3> QED BY <1>1, <2>1, <3>1, <3>2
  <2> QED BY <2>2, <2>3
<1>6. ASSUME NEW s \in Sockets, Reads(s) \/ Fetches(s), s # t
      PROVE  ListRight(m)' /\ LoadRight(m)'
  <2>1. Bare(s)
    BY <1>b
  <2>2. /\ UNCHANGED <<gs, cs>> /\ m # Owner(s)
        /\ view'[m] = view[m] /\ fetch'[t] = fetch[t] /\ got'[t] = got[t]
        /\ t \in heard => t \in heard'
        /\ m \in synced' => m \in synced
    <3>1. CASE Reads(s)
      BY <1>0, <1>6, <2>1, <3>1, ReadsOf, HearsHead
    <3>2. CASE Fetches(s)
      BY <1>0, <1>6, <2>1, <3>2, FetchesFor, FetchesOf
    <3> QED BY <1>6, <3>1, <3>2
  <2>3. \A n \in Members : Reaches(t) => /\ Stays(n, t) => Stays(n, t)'
                                         /\ Comes(n, t) => Comes(n, t)'
    BY <1>0, <1>6, Carried
  <2> QED BY <1>1, <2>2, <2>3 DEF Up
<1>7. CASE OnEvent(t)
  <2>1. Reads(t) /\ Bare(t)
    BY <1>0, <1>7, <1>b DEF Reads
  <2>2. /\ UNCHANGED <<gs, cs, synced>> /\ fetch' = fetch
        /\ fetch[t] # "none" => t \in heard'
    BY <1>0, <1>7, <2>1, ReadsOf, HearsHead
  <2>3. Up(m)
    BY <2>2 DEF Up
  <2>4. LoadRight(m)'
    BY <1>0, <2>2 DEF LoadRight
  <2>5. ASSUME m \in synced PROVE m \notin view'[m] /\ Seen(m, view[m])'
    <3>1. At(inbox[t], JoinNews(m)) = {}
      BY <2>5 DEF OwnJoinFirst, Loaded, OwnHeard
    <3>2. m \notin view[m] /\ Seen(m, view[m]) /\ Reaches(t)
      BY <1>r, <2>3, <2>5 DEF ListRight
    <3> QED BY <1>7, <3>1, <3>2, EventSeen
  <2> QED BY <2>2, <2>4, <2>5 DEF ListRight
<1>8. CASE OnWelcome(t)
  <2>1. Reads(t) /\ Bare(t)
    BY <1>0, <1>8, <1>b DEF Reads
  <2>2. /\ UNCHANGED <<gs, cs, pipe, replies, synced>> /\ view' = view
        /\ fetch'[t] = "asked"
    BY <1>0, <1>8, <2>1, ReadsOf, HearsHead
  <2>3. Up(m)
    BY <2>2 DEF Up
  <2>4. inbox[t] # <<>> /\ inbox'[t] = Tail(inbox[t]) /\ inbox[t] \in Seq(Messages)
    BY <1>0, <2>1, HearsHead
  <2>5. ASSUME NEW n \in Members
        PROVE  (Stays(n, t) => Stays(n, t)') /\ (Comes(n, t) => Comes(n, t)')
    <3>1. Head(inbox[t]) \notin JoinNews(n) /\ Head(inbox[t]) \notin LeaveNews(n)
      BY <1>8 DEF OnWelcome, JoinNews, LeaveNews
    <3>2. /\ At(inbox[t], JoinNews(n)) # {} => At(Tail(inbox[t]), JoinNews(n)) # {}
          /\ At(inbox[t], LeaveNews(n)) # {} => At(Tail(inbox[t]), LeaveNews(n)) # {}
      BY <2>4, <3>1, PoppedStill
    <3> QED
      BY <2>2, <2>4, <3>2
         DEF Stays, Comes, IsUp, Up, LeaveSent, LeaveRun, JoinSent, JoinRun
  <2>6. LoadRight(m)'
    BY <2>2 DEF LoadRight
  <2>7. ASSUME m \in synced PROVE m \notin view'[m] /\ Seen(m, view[m])'
    BY <2>2, <2>3, <2>5, <2>7 DEF ListRight, Seen
  <2> QED BY <2>2, <2>6, <2>7 DEF ListRight
<1>9. CASE Fetches(t)
  <2>1. UNCHANGED <<gs, cs, pipe, replies, inbox>>
    BY <1>0, <1>9, FetchesOf
  <2>2. /\ Up(m)
        /\ \A n : Stays(n, t)' = Stays(n, t) /\ Comes(n, t)' = Comes(n, t)
    BY <2>1 DEF Stays, Comes, IsUp, Up, LeaveSent, LeaveRun, JoinSent, JoinRun
  <2>4. ASSUME UNCHANGED <<view, synced>> PROVE ListRight(m)'
    BY <2>2, <2>4 DEF ListRight, Seen
  <2>5. CASE SetMembers(t)
    <3>1. /\ fetch[t] = "answered" /\ fetch'[t] = "none"
          /\ view'[m] = got[t] \ {m}
          /\ m \in synced' => t \notin heard
      BY <1>0, <2>5 DEF SetMembers
    <3>2. ASSUME m \in synced' PROVE Seen(m, view[m])'
      <4>1. Seen(m, got[t])
        BY <2>2, <3>1, <3>2 DEF LoadRight
      <4> QED BY <2>2, <3>1, <4>1 DEF Seen
    <3> QED BY <3>1, <3>2 DEF ListRight, LoadRight
  <2>6. CASE FetchFails(t)
    <3>1. fetch'[t] = "none" /\ UNCHANGED <<view, synced>>
      BY <1>0, <2>6 DEF FetchFails
    <3> QED BY <2>4, <3>1 DEF LoadRight
  <2>7. CASE GetIds(t)
    <3>1. got'[t] = ids /\ UNCHANGED <<view, synced>>
      BY <1>0, <2>7 DEF GetIds
    <3>2. ASSUME NEW n \in Members, n \in ids PROVE Stays(n, t)
      <4>1. CASE Connected(n)
        <5>1. PICK i \in 1 .. MaxSockets : gs[<<n, i>>] = "open"
          BY <4>1 DEF Connected
        <5>2. <<n, i>> \in Sockets /\ Owner(<<n, i>>) = n
          BY DEF Sockets, Owner
        <5>3. <<n, i>> = Sock(n)
          BY <5>1, <5>2, OnlyOne
        <5> QED BY <5>1, <5>3 DEF Stays, IsUp
      <4>2. CASE ~Connected(n)
        <5>1. \E i \in CommandsOf(n) : pipe[i].op = "leave"
          BY <3>2, <4>2 DEF GhostFree
        <5>2. PICK i \in 1 .. Len(pipe) : Owner(pipe[i].s) = n /\ pipe[i].op = "leave"
          BY <5>1 DEF CommandsOf
        <5>3. pipe[i] \in Commands
          BY QueueTypes
        <5>4. i \in At(pipe, LeaveOf(n))
          BY <5>2, <5>3 DEF At, LeaveOf
        <5> QED BY <5>4 DEF Stays, LeaveSent
      <4> QED BY <4>1, <4>2
    <3>3. ASSUME NEW n \in Members, n \notin ids PROVE Comes(n, t)
      BY <3>3 DEF Here, Listed, Comes, JoinSent
    <3>4. Seen(m, got[t])'
      BY <2>2, <3>1, <3>2, <3>3 DEF Seen
    <3> QED BY <2>4, <3>1, <3>4 DEF LoadRight
  <2>8. CASE GetMembers(t)
    <3>1. /\ fetch[t] = "ids" /\ got'[t] = {n \in got[t] : keyTtl[n] > 0}
          /\ UNCHANGED <<view, synced, heard>>
      BY <1>0, <2>8 DEF GetMembers
    <3>2. ASSUME NEW n \in Members, ~(keyTtl[n] > 0) PROVE Comes(n, t)
      BY <3>2 DEF Here, Listed, Comes, JoinSent
    <3>3. ASSUME t \notin heard PROVE Seen(m, got[t])'
      <4>1. Seen(m, got[t])
        BY <2>2, <3>1, <3>3 DEF LoadRight
      <4> QED BY <2>2, <3>1, <3>2, <4>1 DEF Seen
    <3> QED BY <2>4, <3>1, <3>3 DEF LoadRight
  <2> QED BY <1>9, <2>5, <2>6, <2>7, <2>8 DEF Fetches
<1> QED BY <1>0, <1>2, <1>3, <1>4, <1>5, <1>6, <1>7, <1>8, <1>9 DEF OneEachStep, Reads

-----------------------------------------------------------------------------
(* The lists keep in step *)

Steady(m) == OnlySocket(m) /\ Alive(m) /\ GhostFree(m)

Ordered(m) == Here(m) /\ LeavesLate(m) /\ JoinsLeave(m) /\ OwnJoinFirst(m)

ViewInv ==
    /\ Typed
    /\ Undisturbed /\ Ttl > HeartbeatMs
       => /\ Traced
          /\ \A m \in Members : Steady(m)
          /\ OneEach /\ MaxSockets # 0
             => /\ \A s \in Sockets : Bare(s)
                /\ \A m \in Members : Ordered(m)
                /\ \A m \in Members : ListRight(m) /\ LoadRight(m)

LEMMA ViewInit == Init => ViewInv
<1> SUFFICES ASSUME Init
             PROVE  /\ Typed /\ Traced
                    /\ \A m \in Members : Steady(m)
                    /\ MaxSockets # 0 => /\ \A s \in Sockets : Bare(s)
                                         /\ \A m \in Members : Ordered(m)
                                         /\ \A m \in Members : ListRight(m) /\ LoadRight(m)
  BY DEF ViewInv
<1>1. Typed
  BY TypedInit
<1>2. /\ pipe = <<>> /\ replies = <<>> /\ Len(pipe) = 0
      /\ gs = [s \in Sockets |-> "none"] /\ cs = [s \in Sockets |-> "none"]
      /\ inbox = [s \in Sockets |-> <<>>] /\ fetch = [s \in Sockets |-> "none"]
      /\ made = [m \in Members |-> 0] /\ synced = {}
      /\ ids = {} /\ keyTtl = [m \in Members |-> 0]
  BY DEF Init, StoreInit
<1>3. Traced
  BY <1>2 DEF Traced
<1>4. ASSUME NEW m \in Members PROVE Steady(m)
  BY <1>2 DEF Steady, OnlySocket, Alive, GhostFree, CommandsOf
<1>5. ASSUME MaxSockets # 0, NEW s \in Sockets PROVE Bare(s)
  BY <1>2 DEF Bare
<1>6. ASSUME MaxSockets # 0, NEW m \in Members
      PROVE  Ordered(m) /\ ListRight(m) /\ LoadRight(m)
  <2>1. /\ Sock(m) \in Sockets /\ gs[Sock(m)] = "none" /\ fetch[Sock(m)] = "none"
        /\ inbox[Sock(m)] = <<>> /\ ~Up(m)
    BY <1>2, <1>6, SockIn DEF Up
  <2>2. LeavesLate(m)
    BY <1>2, NothingAt DEF LeavesLate, LeaveSent, LeaveRun
  <2>3. JoinsLeave(m)
    BY <1>2, NothingAt DEF JoinsLeave, Followed
  <2>4. OwnJoinFirst(m)
    BY <1>2, <2>1, NothingAt DEF OwnJoinFirst, OwnSent, OwnRun, OwnHeard, Greeted, Loaded, Single
  <2> QED BY <1>2, <2>1, <2>2, <2>3, <2>4 DEF Ordered, Here, ListRight, LoadRight
<1> QED BY <1>1, <1>3, <1>4, <1>5, <1>6

LEMMA ViewStep == ViewInv /\ [Next]_vars => ViewInv'
<1> SUFFICES ASSUME ViewInv, [Next]_vars PROVE ViewInv'
  OBVIOUS
<1>1. Typed /\ Typed'
  BY TypedStep DEF ViewInv
<1>2. ASSUME Undisturbed', Ttl > HeartbeatMs
      PROVE  /\ Traced'
             /\ \A m \in Members : Steady(m)'
             /\ OneEach' /\ MaxSockets # 0
                => /\ \A s \in Sockets : Bare(s)'
                   /\ \A m \in Members : Ordered(m)'
                   /\ \A m \in Members : ListRight(m)' /\ LoadRight(m)'
  <2>1. Undisturbed /\ CalmStep
    BY <1>2, Calm
  <2>2. Traced /\ \A m \in Members : Steady(m)
    BY <1>2, <2>1 DEF ViewInv
  <2>3. Traced'
    BY <1>1, <2>1, <2>2, TracedStep
  <2>4. ASSUME NEW m \in Members PROVE Steady(m)'
    <3>1. OnlySocket(m)'
      BY <1>1, <2>1, <2>2, OnlySocketStep DEF Steady
    <3>2. Alive(m)'
      BY <1>1, <1>2, <2>1, <2>2, AliveStep DEF Steady
    <3>3. GhostFree(m)'
      BY <1>1, <2>1, <2>2, GhostFreeStep DEF Steady
    <3> QED BY <3>1, <3>2, <3>3 DEF Steady
  <2>5. ASSUME OneEach', MaxSockets # 0
        PROVE  /\ \A s \in Sockets : Bare(s)'
               /\ \A m \in Members : Ordered(m)'
               /\ \A m \in Members : ListRight(m)' /\ LoadRight(m)'
    <3>1. OneEach /\ OneEachStep
      BY <1>1, <1>2, <2>2, <2>5, OneEachSteps
    <3>2. \A s \in Sockets : Bare(s)
      BY <1>2, <2>1, <2>5, <3>1 DEF ViewInv
    <3>3. \A m \in Members : ListRight(m) /\ LoadRight(m)
      BY <1>2, <2>1, <2>5, <3>1 DEF ViewInv
    <3>4. \A m \in Members : Here(m) /\ LeavesLate(m) /\ JoinsLeave(m) /\ OwnJoinFirst(m)
      BY <1>2, <2>1, <2>5, <3>1 DEF ViewInv, Ordered
    <3>5. \A m \in Members : OnlySocket(m) /\ Alive(m) /\ GhostFree(m)
      BY <2>2 DEF Steady
    <3>6. \A s \in Sockets : Bare(s)'
      BY <1>1, <3>1, <3>2, BareStep
    <3>7. ASSUME NEW m \in Members PROVE Ordered(m)'
      <4>1. Here(m)'
        BY <1>1, <1>2, <2>1, <2>2, <2>3, <2>5, <3>1, <3>4, <3>5, HereStep
      <4>2. LeavesLate(m)'
        BY <1>1, <2>2, <2>5, <3>1, <3>4, LeavesLateStep
      <4>3. JoinsLeave(m)'
        BY <1>1, <2>2, <2>5, <3>1, <3>2, <3>4, JoinsLeaveStep
      <4>4. OwnJoinFirst(m)'
        BY <1>1, <2>2, <2>5, <3>1, <3>2, <3>4, OwnJoinStep
      <4> QED BY <4>1, <4>2, <4>3, <4>4 DEF Ordered
    <3>8. ASSUME NEW m \in Members PROVE ListRight(m)' /\ LoadRight(m)'
      BY <1>1, <2>2, <2>5, <3>1, <3>2, <3>3, <3>4, <3>5, ViewsStep
    <3> QED BY <3>6, <3>7, <3>8
  <2> QED BY <2>3, <2>4, <2>5
<1> QED BY <1>1, <1>2 DEF ViewInv

\* A page whose list was loaded without a race shows, whenever nothing is on its
\* way, exactly the others of the roster: the welcome comes after the page's own
\* join, no join is overtaken by its leave, and what changed while the roster
\* was read has left a message behind.
THEOREM ViewsKept == Spec => []ViewInStep
<1>1. ViewInv => ViewInStep
  <2> SUFFICES ASSUME ViewInv, Undisturbed, pipe = <<>>, replies = <<>>, Ttl > HeartbeatMs,
                      \A n \in Members : made[n] <= 1 /\ (Connected(n) => Beating(n)),
                      NEW m \in Members, m \in synced, Beating(m), inbox[Sock(m)] = <<>>
               PROVE  view[m] = {n \in Members \ {m} : Listed(n)}
    BY DEF ViewInStep, ViewInv, Typed, ViewTyped, Sock
  <2>1. /\ made \in [Members -> 0 .. MaxSockets] /\ interval \in [Members -> 0 .. MaxSockets]
        /\ \A n \in Members : interval[n] <= made[n]
        /\ view \in [Members -> SUBSET Members] /\ MaxSockets \in Nat
    BY SocketsAssumption DEF ViewInv, Typed, SocketsTyped, ViewTyped
  <2>2. ASSUME NEW n \in Members, Beating(n)
        PROVE  MaxSockets # 0 /\ Up(n)
    <3>1. interval[n] \in 0 .. MaxSockets /\ interval[n] # 0 /\ interval[n] <= made[n] /\ made[n] <= 1
          /\ made[n] \in Nat
      BY <2>1, <2>2 DEF Beating
    <3>2. interval[n] = 1 /\ MaxSockets # 0
      BY <2>1, <3>1
    <3> QED BY <2>2, <3>2 DEF Beating, Up, Sock
  <2>3. MaxSockets # 0 /\ Up(m)
    BY <2>2
  <2>4. OneEach /\ 1 \in 1 .. MaxSockets
    BY <2>1, <2>3 DEF OneEach
  <2>5. /\ \A n \in Members : Steady(n) /\ Ordered(n)
        /\ ListRight(m)
    BY <2>3, <2>4 DEF ViewInv
  <2>6. /\ \A X : At(pipe, X) = {} /\ At(replies, X) = {} /\ At(inbox[Sock(m)], X) = {}
        /\ \A n : CommandsOf(n) = {}
    BY NothingAt DEF CommandsOf
  <2>7. m \notin view[m] /\ Seen(m, view[m])
    BY <2>3, <2>5 DEF ListRight
  <2>8. ASSUME NEW n \in Members \ {m} PROVE n \in view[m] <=> Listed(n)
    <3>1. n \in view[m] => IsUp(n)
      BY <2>6, <2>7 DEF Seen, Stays, LeaveSent, LeaveRun
    <3>2. IsUp(n) => Connected(n)
      BY <2>4 DEF IsUp, Connected, Sock
    <3>3. Connected(n) => Up(n)
      BY <2>2
    <3>4. Up(n) => Listed(n)
      BY <2>5, <2>6 DEF Ordered, Here
    <3>5. n \notin view[m] => ~Up(n)
      BY <2>6, <2>7 DEF Seen, Comes, JoinSent, JoinRun
    <3>6. ~Connected(n) => ~Listed(n)
      BY <2>5, <2>6 DEF Steady, GhostFree, Listed
    <3> QED BY <3>1, <3>2, <3>3, <3>4, <3>5, <3>6
  <2> QED BY <2>1, <2>7, <2>8
<1> QED BY <1>1, ViewInit, ViewStep, PTL DEF Spec
=============================================================================

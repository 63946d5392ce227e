--------------------------- MODULE LicensesProofs ---------------------------
(***************************************************************************)
(* Proofs about Licenses, for every set of rows and inputs and any number  *)
(* of mutations under way at once.                                         *)
(***************************************************************************)
EXTENDS Licenses, Cardinalities

(***************************************************************************)
(* Type correctness                                                        *)
(***************************************************************************)

LEMMA SomeFormTyped == SomeForm \in FormType
BY FormsAssumption DEF SomeForm

LEMMA TypeInit == Init => TypeOK
BY SomeFormTyped, DaysAssumption DEF Init, TypeOK, Days, Statuses

LEMMA TypeStep == TypeOK /\ [Next]_vars => TypeOK'
<1> SUFFICES ASSUME TypeOK, [Next]_vars PROVE TypeOK'
  OBVIOUS
<1>1. CASE NextDay
  BY <1>1, DaysAssumption DEF NextDay, TypeOK, Days, rows, requests
<1>2. ASSUME NEW c \in Requests, NEW f \in Forms, NEW s \in Statuses,
             NEW id \in Ids \cup {NoId}, Asks(c, id, f, s)
      PROVE  TypeOK'
  BY <1>2, FormsAssumption DEF Asks, TypeOK, rows
<1>3. ASSUME NEW c \in Requests, NEW f \in Forms, NEW s \in Statuses, BeginCreate(c, f, s)
      PROVE  TypeOK'
  BY <1>2, <1>3 DEF BeginCreate, parseStatus, Live, Statuses
<1>4. ASSUME NEW c \in Requests, NEW l \in Ids, NEW f \in Forms, BeginUpdate(c, l, f)
      PROVE  TypeOK'
  <2>1. status[l] \in Statuses
    BY DEF TypeOK
  <2> QED BY <1>2, <1>4, <2>1, FormsAssumption DEF BeginUpdate
<1>5. ASSUME NEW c \in Requests, Check(c) \/ Refused(c) PROVE TypeOK'
  BY <1>5, SomeFormTyped DEF Check, Refused, Over, TypeOK, Statuses, rows
<1>6. ASSUME NEW c \in Requests, NEW l \in Ids, NEW f \in FormType, Written(c, l, f)
      PROVE  TypeOK' \/ stored' \notin SUBSET Ids
  BY <1>6, SomeFormTyped DEF Written, Over, TypeOK, Statuses
<1>7. ASSUME NEW c \in Requests, NEW l \in Ids, WriteCreate(c, l) PROVE TypeOK'
  BY <1>6, <1>7 DEF WriteCreate, TypeOK
<1>8. ASSUME NEW c \in Requests, WriteUpdate(c) PROVE TypeOK'
  <2> DEFINE f == IF payload[c].to = Open
                  THEN [payload[c] EXCEPT !.to = form[target[c]].to] ELSE payload[c]
  <2>1. target[c] \in Ids /\ f \in FormType
    BY <1>8 DEF WriteUpdate, TypeOK, FormType
  <2> QED BY <1>6, <1>8, <2>1 DEF WriteUpdate, TypeOK
<1>9. ASSUME NEW l \in Ids, Revoke(l) PROVE TypeOK'
  BY <1>9 DEF Revoke, TypeOK, FormType, Statuses, requests
<1>10. CASE Expirer
  <2>1. CASE \E p \in Passes : BeginPass(p) \/ PassFails(p)
    BY <2>1 DEF BeginPass, PassFails, TypeOK, rows, requests
  <2>2. CASE \E p \in Passes, l \in Ids : ExpireOne(p, l)
    BY <2>2 DEF ExpireOne, TypeOK, Statuses, requests
  <2>3. CASE ExpirerDies
    BY <2>3 DEF ExpirerDies, TypeOK, rows, requests
  <2> QED BY <1>10, <2>1, <2>2, <2>3 DEF Expirer
<1>11. CASE UNCHANGED vars
  BY <1>11 DEF vars, TypeOK, rows, requests
<1> QED
  BY <1>1, <1>3, <1>4, <1>5, <1>7, <1>8, <1>9, <1>10, <1>11, FormsAssumption DEF Next, Mutation

\* Rows, mutations and passes have their types (TypeOK): an update that keeps
\* the row's end still writes a well-formed range.
THEOREM TypeCorrect == Spec => []TypeOK
BY TypeInit, TypeStep, PTL DEF Spec

(***************************************************************************)
(* Overlaps.  A row in force may be the target of a mutation that is past  *)
(* its check and is going to write over it, so such rows are counted       *)
(* through the mutation: loose rows and engaged mutations together stay    *)
(* within the number of mutations under way.                               *)
(***************************************************************************)

Covers(f, k, t) == f.scope = k /\ f.from <= t /\ Until(t, f.to)

Engaged(k, t) == {c \in Requests : pc[c] = "write" /\ Covers(payload[c], k, t)}
Loose(k, t) == {l \in Covering(k, t) : \A c \in Engaged(k, t) : target[c] # l}

Room(k, t) == Cardinality(Loose(k, t)) + Cardinality(Engaged(k, t)) <= Cardinality(Requests)
RoomInv == \A k \in Scopes, t \in Days : Room(k, t)

\* Two ranges that hold the same day overlap.
LEMMA SharedDay ==
    ASSUME NEW f \in FormType, NEW g \in FormType, NEW k, NEW t \in Days,
           Covers(f, k, t), Covers(g, k, t)
    PROVE  f.scope = g.scope /\ rangesOverlap(f.from, f.to, g.from, g.to)
BY DaysAssumption DEF Covers, FormType, rangesOverlap, Until, Days, Open

\* What an update writes holds no day that its check did not look at.
LEMMA NarrowedByUpdate ==
    ASSUME NEW f \in FormType, NEW end \in Days \cup {Open}, NEW k, NEW t \in Days,
           Covers(IF f.to = Open THEN [f EXCEPT !.to = end] ELSE f, k, t)
    PROVE  Covers(f, k, t)
BY DEF Covers, FormType, Until

LEMMA PartsFinite ==
    ASSUME stored \subseteq Ids, NEW k, NEW t
    PROVE  /\ IsFiniteSet(Loose(k, t)) /\ IsFiniteSet(Covering(k, t)) /\ IsFiniteSet(Engaged(k, t))
           /\ Cardinality(Loose(k, t)) \in Nat /\ Cardinality(Covering(k, t)) \in Nat
           /\ Cardinality(Engaged(k, t)) \in Nat /\ Cardinality(Requests) \in Nat
           /\ Cardinality(Engaged(k, t)) <= Cardinality(Requests)
<1>1. /\ Loose(k, t) \subseteq Ids /\ Covering(k, t) \subseteq Ids
      /\ Engaged(k, t) \subseteq Requests
  BY DEF Loose, Covering, Engaged
<1> QED BY <1>1, FiniteAssumption, PartOf

\* A step in which some engaged mutations end and leave at most one row each.
LEMMA LetGo ==
    ASSUME TypeOK, TypeOK', NEW k, NEW t, Room(k, t), NEW G, G \subseteq Engaged(k, t),
           Engaged(k, t)' \subseteq Engaged(k, t) \ G, NEW f,
           \A l \in Loose(k, t)' : l \in Loose(k, t) \/ \E c \in G : f[c] = l
    PROVE  Room(k, t)'
<1> DEFINE L == Loose(k, t)'
           E == Engaged(k, t)'
<1>1. IsFiniteSet(L) /\ Cardinality(L) \in Nat /\ Cardinality(E) \in Nat
  <2>1. L \subseteq Ids /\ E \subseteq Requests
    BY DEF Loose, Covering, Engaged, TypeOK
  <2> QED BY <2>1, FiniteAssumption, PartOf
<1>2. /\ IsFiniteSet(Loose(k, t)) /\ IsFiniteSet(Engaged(k, t))
      /\ Cardinality(Loose(k, t)) \in Nat /\ Cardinality(Engaged(k, t)) \in Nat
      /\ Cardinality(Requests) \in Nat
  BY PartsFinite DEF TypeOK
<1>3. Cardinality(L) + Cardinality(E) <= Cardinality(Loose(k, t)) + Cardinality(Engaged(k, t))
  BY <1>1, <1>2, Traded
<1> HIDE DEF L, E
<1>4. Cardinality(L) + Cardinality(E) <= Cardinality(Requests)
  BY <1>1, <1>2, <1>3 DEF Room
<1> QED BY <1>4 DEF Room, L, E

\* A step after which nothing new is loose and nobody new is engaged.
LEMMA NoMore ==
    ASSUME TypeOK, TypeOK', NEW k, NEW t, Room(k, t),
           Loose(k, t)' \subseteq Loose(k, t), Engaged(k, t)' \subseteq Engaged(k, t)
    PROVE  Room(k, t)'
<1> DEFINE G == {}
<1>1. \A l \in Loose(k, t)' : l \in Loose(k, t) \/ \E c \in G : target[c] = l
  OBVIOUS
<1>2. G \subseteq Engaged(k, t) /\ Engaged(k, t)' \subseteq Engaged(k, t) \ G
  OBVIOUS
<1> QED BY <1>1, <1>2, LetGo

LEMMA RoomInit == Init => RoomInv
<1> SUFFICES ASSUME Init, NEW k \in Scopes, NEW t \in Days PROVE Room(k, t)
  BY DEF RoomInv
<1>1. Loose(k, t) = {} /\ Engaged(k, t) = {}
  BY DEF Init, Loose, Covering, Engaged
<1>2. Cardinality(Requests) \in Nat
  BY FiniteAssumption, FS_CardinalityType
<1> QED BY <1>1, <1>2, FS_EmptySet DEF Room

\* A mutation that passes its check finds no row in force on a day it asks for,
\* but for the one it is going to write over.
LEMMA CheckStep ==
    ASSUME TypeOK, TypeOK', NEW k \in Scopes, NEW t \in Days, Room(k, t),
           NEW c \in Requests, Check(c)
    PROVE  Room(k, t)'
<1>1. CASE ~Covers(payload[c], k, t)
  <2>1. Engaged(k, t)' = Engaged(k, t)
    BY <1>1 DEF Check, Engaged, Covers, TypeOK, rows
  <2>2. Loose(k, t)' = Loose(k, t)
    BY <2>1 DEF Check, Loose, Covering, rows
  <2> QED BY <2>1, <2>2, NoMore
<1>2. CASE Covers(payload[c], k, t)
  <2>1. c \in Engaged(k, t)'
    BY <1>2 DEF Check, Engaged, Covers, TypeOK, rows
  <2>2. ASSUME NEW l \in Covering(k, t)' PROVE l = target'[c]
    <3>1. l \in Covering(k, t) /\ target' = target
      BY <2>2 DEF Check, Covering, rows
    <3>2. Covers(form[l], k, t) /\ form[l] \in FormType /\ payload[c] \in FormType
      BY <3>1 DEF Covering, Covers, TypeOK
    <3>3. /\ form[l].scope = payload[c].scope
          /\ rangesOverlap(payload[c].from, payload[c].to, form[l].from, form[l].to)
      BY <1>2, <3>2, SharedDay
    <3> QED BY <3>1, <3>3 DEF Check, Conflicts, Covering
  <2>3. Loose(k, t)' = {}
    BY <2>1, <2>2 DEF Loose
  <2>4. Cardinality(Engaged(k, t)') <= Cardinality(Requests)
    <3>1. Engaged(k, t)' \subseteq Requests
      BY DEF Engaged
    <3> QED BY <3>1, FiniteAssumption, PartOf
  <2>5. Cardinality(Engaged(k, t)') \in Nat
    <3>1. Engaged(k, t)' \subseteq Requests
      BY DEF Engaged
    <3> QED BY <3>1, FiniteAssumption, PartOf
  <2> DEFINE E == Cardinality(Engaged(k, t)')
  <2>6. 0 + E <= Cardinality(Requests)
    BY <2>4, <2>5
  <2> HIDE DEF E
  <2>7. Cardinality(Loose(k, t)') = 0
    BY <2>3, FS_EmptySet
  <2> QED BY <2>6, <2>7 DEF Room, E
<1> QED BY <1>1, <1>2

\* A mutation that ends without writing lets its row go.
LEMMA RefusedStep ==
    ASSUME TypeOK, TypeOK', NEW k \in Scopes, NEW t \in Days, Room(k, t),
           NEW c \in Requests, Refused(c)
    PROVE  Room(k, t)'
<1> DEFINE G == {c} \cap Engaged(k, t)
<1>1. Engaged(k, t)' \subseteq Engaged(k, t) \ G
  BY DEF Refused, Over, Engaged, TypeOK
<1>2. ASSUME NEW l \in Loose(k, t)' PROVE l \in Loose(k, t) \/ \E d \in G : target[d] = l
  <2>1. l \in Covering(k, t)
    BY <1>2 DEF Refused, Loose, Covering, rows
  <2>2. ASSUME NEW d \in Engaged(k, t), target[d] = l PROVE d = c
    BY <1>2, <2>2 DEF Refused, Over, Loose, Engaged, TypeOK
  <2> QED BY <2>1, <2>2 DEF Loose
<1> QED BY <1>1, <1>2, LetGo

\* A mutation that writes turns from engaged into at most one row in force.
LEMMA WrittenStep ==
    ASSUME TypeOK, TypeOK', NEW k \in Scopes, NEW t \in Days, Room(k, t),
           NEW c \in Requests, NEW l \in Ids, NEW f \in FormType, Written(c, l, f),
           stored' \subseteq stored \cup {l},
           target[c] = NoId \/ target[c] = l,
           Covers(f, k, t) => Covers(payload[c], k, t)
    PROVE  Room(k, t)'
<1> DEFINE G == {c} \cap Engaged(k, t)
           wrote == [d \in Requests |-> l]
<1>1. Engaged(k, t)' \subseteq Engaged(k, t) \ G
  BY DEF Written, Over, Engaged, TypeOK
<1>2. ASSUME NEW i \in Loose(k, t)' PROVE i \in Loose(k, t) \/ \E d \in G : wrote[d] = i
  <2>1. CASE i = l
    <3>1. Covers(f, k, t)
      BY <1>2, <2>1 DEF Written, Loose, Covering, Covers, TypeOK
    <3>2. c \in G
      BY <3>1 DEF Written, Engaged
    <3> QED BY <2>1, <3>2
  <2>2. CASE i # l
    <3>1. i \in Covering(k, t)
      BY <1>2, <2>2 DEF Written, Loose, Covering, TypeOK
    <3>2. ASSUME NEW d \in Engaged(k, t) PROVE target[d] # i
      <4>1. CASE d = c
        <5>1. i \in Ids
          BY <1>2 DEF Loose, Covering, TypeOK
        <5> QED BY <2>2, <4>1, <5>1, NullAssumption
      <4>2. CASE d # c
        BY <1>2, <3>2, <4>2 DEF Written, Over, Loose, Engaged, TypeOK
      <4> QED BY <4>1, <4>2
    <3> QED BY <3>1, <3>2 DEF Loose
  <2> QED BY <2>1, <2>2
<1> QED BY <1>1, <1>2, LetGo

LEMMA RoomStep == TypeOK /\ TypeOK' /\ RoomInv /\ [Next]_vars => RoomInv'
<1> SUFFICES ASSUME TypeOK, TypeOK', [Next]_vars, NEW k \in Scopes, NEW t \in Days, Room(k, t)
             PROVE  Room(k, t)'
  BY DEF RoomInv
<1>1. CASE NextDay
  BY <1>1, NoMore DEF NextDay, Loose, Covering, Engaged, rows, requests
<1>2. ASSUME NEW c \in Requests, NEW id, NEW f, NEW s, Asks(c, id, f, s)
      PROVE  Room(k, t)'
  <2>1. Engaged(k, t)' = Engaged(k, t) /\ \A d \in Engaged(k, t) : target'[d] = target[d]
    BY <1>2 DEF Asks, Engaged, TypeOK
  <2>2. Loose(k, t)' = Loose(k, t)
    BY <1>2, <2>1 DEF Asks, Loose, Covering, rows
  <2> QED BY <2>1, <2>2, NoMore
<1>3. ASSUME NEW c \in Requests, NEW f \in Forms, NEW s \in Asked, BeginCreate(c, f, s)
      PROVE  Room(k, t)'
  BY <1>2, <1>3 DEF BeginCreate
<1>4. ASSUME NEW c \in Requests, NEW l \in Ids, NEW f \in Forms, BeginUpdate(c, l, f)
      PROVE  Room(k, t)'
  BY <1>2, <1>4 DEF BeginUpdate
<1>5. ASSUME NEW c \in Requests, Check(c) \/ Refused(c) PROVE Room(k, t)'
  BY <1>5, CheckStep, RefusedStep
<1>6. ASSUME NEW c \in Requests, NEW l \in Ids, WriteCreate(c, l) PROVE Room(k, t)'
  <2>1. payload[c] \in FormType
    BY DEF TypeOK
  <2> QED BY <1>6, <2>1, WrittenStep DEF WriteCreate
<1>7. ASSUME NEW c \in Requests, WriteUpdate(c) PROVE Room(k, t)'
  <2> DEFINE f == IF payload[c].to = Open
                  THEN [payload[c] EXCEPT !.to = form[target[c]].to] ELSE payload[c]
  <2>1. target[c] \in Ids /\ f \in FormType
    BY <1>7 DEF WriteUpdate, TypeOK, FormType
  <2>2. form[target[c]].to \in Days \cup {Open} /\ payload[c] \in FormType
    BY <2>1 DEF TypeOK, FormType
  <2>3. Covers(f, k, t) => Covers(payload[c], k, t)
    BY <2>2, NarrowedByUpdate
  <2>4. Written(c, target[c], f) /\ stored' = stored
    BY <1>7 DEF WriteUpdate
  <2> HIDE DEF f
  <2> QED BY <2>1, <2>3, <2>4, WrittenStep
<1>8. ASSUME NEW l \in Ids, Revoke(l) PROVE Room(k, t)'
  <2>1. Engaged(k, t)' = Engaged(k, t)
    BY <1>8 DEF Revoke, Engaged, requests
  <2>2. Covering(k, t)' \subseteq Covering(k, t)
    BY <1>8 DEF Revoke, Covering, Live, TypeOK
  <2>3. Loose(k, t)' \subseteq Loose(k, t)
    BY <1>8, <2>1, <2>2 DEF Revoke, Loose, requests
  <2> QED BY <2>1, <2>3, NoMore
<1>9. CASE Expirer
  <2>1. UNCHANGED <<stored, form, requests>>
    BY <1>9 DEF Expirer, BeginPass, ExpireOne, PassFails, ExpirerDies, rows
  <2>2. \A l \in stored : status'[l] = status[l] \/ status'[l] = "expired"
    <3>1. UNCHANGED status \/ \E p \in Passes, i \in Ids : ExpireOne(p, i)
      BY <1>9 DEF Expirer, BeginPass, PassFails, ExpirerDies, rows
    <3> QED BY <3>1 DEF ExpireOne, TypeOK
  <2>3. Engaged(k, t)' = Engaged(k, t)
    BY <2>1 DEF Engaged, requests
  <2>4. Covering(k, t)' \subseteq Covering(k, t)
    BY <2>1, <2>2 DEF Covering, Live
  <2>5. Loose(k, t)' \subseteq Loose(k, t)
    BY <2>1, <2>3, <2>4 DEF Loose, requests
  <2> QED BY <2>3, <2>5, NoMore
<1>10. CASE UNCHANGED vars
  BY <1>10, NoMore DEF vars, Loose, Covering, Engaged, rows, requests
<1> QED
  BY <1>1, <1>3, <1>4, <1>5, <1>6, <1>7, <1>8, <1>9, <1>10 DEF Next, Mutation

\* Whatever order the queries of concurrent mutations, revocations and expirer
\* passes take, no more licences of one scope share a day than mutations are
\* under way at once (OverlapBound); mutations one at a time leave no overlap.
THEOREM OverlapBounded == Spec => []OverlapBound
<1>1. TypeOK /\ RoomInv => OverlapBound
  <2> SUFFICES ASSUME TypeOK, RoomInv, NEW k \in Scopes, NEW t \in Days
               PROVE  Cardinality(Covering(k, t)) <= Cardinality(Requests)
    BY DEF OverlapBound
  <2>1. ASSUME NEW l \in Covering(k, t)
        PROVE  l \in Loose(k, t) \/ \E c \in Engaged(k, t) : target[c] = l
    BY DEF Loose
  <2>2. stored \subseteq Ids
    BY DEF TypeOK
  <2>3. Cardinality(Covering(k, t)) <= Cardinality(Loose(k, t)) + Cardinality(Engaged(k, t))
    BY <2>1, <2>2, PartsFinite, Cover
  <2> QED BY <2>2, <2>3, PartsFinite DEF RoomInv, Room
<1>2. Spec => []RoomInv
  BY RoomInit, RoomStep, TypeCorrect, PTL DEF Spec
<1> QED BY <1>1, <1>2, TypeCorrect, PTL
=============================================================================

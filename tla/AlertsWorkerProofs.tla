------------------------- MODULE AlertsWorkerProofs -------------------------
(***************************************************************************)
(* Proofs about AlertsWorker, for every set of rules, channels and limits  *)
(* and any number of cycles under way at once.                             *)
(***************************************************************************)
EXTENDS AlertsWorker, Cardinalities

(***************************************************************************)
(* Type correctness                                                        *)
(***************************************************************************)

\* Where a cycle has a rule, and where it has an event row of that rule.
Holds == {"send", "markSent", "markRule", "markFailed"}
Engages == {"fetch", "recent", "create"} \cup Holds

RuleKnown == \A c \in Cycles : pc[c] \in Engages \cup {"limit"} => rule[c] \in Rules
HoldsRow == \A c \in Cycles : pc[c] \in Holds =>
                /\ held[c] \in Events
                /\ evStatus[held[c]] # "none"
                /\ evRule[held[c]] = rule[c]
HoldsNone == \A c \in Cycles : pc[c] \notin Holds => held[c] = NoEvent

TypeInv == TypeOK /\ RuleKnown /\ HoldsRow /\ HoldsNone

LEMMA TypeInit == Init => TypeInv
BY TimeAssumption DEF Init, TypeInv, TypeOK, RuleKnown, HoldsRow, HoldsNone, Times, Statuses,
   PcStates, Holds, Engages, Never

LEMMA TypeStep == TypeInv /\ [Next]_vars => TypeInv'
<1> SUFFICES ASSUME TypeInv, [Next]_vars PROVE TypeInv'
  OBVIOUS
<1> USE DEF TypeInv, RuleKnown, HoldsRow, HoldsNone, Holds, Engages, PcStates
<1>1. CASE Tick
  BY <1>1, TimeAssumption DEF Tick, TypeOK, Times, eventVars, cycleVars
<1>2. CASE Crash
  BY <1>2 DEF Crash, TypeOK, eventVars
<1>3. ASSUME NEW c \in Cycles, CycleStep(c) PROVE TypeInv'
  <2>1. CASE Start(c)
    BY <2>1 DEF Start, Goto, TypeOK, eventVars
  <2>2. CASE \E r \in Rules : NextRule(c, r) \/ SkipRule(c, r)
    <3>1. ASSUME NEW r \in Rules, NextRule(c, r) PROVE TypeInv'
      BY <3>1 DEF NextRule, Goto, TypeOK, eventVars
    <3>2. ASSUME NEW r \in Rules, SkipRule(c, r) PROVE TypeInv'
      BY <3>2 DEF SkipRule, TypeOK, eventVars
    <3> QED BY <2>2, <3>1, <3>2
  <2>3. CASE CheckLimit(c)
    BY <2>3 DEF CheckLimit, Goto, TypeOK, eventVars
  <2>4. CASE \E found \in SUBSET Entities : Fetch(c, found)
    BY <2>4 DEF Fetch, Goto, TypeOK, eventVars
  <2>5. CASE \E x \in Entities : SkipMatch(c, x) \/ TakeMatch(c, x)
    <3>1. ASSUME NEW x \in Entities, SkipMatch(c, x) PROVE TypeInv'
      BY <3>1 DEF SkipMatch, TypeOK, eventVars
    <3>2. ASSUME NEW x \in Entities, TakeMatch(c, x) PROVE TypeInv'
      BY <3>2 DEF TakeMatch, Goto, TypeOK, eventVars
    <3> QED BY <2>5, <3>1, <3>2
  <2>6. CASE EndMatches(c) \/ End(c) \/ DbFails(c)
    BY <2>6 DEF EndMatches, End, DbFails, Dropped, Goto, TypeOK, eventVars
  <2>7. CASE \E i \in Events : Create(c, i)
    BY <2>7 DEF Create, InsertEvent, Goto, TypeOK, Statuses
  <2>8. CASE Send(c) \/ SendFails(c)
    BY <2>8 DEF Send, SendFails, Goto, TypeOK
  <2>9. CASE MarkSent(c)
    BY <2>9 DEF MarkSent, StampSent, Goto, TypeOK, Statuses
  <2>10. CASE MarkRule(c)
    BY <2>10 DEF MarkRule, StampRule, Goto, TypeOK, eventVars
  <2>11. CASE MarkFailed(c)
    BY <2>11 DEF MarkFailed, StampFailed, Goto, TypeOK, Statuses
  <2>12. CASE AnswerLost(c) /\ pc[c] \in {"markSent", "markFailed"}
    <3>1. /\ held[c] \in Events /\ UNCHANGED <<now, lastTrig, evRule, evEntity, delivered, snap,
                                               rule, target>>
          /\ \E t \in {"sent", "failed"} : evStatus' = [evStatus EXCEPT ![held[c]] = t]
      BY <2>12 DEF AnswerLost, StampSent, StampFailed, Dropped, Goto
    <3>2. evAt' = evAt \/ evAt' = [evAt EXCEPT ![held[c]] = now]
      BY <2>12 DEF AnswerLost, StampSent, StampFailed, Goto
    <3>3. \/ pc' = [pc EXCEPT ![c] = "markFailed"] /\ UNCHANGED <<todo, matches, held>>
          \/ pc' = [pc EXCEPT ![c] = "idle"] /\ Dropped(c)
      BY <2>12 DEF AnswerLost, Goto
    <3>4. TypeOK'
      <4>1. evStatus' \in [Events -> Statuses] /\ evAt' \in [Events -> Times]
        BY <3>1, <3>2 DEF TypeOK, Statuses
      <4>2. pc' \in [Cycles -> PcStates]
        BY <3>3 DEF TypeOK
      <4>3. /\ todo' \in [Cycles -> SUBSET Rules] /\ matches' \in [Cycles -> SUBSET Entities]
            /\ held' \in [Cycles -> Events \cup {NoEvent}]
        BY <3>3 DEF TypeOK, Dropped
      <4> QED BY <3>1, <4>1, <4>2, <4>3 DEF TypeOK
    <3>5. \A i \in Events : evStatus[i] # "none" => evStatus'[i] # "none"
      BY <3>1 DEF TypeOK
    <3>6. \A d \in Cycles : d # c => pc'[d] = pc[d] /\ held'[d] = held[d]
      BY <3>3 DEF TypeOK, Dropped
    <3>7. RuleKnown' /\ HoldsRow' /\ HoldsNone'
      <4>1. \/ pc'[c] = "markFailed" /\ held'[c] = held[c] /\ pc[c] \in Holds
            \/ pc'[c] = "idle" /\ held'[c] = NoEvent
        BY <2>12, <3>3 DEF TypeOK, Dropped
      <4> QED BY <3>1, <3>5, <3>6, <4>1
    <3> QED BY <3>4, <3>7
  <2>13. CASE AnswerLost(c) /\ pc[c] = "markRule"
    BY <2>13 DEF AnswerLost, StampRule, Goto, TypeOK, eventVars
  <2>14. CASE AnswerLost(c) /\ pc[c] = "create"
    <3>1. PICK i \in Events : InsertEvent(c, i)
      BY <2>14 DEF AnswerLost, Goto
    <3>2. pc' = [pc EXCEPT ![c] = "idle"] /\ Dropped(c) /\ UNCHANGED lastTrig /\ rule[c] \in Rules
      BY <2>14 DEF AnswerLost, Goto
    <3>3. TypeOK'
      BY <3>1, <3>2 DEF InsertEvent, Dropped, TypeOK, Statuses
    <3>4. /\ \A d \in Cycles : d # c => pc'[d] = pc[d] /\ held'[d] = held[d]
          /\ pc'[c] = "idle" /\ held'[c] = NoEvent /\ rule' = rule
      BY <3>2 DEF Dropped, TypeOK
    <3>5. \A j \in Events : evStatus[j] # "none"
              => evStatus'[j] = evStatus[j] /\ evRule'[j] = evRule[j]
      BY <3>1 DEF InsertEvent, TypeOK
    <3> QED BY <3>3, <3>4, <3>5
  <2>15. AnswerLost(c) => pc[c] \in {"markSent", "markFailed", "markRule", "create"}
    BY DEF AnswerLost, Goto
  <2> QED
    BY <1>3, <2>1, <2>2, <2>3, <2>4, <2>5, <2>6, <2>7, <2>8, <2>9, <2>10,
       <2>11, <2>12, <2>13, <2>14, <2>15 DEF CycleStep
<1>4. CASE UNCHANGED vars
  BY <1>4 DEF vars, TypeOK, eventVars, cycleVars
<1> QED BY <1>1, <1>2, <1>3, <1>4 DEF Next

LEMMA TypeInvariance == Spec => []TypeInv
BY TypeInit, TypeStep, PTL DEF Spec

\* Every field of the two tables and every local variable of a cycle has its
\* type, and a cycle past create() holds the row it created (TypeOK).
THEOREM TypeCorrect == Spec => []TypeOK
<1>1. TypeInv => TypeOK
  BY DEF TypeInv
<1> QED BY <1>1, TypeInvariance, PTL

(***************************************************************************)
(* The rate limit.  Usage counts what the worker's own check counts; an    *)
(* event held by a cycle may leave the window and be stamped into it again *)
(* by MarkSent, so held events are counted through the cycle that holds    *)
(* them: loose events and engaged cycles together stay within the limit    *)
(* plus the number of the other cycles.                                    *)
(***************************************************************************)

Loose(ch) == {i \in Usage(ch) : \A c \in Cycles : held[c] # i}
Engaged(ch) == {c \in Cycles : pc[c] \in Engages /\ ChannelOf[rule[c]] = ch}

Room(ch) == Cardinality(Loose(ch)) + Cardinality(Engaged(ch))
                <= RateLimit[ch] + Cardinality(Cycles) - 1
RateInv == \A ch \in Channels : Room(ch)

LEMMA PartsFinite ==
    ASSUME NEW ch \in Channels
    PROVE  /\ IsFiniteSet(Loose(ch)) /\ IsFiniteSet(Usage(ch)) /\ IsFiniteSet(Engaged(ch))
           /\ Cardinality(Loose(ch)) \in Nat /\ Cardinality(Usage(ch)) \in Nat
           /\ Cardinality(Engaged(ch)) \in Nat
           /\ Cardinality(Loose(ch)) <= Cardinality(Usage(ch))
           /\ Cardinality(Engaged(ch)) <= Cardinality(Cycles)
           /\ Cardinality(Cycles) \in Nat
<1>1. Loose(ch) \subseteq Usage(ch) /\ Usage(ch) \subseteq Events /\ Engaged(ch) \subseteq Cycles
  BY DEF Loose, Usage, Engaged
<1>2. IsFiniteSet(Usage(ch)) /\ Cardinality(Usage(ch)) \in Nat
  BY <1>1, FiniteAssumption, PartOf
<1> QED BY <1>1, <1>2, FiniteAssumption, PartOf

\* A step in which some engaged cycles end and each leaves at most one row loose,
\* the one it held or one it has just created.
LEMMA LetGo ==
    ASSUME NEW ch \in Channels, Room(ch), NEW G, G \subseteq Engaged(ch),
           Engaged(ch)' \subseteq Engaged(ch) \ G,
           NEW f, \A i \in Loose(ch)' : i \in Loose(ch) \/ \E c \in G : f[c] = i
    PROVE  Room(ch)'
<1> DEFINE L == Loose(ch)'
           E == Engaged(ch)'
<1>1. IsFiniteSet(L) /\ Cardinality(L) \in Nat /\ Cardinality(E) \in Nat
  <2>1. L \subseteq Events /\ E \subseteq Cycles
    BY DEF Loose, Usage, Engaged
  <2> QED BY <2>1, FiniteAssumption, PartOf
<1>2. Cardinality(L) + Cardinality(E) <= Cardinality(Loose(ch)) + Cardinality(Engaged(ch))
  BY <1>1, PartsFinite, Traded
<1> HIDE DEF L, E
<1>3. Cardinality(L) + Cardinality(E) <= RateLimit[ch] + Cardinality(Cycles) - 1
  BY <1>1, <1>2, PartsFinite, RulesAssumption DEF Room
<1> QED BY <1>3 DEF Room, L, E

\* A step after which nothing new is loose and nobody new is engaged.
LEMMA NoMore ==
    ASSUME NEW ch \in Channels, Room(ch),
           Loose(ch)' \subseteq Loose(ch), Engaged(ch)' \subseteq Engaged(ch)
    PROVE  Room(ch)'
<1> DEFINE G == {}
<1>1. \A i \in Loose(ch)' : i \in Loose(ch) \/ \E c \in G : held[c] = i
  OBVIOUS
<1>2. G \subseteq Engaged(ch) /\ Engaged(ch)' \subseteq Engaged(ch) \ G
  OBVIOUS
<1> QED BY <1>1, <1>2, LetGo

LEMMA RateInit == Init => RateInv
<1> SUFFICES ASSUME Init, NEW ch \in Channels PROVE Room(ch)
  BY DEF RateInv
<1>1. Loose(ch) = {} /\ Engaged(ch) = {}
  BY DEF Init, Loose, Usage, Engaged, Engages, Holds, Counting
<1>2. Cardinality(Cycles) \in Nat /\ Cardinality(Cycles) # 0
  BY FiniteAssumption, FS_CardinalityType, FS_EmptySet
<1> QED BY <1>1, <1>2, FS_EmptySet, RulesAssumption DEF Room

LEMMA RateStep == TypeInv /\ RateInv /\ [Next]_vars => RateInv'
<1> SUFFICES ASSUME TypeInv, RateInv, [Next]_vars, NEW ch \in Channels PROVE Room(ch)'
  BY DEF RateInv
<1> USE DEF RuleKnown, HoldsRow, HoldsNone, Holds, Engages
<1>0. TypeOK /\ RuleKnown /\ HoldsRow /\ HoldsNone /\ Room(ch)
  BY DEF TypeInv, RateInv
<1>1. CASE Tick
  <2>1. Loose(ch)' \subseteq Loose(ch)
    BY <1>0, <1>1, TimeAssumption DEF Tick, Loose, Usage, eventVars, cycleVars, TypeOK, Times
  <2>2. Engaged(ch)' = Engaged(ch)
    BY <1>1 DEF Tick, Engaged, cycleVars
  <2> QED BY <1>0, <2>1, <2>2, NoMore
<1>2. CASE Crash
  <2>1. Engaged(ch)' = {}
    BY <1>2 DEF Crash, Engaged
  <2>2. ASSUME NEW i \in Loose(ch)'
        PROVE  i \in Loose(ch) \/ \E c \in Engaged(ch) : held[c] = i
    <3>1. i \in Usage(ch)
      BY <1>2, <2>2 DEF Crash, Loose, Usage, eventVars
    <3>2. ASSUME NEW c \in Cycles, held[c] = i PROVE c \in Engaged(ch)
      BY <1>0, <3>1, <3>2, NullAssumption DEF Usage, Engaged
    <3> QED BY <3>1, <3>2 DEF Loose
  <2> QED BY <1>0, <2>1, <2>2, LetGo
<1>3. ASSUME NEW c \in Cycles, CycleStep(c) PROVE Room(ch)'
  <2>1. CASE CheckLimit(c) /\ pc'[c] = "fetch" /\ ChannelOf[rule[c]] = ch
    <3>1. Loose(ch)' = Loose(ch) /\ Usage(ch)' = Usage(ch)
      BY <2>1 DEF CheckLimit, Loose, Usage, eventVars
    <3>2. ~(Cardinality(Usage(ch)) >= RateLimit[ch])
      BY <1>0, <2>1 DEF CheckLimit, Goto, TypeOK
    <3>3. IsFiniteSet(Engaged(ch)') /\ Cardinality(Engaged(ch)') \in Nat
          /\ Cardinality(Engaged(ch)') <= Cardinality(Cycles)
      <4>1. Engaged(ch)' \subseteq Cycles
        BY DEF Engaged
      <4> QED BY <4>1, FiniteAssumption, PartOf
    <3> DEFINE E == Cardinality(Engaged(ch)')
    <3> HIDE DEF E
    <3>4. Cardinality(Loose(ch)) + E <= RateLimit[ch] + Cardinality(Cycles) - 1
      BY <3>2, <3>3, PartsFinite, RulesAssumption DEF E
    <3>5. Cardinality(Loose(ch))' = Cardinality(Loose(ch))
      BY <3>1
    <3> QED BY <3>4, <3>5 DEF Room, E
  <2>2. CASE CheckLimit(c) /\ ~(pc'[c] = "fetch" /\ ChannelOf[rule[c]] = ch)
    <3>1. Loose(ch)' = Loose(ch)
      BY <2>2 DEF CheckLimit, Loose, Usage, eventVars
    <3>2. Engaged(ch)' \subseteq Engaged(ch)
      BY <1>0, <2>2 DEF CheckLimit, Goto, Engaged, TypeOK
    <3> QED BY <1>0, <3>1, <3>2, NoMore
  <2>3. CASE \/ Start(c) \/ EndMatches(c) \/ \E r \in Rules : NextRule(c, r) \/ SkipRule(c, r)
             \/ \E found \in SUBSET Entities : Fetch(c, found)
             \/ \E x \in Entities : SkipMatch(c, x) \/ TakeMatch(c, x)
    <3>1. Loose(ch)' = Loose(ch)
      BY <2>3 DEF Start, EndMatches, NextRule, SkipRule, Fetch, SkipMatch, TakeMatch, Loose,
         Usage, eventVars
    <3>2. Engaged(ch)' \subseteq Engaged(ch)
      BY <1>0, <2>3 DEF Start, EndMatches, NextRule, SkipRule, Fetch, SkipMatch, TakeMatch, Goto,
         Engaged, TypeOK
    <3> QED BY <1>0, <3>1, <3>2, NoMore
  <2>4. CASE \E i \in Events : Create(c, i)
    <3>1. ASSUME NEW j \in Events, Create(c, j), NEW i \in Loose(ch)' PROVE i \in Loose(ch)
      <4>1. held'[c] = j /\ held[c] = NoEvent /\ pc[c] = "create"
        BY <1>0, <3>1 DEF Create, InsertEvent, Goto, TypeOK
      <4>2. i # j /\ i \in Events
        BY <3>1, <4>1 DEF Loose, Usage
      <4>3. i \in Usage(ch)
        BY <1>0, <3>1, <4>2 DEF Create, InsertEvent, Loose, Usage, TypeOK
      <4>4. \A d \in Cycles : held[d] # i
        BY <1>0, <3>1, <4>1, <4>2, NullAssumption DEF Create, InsertEvent, Loose, TypeOK
      <4> QED BY <4>3, <4>4 DEF Loose
    <3>2. Engaged(ch)' \subseteq Engaged(ch)
      BY <1>0, <2>4 DEF Create, InsertEvent, Goto, Engaged, TypeOK
    <3> QED BY <1>0, <2>4, <3>1, <3>2, NoMore
  <2>5. CASE Send(c) \/ SendFails(c) \/ MarkSent(c) \/ (AnswerLost(c) /\ pc[c] = "markSent")
    <3>1. Loose(ch)' \subseteq Loose(ch)
      BY <1>0, <2>5 DEF Send, SendFails, MarkSent, AnswerLost, StampSent, Goto, Loose, Usage,
         TypeOK
    <3>2. Engaged(ch)' \subseteq Engaged(ch)
      BY <1>0, <2>5 DEF Send, SendFails, MarkSent, AnswerLost, StampSent, Goto, Engaged, TypeOK
    <3> QED BY <1>0, <3>1, <3>2, NoMore
  <2>6. CASE MarkFailed(c) \/ (AnswerLost(c) /\ pc[c] = "markFailed")
    <3>1. Loose(ch)' \subseteq Loose(ch)
      BY <1>0, <2>6 DEF MarkFailed, AnswerLost, StampFailed, Dropped, Goto, Loose, Usage,
           Counting, TypeOK
    <3>2. Engaged(ch)' \subseteq Engaged(ch)
      BY <1>0, <2>6 DEF MarkFailed, AnswerLost, StampFailed, Dropped, Goto, Engaged, TypeOK
    <3> QED BY <1>0, <3>1, <3>2, NoMore
  <2>7. CASE MarkRule(c) \/ End(c) \/ (DbFails(c) /\ pc'[c] = "idle")
    <3> DEFINE G == {c} \cap Engaged(ch)
    <3>1. Engaged(ch)' \subseteq Engaged(ch) \ G
      BY <1>0, <2>7 DEF MarkRule, StampRule, End, DbFails, Dropped, Goto, Engaged, TypeOK
    <3>2. ASSUME NEW i \in Loose(ch)'
          PROVE  i \in Loose(ch) \/ \E d \in G : held[d] = i
      <4>1. i \in Usage(ch)
        BY <2>7, <3>2 DEF MarkRule, StampRule, End, DbFails, Dropped, Loose, Usage, eventVars
      <4>2. ASSUME NEW d \in Cycles, held[d] = i PROVE d \in G
        <5>1. d = c
          BY <1>0, <2>7, <3>2, <4>2
             DEF MarkRule, StampRule, End, DbFails, Dropped, Goto, Loose, TypeOK
        <5>2. d \in Engaged(ch)
          BY <1>0, <4>1, <4>2, NullAssumption DEF Usage, Engaged
        <5> QED BY <5>1, <5>2
      <4> QED BY <4>1, <4>2 DEF Loose
    <3>3. G \subseteq Engaged(ch)
      OBVIOUS
    <3> HIDE DEF G
    <3> QED BY <1>0, <3>1, <3>2, <3>3, LetGo
  <2>8. CASE \/ DbFails(c) /\ pc'[c] # "idle"
             \/ AnswerLost(c) /\ pc[c] = "markRule"
    <3>1. Loose(ch)' = Loose(ch)
      BY <1>0, <2>8 DEF DbFails, AnswerLost, Goto, Loose, Usage, eventVars, TypeOK
    <3>2. Engaged(ch)' \subseteq Engaged(ch)
      BY <1>0, <2>8 DEF DbFails, AnswerLost, Goto, Engaged, TypeOK
    <3> QED BY <1>0, <3>1, <3>2, NoMore
  <2>9. CASE AnswerLost(c) /\ pc[c] = "create"
    <3>1. PICK i \in Events : InsertEvent(c, i)
      BY <2>9 DEF AnswerLost, Goto
    <3>2. /\ pc' = [pc EXCEPT ![c] = "idle"] /\ Dropped(c)
          /\ held[c] = NoEvent /\ rule[c] \in Rules
      BY <1>0, <2>9 DEF AnswerLost, Goto
    <3>3. /\ \A d \in Cycles : held'[d] = held[d]
          /\ evRule'[i] = rule[c] /\ UNCHANGED <<now, rule>>
          /\ \A j \in Events : j # i => /\ evStatus'[j] = evStatus[j] /\ evAt'[j] = evAt[j]
                                        /\ evRule'[j] = evRule[j]
      BY <1>0, <3>1, <3>2 DEF InsertEvent, Dropped, TypeOK
    <3> DEFINE G == {c} \cap Engaged(ch)
               f == [d \in Cycles |-> i]
    <3>4. Engaged(ch)' \subseteq Engaged(ch) \ G
      BY <1>0, <3>2, <3>3 DEF Engaged, TypeOK
    <3>5. ASSUME NEW j \in Loose(ch)'
          PROVE  j \in Loose(ch) \/ \E d \in G : f[d] = j
      <4>1. CASE j = i
        <5>1. c \in Engaged(ch)
          BY <2>9, <3>3, <3>5, <4>1 DEF Loose, Usage, Engaged, AnswerLost, Goto
        <5> QED BY <4>1, <5>1
      <4>2. CASE j # i
        BY <3>3, <3>5, <4>2 DEF Loose, Usage
      <4> QED BY <4>1, <4>2
    <3> HIDE DEF G, f
    <3> QED
      <4>1. G \subseteq Engaged(ch)
        BY DEF G
      <4> QED BY <1>0, <3>4, <3>5, <4>1, LetGo
  <2>10. AnswerLost(c) => pc[c] \in {"markSent", "markFailed", "markRule", "create"}
    BY DEF AnswerLost, Goto
  <2> QED
    BY <1>3, <2>1, <2>2, <2>3, <2>4, <2>5, <2>6, <2>7, <2>8, <2>9, <2>10 DEF CycleStep
<1>4. CASE UNCHANGED vars
  BY <1>0, <1>4, NoMore DEF vars, Loose, Usage, Engaged, eventVars, cycleVars
<1> QED BY <1>1, <1>2, <1>3, <1>4 DEF Next

\* However many cycles overlap, and whatever fails or crashes, a channel's
\* pending and sent alerts of the last hour exceed its limit by less than the
\* number of cycles (RateBound).  With one cycle the limit holds.
THEOREM RateBounded == Spec => []RateBound
<1>1. TypeInv /\ RateInv => RateBound
  <2> SUFFICES ASSUME TypeInv, RateInv, NEW ch \in Channels
               PROVE Cardinality(Usage(ch)) <= RateLimit[ch] + Cardinality(Cycles) - 1
    BY DEF RateBound
  <2>1. ASSUME NEW i \in Usage(ch)
        PROVE  i \in Loose(ch) \/ \E c \in Engaged(ch) : held[c] = i
    BY <2>1, NullAssumption DEF Loose, Usage, Engaged, TypeInv, HoldsRow, HoldsNone, Engages,
         Holds
  <2>2. Cardinality(Usage(ch)) <= Cardinality(Loose(ch)) + Cardinality(Engaged(ch))
    BY <2>1, PartsFinite, Cover
  <2> QED BY <2>2, PartsFinite, RulesAssumption DEF RateInv, Room
<1>2. Spec => []RateInv
  BY RateInit, RateStep, TypeInvariance, PTL DEF Spec
<1> QED BY <1>1, <1>2, TypeInvariance, PTL

(***************************************************************************)
(* One cycle at a time.  What a cycle read when it began is then still     *)
(* true when it uses it, and a match it took has not been alerted about in *)
(* the meantime.                                                           *)
(***************************************************************************)

Working == {"limit"} \cup Engages

\* Nothing is stamped with a time to come.
Past == /\ \A i \in Events : evAt[i] <= now
        /\ \A r \in Rules : lastTrig[r] <= now

\* What the cycle knows of the rules it has not begun is true, and the rule it
\* works on is out of its cooldown.
SnapTrue == \A c \in Cycles, r \in Rules : r \in todo[c] => snap[c][r] = lastTrig[r]
Ready == \A c \in Cycles : pc[c] \in Working =>
             /\ rule[c] \notin todo[c]
             /\ lastTrig[rule[c]] # Never => lastTrig[rule[c]] + Cooldown[rule[c]] <= now
IdleEmpty == \A c \in Cycles : pc[c] = "idle" => todo[c] = {}

RowsRuled == \A i \in Events : evStatus[i] # "none" => evRule[i] \in Rules

CooldownInv == RowsRuled /\ Past /\ SnapTrue /\ Ready /\ IdleEmpty /\ CooldownHonoured

LEMMA CooldownStep ==
    ASSUME NEW c0, Cycles = {c0}, "answer" \notin Faults, TypeInv, CooldownInv, [Next]_vars
    PROVE  CooldownInv'
<1> USE DEF RuleKnown, HoldsRow, HoldsNone, RowsRuled, Past, SnapTrue, Ready, IdleEmpty,
     CooldownHonoured, Working, Engages, Holds
<1>0. /\ TypeOK /\ RuleKnown /\ HoldsRow /\ HoldsNone
      /\ RowsRuled /\ Past /\ SnapTrue /\ Ready /\ IdleEmpty /\ CooldownHonoured
  BY DEF TypeInv, CooldownInv
<1>1. /\ now \in Nat /\ lastTrig \in [Rules -> Int] /\ evAt \in [Events -> Int]
      /\ Cooldown \in [Rules -> Nat]
  BY <1>0, TimeAssumption, RulesAssumption DEF TypeOK, Times, Never
<1>2. CASE Tick
  <2>1. now' = now + 1 /\ UNCHANGED <<lastTrig, eventVars, cycleVars>>
    BY <1>2 DEF Tick
  <2>2. Past'
    BY <1>0, <1>1, <2>1 DEF eventVars
  <2>3. Ready'
    <3>1. ASSUME NEW c \in Cycles, pc[c] \in Working, lastTrig[rule[c]] # Never
          PROVE  lastTrig[rule[c]] + Cooldown[rule[c]] <= now + 1
      <4>1. rule[c] \in Rules
        BY <1>0, <3>1
      <4> QED BY <1>0, <1>1, <3>1, <4>1
    <3> QED BY <1>0, <2>1, <3>1 DEF cycleVars
  <2>4. RowsRuled' /\ SnapTrue' /\ IdleEmpty' /\ CooldownHonoured'
    BY <1>0, <2>1 DEF eventVars, cycleVars
  <2> QED BY <2>2, <2>3, <2>4 DEF CooldownInv
<1>3. CASE Crash
  BY <1>0, <1>1, <1>3 DEF Crash, CooldownInv, eventVars, TypeOK
<1>4. CASE CycleStep(c0)
  <2>1. CASE Start(c0)
    BY <1>0, <1>1, <2>1 DEF Start, Goto, CooldownInv, eventVars, TypeOK
  <2>2. ASSUME NEW r \in Rules, NextRule(c0, r) PROVE CooldownInv'
    <3>1. lastTrig[r] # Never => lastTrig[r] + Cooldown[r] <= now
      BY <1>0, <1>1, <2>2 DEF NextRule, CoolingDown
    <3> QED BY <1>0, <1>1, <2>2, <3>1 DEF NextRule, Goto, CooldownInv, eventVars, TypeOK
  <2>3. ASSUME NEW r \in Rules, SkipRule(c0, r) PROVE CooldownInv'
    BY <1>0, <1>1, <2>3 DEF SkipRule, CooldownInv, eventVars, TypeOK
  <2>4. CASE CheckLimit(c0)
    BY <1>0, <1>1, <2>4 DEF CheckLimit, Goto, CooldownInv, eventVars, TypeOK
  <2>5. ASSUME NEW found \in SUBSET Entities, Fetch(c0, found) PROVE CooldownInv'
    BY <1>0, <1>1, <2>5 DEF Fetch, Goto, CooldownInv, eventVars, TypeOK
  <2>6. ASSUME NEW x \in Entities, SkipMatch(c0, x) PROVE CooldownInv'
    BY <1>0, <1>1, <2>6 DEF SkipMatch, CooldownInv, eventVars, TypeOK
  <2>7. ASSUME NEW x \in Entities, TakeMatch(c0, x) PROVE CooldownInv'
    BY <1>0, <1>1, <2>7 DEF TakeMatch, Goto, CooldownInv, eventVars, TypeOK
  <2>8. CASE EndMatches(c0)
    BY <1>0, <1>1, <2>8 DEF EndMatches, Goto, CooldownInv, eventVars, TypeOK
  <2>9. ASSUME NEW i \in Events, Create(c0, i) PROVE CooldownInv'
    <3>1. /\ rule[c0] \in Rules
          /\ lastTrig[rule[c0]] # Never => lastTrig[rule[c0]] + Cooldown[rule[c0]] <= now
      BY <1>0, <2>9 DEF Create, InsertEvent, Goto
    <3>2. RowsRuled' /\ Past' /\ CooldownHonoured'
      BY <1>0, <1>1, <2>9, <3>1 DEF Create, InsertEvent, TypeOK
    <3>3. SnapTrue' /\ Ready' /\ IdleEmpty'
      BY <1>0, <2>9 DEF Create, InsertEvent, Goto, TypeOK
    <3> QED BY <3>2, <3>3 DEF CooldownInv
  <2>10. CASE Send(c0) \/ SendFails(c0)
    BY <1>0, <1>1, <2>10 DEF Send, SendFails, Goto, CooldownInv, TypeOK
  <2>11. CASE MarkSent(c0)
    <3>1. /\ held[c0] \in Events /\ evRule[held[c0]] = rule[c0] /\ rule[c0] \in Rules
          /\ lastTrig[rule[c0]] # Never => lastTrig[rule[c0]] + Cooldown[rule[c0]] <= now
      BY <1>0, <2>11 DEF MarkSent, StampSent, Goto
    <3>2. CooldownHonoured'
      BY <1>0, <1>1, <2>11, <3>1 DEF MarkSent, StampSent, TypeOK
    <3>3. RowsRuled' /\ Past'
      BY <1>0, <1>1, <2>11, <3>1 DEF MarkSent, StampSent, TypeOK
    <3>4. SnapTrue' /\ Ready' /\ IdleEmpty'
      BY <1>0, <2>11 DEF MarkSent, StampSent, Goto, TypeOK
    <3> QED BY <3>2, <3>3, <3>4 DEF CooldownInv
  <2>12. CASE MarkRule(c0)
    <3>1. rule[c0] \in Rules /\ rule[c0] \notin todo[c0]
      BY <1>0, <2>12 DEF MarkRule, StampRule, Goto
    <3>2. CooldownHonoured'
      BY <1>0, <1>1, <2>12, <3>1 DEF MarkRule, StampRule, eventVars, TypeOK
    <3>3. RowsRuled' /\ Past'
      BY <1>0, <1>1, <2>12, <3>1 DEF MarkRule, StampRule, eventVars, TypeOK
    <3>4. SnapTrue' /\ Ready' /\ IdleEmpty'
      BY <1>0, <2>12, <3>1 DEF MarkRule, StampRule, Goto, TypeOK
    <3> QED BY <3>2, <3>3, <3>4 DEF CooldownInv
  <2>13. CASE MarkFailed(c0)
    <3>1. held[c0] \in Events /\ evStatus[held[c0]] # "none"
      BY <1>0, <2>13 DEF MarkFailed, StampFailed, Goto
    <3>2. RowsRuled' /\ Past' /\ CooldownHonoured'
      BY <1>0, <1>1, <2>13, <3>1 DEF MarkFailed, StampFailed, TypeOK
    <3>3. SnapTrue' /\ Ready' /\ IdleEmpty'
      BY <1>0, <2>13 DEF MarkFailed, StampFailed, Goto, TypeOK
    <3> QED BY <3>2, <3>3 DEF CooldownInv
  <2>14. CASE End(c0) \/ DbFails(c0)
    BY <1>0, <1>1, <2>14 DEF End, DbFails, Dropped, Goto, CooldownInv, eventVars, TypeOK
  <2>15. ~AnswerLost(c0)
    BY DEF AnswerLost
  <2> QED
    BY <1>4, <2>1, <2>2, <2>3, <2>4, <2>5, <2>6, <2>7, <2>8, <2>9, <2>10, <2>11, <2>12,
       <2>13, <2>14, <2>15 DEF CycleStep
<1>5. CASE UNCHANGED vars
  BY <1>0, <1>5 DEF vars, CooldownInv, eventVars, cycleVars
<1> QED BY <1>2, <1>3, <1>4, <1>5 DEF Next

\* With one cycle at a time no alert of a rule, sent or not, follows its last
\* trigger within the cooldown (CooldownHonoured): through crashes, notifications
\* refused or delivered and taken for failed, and calls that throw without
\* effect.  The hypothesis leaves out the write whose answer is lost: when
\* lastTriggeredAt is set and the update throws, the catch block marks the event
\* failed and the loop alerts about the next match within the cooldown.
THEOREM CooldownKept ==
    ASSUME NEW c0, Cycles = {c0}, "answer" \notin Faults
    PROVE  Spec => []CooldownHonoured
<1>1. Init => CooldownInv
  BY TimeAssumption
     DEF Init, CooldownInv, RowsRuled, Past, SnapTrue, Ready, IdleEmpty, CooldownHonoured,
     Working, Engages,
         Holds, Never
<1>2. TypeInv /\ CooldownInv /\ [Next]_vars => CooldownInv'
  BY CooldownStep
<1>3. CooldownInv => CooldownHonoured
  BY DEF CooldownInv
<1> QED BY <1>1, <1>2, <1>3, TypeInvariance, PTL DEF Spec

\* Alerts on record about the same entity by the same rule.
Akin(i, j) == evRule[i] = evRule[j] /\ evEntity[i] = evEntity[j]
Apart(i, j) == \/ evAt[i] > evAt[j] + Cooldown[evRule[i]]
               \/ evAt[j] > evAt[i] + Cooldown[evRule[i]]
Recorded == {i \in Events : evStatus[i] \in Counting}

\* What reached a destination stays on record, and a row about to be marked
\* failed did not reach it.
OnRecord == delivered \subseteq Recorded
Fresh == \A c \in Cycles :
    /\ pc[c] \in {"send", "markSent", "markFailed"} => evStatus[held[c]] = "pending"
    /\ pc[c] \in {"send", "markFailed"} => held[c] \notin delivered

\* The match about to be alerted about is clear of every record, and stays so
\* until the row is stamped for the last time.
Clear == \A c \in Cycles, i \in Recorded :
    pc[c] = "create" /\ evRule[i] = rule[c] /\ evEntity[i] = target[c]
        => evAt[i] + Cooldown[rule[c]] < now
ClearHeld == \A c \in Cycles, i \in Recorded :
    pc[c] \in {"send", "markSent"} /\ i # held[c] /\ Akin(i, held[c])
        => evAt[i] + Cooldown[evRule[i]] < now
Separated == \A i, j \in Recorded : i # j /\ Akin(i, j) => Apart(i, j)

DedupeInv == RowsRuled /\ OnRecord /\ Fresh /\ Clear /\ ClearHeld /\ Separated

LEMMA DedupeStep ==
    ASSUME NEW c0, Cycles = {c0}, Faults \subseteq {"send", "crash"},
           TypeInv, DedupeInv, [Next]_vars
    PROVE  DedupeInv'
<1> USE DEF RuleKnown, HoldsRow, HoldsNone, RowsRuled, OnRecord, Fresh, Clear, ClearHeld,
            Separated, Recorded, Akin, Apart, Engages, Holds
<1>0. /\ TypeOK /\ RuleKnown /\ HoldsRow /\ HoldsNone
      /\ RowsRuled /\ OnRecord /\ Fresh /\ Clear /\ ClearHeld /\ Separated
  BY DEF TypeInv, DedupeInv
<1>1. now \in Nat /\ evAt \in [Events -> Int] /\ Cooldown \in [Rules -> Nat]
  BY <1>0, TimeAssumption, RulesAssumption DEF TypeOK, Times
<1>2. CASE Tick
  <2>1. now' = now + 1 /\ UNCHANGED <<lastTrig, eventVars, cycleVars>>
    BY <1>2 DEF Tick
  <2>2. Clear'
    BY <1>0, <1>1, <2>1 DEF eventVars, cycleVars
  <2>3. ClearHeld'
    BY <1>0, <1>1, <2>1 DEF eventVars, cycleVars
  <2>4. RowsRuled' /\ OnRecord' /\ Fresh' /\ Separated'
    BY <1>0, <2>1 DEF eventVars, cycleVars
  <2> QED BY <2>2, <2>3, <2>4 DEF DedupeInv
<1>3. CASE Crash
  BY <1>0, <1>3 DEF Crash, DedupeInv, eventVars
<1>4. CASE CycleStep(c0)
  <2>1. CASE \/ Start(c0) \/ CheckLimit(c0) \/ EndMatches(c0) \/ End(c0)
             \/ \E r \in Rules : NextRule(c0, r) \/ SkipRule(c0, r)
             \/ \E found \in SUBSET Entities : Fetch(c0, found)
             \/ \E x \in Entities : SkipMatch(c0, x)
    <3>1. /\ UNCHANGED <<now, eventVars>>
          /\ pc'[c0] \notin {"create", "send", "markSent", "markFailed"}
      BY <1>0, <2>1
         DEF Start, CheckLimit, EndMatches, End, Dropped, NextRule, SkipRule, Fetch, SkipMatch,
             Goto, TypeOK
    <3> QED BY <1>0, <3>1 DEF DedupeInv, eventVars
  <2>2. ASSUME NEW x \in Entities, TakeMatch(c0, x) PROVE DedupeInv'
    <3>1. /\ UNCHANGED <<now, eventVars, rule>>
          /\ pc'[c0] = "create" /\ target'[c0] = x /\ ~Recent(rule[c0], x) /\ rule[c0] \in Rules
      BY <1>0, <2>2 DEF TakeMatch, Goto, TypeOK
    <3>2. Clear'
      <4>1. ASSUME NEW i \in Recorded, evRule[i] = rule[c0], evEntity[i] = x
            PROVE  evAt[i] + Cooldown[rule[c0]] < now
        BY <1>1, <3>1, <4>1 DEF Recent
      <4> QED BY <3>1, <4>1 DEF eventVars
    <3> QED BY <1>0, <3>1, <3>2 DEF DedupeInv, eventVars
  <2>3. ASSUME NEW i \in Events, Create(c0, i) PROVE DedupeInv'
    <3>1. /\ rule[c0] \in Rules /\ pc[c0] = "create" /\ evStatus[i] = "none"
          /\ pc'[c0] = "send" /\ held'[c0] = i /\ i \notin Recorded
          /\ Recorded' = Recorded \cup {i} /\ UNCHANGED <<now, delivered, rule>>
          /\ evRule' = [evRule EXCEPT ![i] = rule[c0]]
          /\ evEntity' = [evEntity EXCEPT ![i] = target[c0]]
          /\ evAt' = [evAt EXCEPT ![i] = now] /\ evStatus' = [evStatus EXCEPT ![i] = "pending"]
      BY <1>0, <2>3 DEF Create, InsertEvent, Goto, TypeOK, Counting
    <3>2. \A j \in Recorded : evRule'[j] = evRule[j] /\ evEntity'[j] = evEntity[j]
                              /\ evAt'[j] = evAt[j] /\ j # i
      BY <1>0, <3>1 DEF TypeOK
    <3>3. evRule'[i] = rule[c0] /\ evEntity'[i] = target[c0] /\ evAt'[i] = now
      BY <1>0, <3>1 DEF TypeOK
    <3>4. \A j \in Recorded : Akin(i, j)' => evAt[j] + Cooldown[rule[c0]] < now
      BY <1>0, <3>1, <3>2, <3>3
    <3>5. ClearHeld'
      BY <3>1, <3>2, <3>3, <3>4
    <3>6. Separated'
      <4> SUFFICES ASSUME NEW j \in Recorded', NEW k \in Recorded', j # k, Akin(j, k)'
                   PROVE  Apart(j, k)'
        OBVIOUS
      <4>1. CASE j # i /\ k # i
        BY <1>0, <3>1, <3>2, <4>1
      <4>2. CASE j = i
        BY <1>1, <3>1, <3>2, <3>3, <3>4, <4>2
      <4>3. CASE k = i
        BY <1>1, <3>1, <3>2, <3>3, <3>4, <4>3
      <4> QED BY <4>1, <4>2, <4>3
    <3>7. RowsRuled' /\ OnRecord'
      BY <1>0, <3>1 DEF TypeOK
    <3>8. Fresh' /\ Clear'
      BY <1>0, <3>1 DEF TypeOK
    <3> QED BY <3>5, <3>6, <3>7, <3>8 DEF DedupeInv
  <2>4. CASE Send(c0) \/ SendFails(c0)
    <3>1. /\ UNCHANGED <<now, evStatus, evRule, evEntity, evAt, held>>
          /\ pc[c0] = "send" /\ held[c0] \in Events
          /\ \/ pc'[c0] = "markSent" /\ delivered' = delivered \cup {held[c0]}
             \/ pc'[c0] = "markFailed" /\ delivered' = delivered
      BY <1>0, <2>4 DEF Send, SendFails, Goto, TypeOK
    <3> QED BY <1>0, <3>1 DEF DedupeInv, Counting
  <2>5. CASE MarkSent(c0)
    <3>1. /\ pc[c0] = "markSent" /\ pc'[c0] = "markRule" /\ held[c0] \in Events
          /\ evStatus[held[c0]] = "pending" /\ Recorded' = Recorded /\ held[c0] \in Recorded
          /\ UNCHANGED <<now, evRule, evEntity, delivered>>
          /\ evAt' = [evAt EXCEPT ![held[c0]] = now]
          /\ \A i \in Events : evStatus[i] # "none" <=> evStatus'[i] # "none"
      BY <1>0, <2>5 DEF MarkSent, StampSent, Goto, TypeOK, Counting
    <3>2. Separated'
      <4> SUFFICES ASSUME NEW j \in Recorded, NEW k \in Recorded, j # k, Akin(j, k)
                   PROVE  Apart(j, k)'
        BY <3>1
      <4>1. CASE j # held[c0] /\ k # held[c0]
        BY <1>0, <3>1, <4>1
      <4>2. CASE j = held[c0]
        BY <1>0, <1>1, <3>1, <4>2
      <4>3. CASE k = held[c0]
        BY <1>0, <1>1, <3>1, <4>3
      <4> QED BY <4>1, <4>2, <4>3
    <3>3. RowsRuled' /\ OnRecord' /\ Fresh' /\ Clear' /\ ClearHeld'
      BY <1>0, <3>1
    <3> QED BY <3>2, <3>3 DEF DedupeInv
  <2>6. CASE MarkRule(c0)
    <3>1. pc'[c0] = "next" /\ UNCHANGED <<now, eventVars>>
      BY <1>0, <2>6 DEF MarkRule, StampRule, Goto, TypeOK
    <3> QED BY <1>0, <3>1 DEF DedupeInv, eventVars
  <2>7. CASE MarkFailed(c0)
    <3>1. /\ pc[c0] = "markFailed" /\ pc'[c0] = "recent" /\ held[c0] \in Events
          /\ Recorded' = Recorded \ {held[c0]} /\ held[c0] \notin delivered
          /\ UNCHANGED <<now, evRule, evEntity, evAt, delivered>>
          /\ \A i \in Events : evStatus[i] # "none" <=> evStatus'[i] # "none"
      BY <1>0, <2>7 DEF MarkFailed, StampFailed, Goto, TypeOK, Counting
    <3> QED BY <1>0, <3>1 DEF DedupeInv
  <2>8. ~DbFails(c0) /\ ~AnswerLost(c0)
    BY DEF DbFails, AnswerLost
  <2> QED
    BY <1>4, <2>1, <2>2, <2>3, <2>4, <2>5, <2>6, <2>7, <2>8 DEF CycleStep
<1>5. CASE UNCHANGED vars
  BY <1>0, <1>5 DEF vars, DedupeInv, eventVars, cycleVars
<1> QED BY <1>2, <1>3, <1>4, <1>5 DEF Next

\* With one cycle at a time, refused notifications and crashes at any point,
\* two notifications about one entity by one rule are more than a cooldown
\* apart (DedupeHonoured).
THEOREM DedupeKept ==
    ASSUME NEW c0, Cycles = {c0}, Faults \subseteq {"send", "crash"}
    PROVE  Spec => []DedupeHonoured
<1>1. Init => DedupeInv
  BY DEF Init, DedupeInv, RowsRuled, OnRecord, Fresh, Clear, ClearHeld, Separated, Recorded,
         Counting
<1>2. TypeInv /\ DedupeInv /\ [Next]_vars => DedupeInv'
  BY DedupeStep
<1>3. DedupeInv => DedupeHonoured
  BY DEF DedupeInv, OnRecord, Separated, Recorded, Akin, Apart, DedupeHonoured
<1> QED BY <1>1, <1>2, <1>3, TypeInvariance, PTL DEF Spec

(***************************************************************************)
(* What the destination sees.  As long as no notification is delivered and *)
(* then taken for failed, an event that reached its channel stays counted, *)
(* for any number of cycles: no two cycles hold the same row, so a row is  *)
(* marked failed only by the cycle whose notification was refused.         *)
(***************************************************************************)

HeldApart == \A c, d \in Cycles : c # d /\ pc[c] \in Holds => held[c] # held[d]

RecordInv == OnRecord /\ Fresh /\ HeldApart

LEMMA RecordStep ==
    Faults \subseteq {"send", "crash"} /\ TypeInv /\ RecordInv /\ [Next]_vars => RecordInv'
<1> SUFFICES ASSUME Faults \subseteq {"send", "crash"}, TypeInv, RecordInv, [Next]_vars
             PROVE  RecordInv'
  OBVIOUS
<1> USE NullAssumption DEF RecordInv, OnRecord, Fresh, HeldApart, Recorded, HoldsRow, HoldsNone,
                           Holds
<1>0. TypeOK /\ HoldsRow /\ HoldsNone
  BY DEF TypeInv
<1>1. CASE Tick
  BY <1>1 DEF Tick, eventVars, cycleVars
<1>2. CASE Crash
  BY <1>2 DEF Crash, eventVars
<1>3. ASSUME NEW c \in Cycles, CycleStep(c) PROVE RecordInv'
  <2>1. CASE \/ Start(c) \/ CheckLimit(c) \/ EndMatches(c) \/ End(c)
             \/ \E r \in Rules : NextRule(c, r) \/ SkipRule(c, r)
             \/ \E found \in SUBSET Entities : Fetch(c, found)
             \/ \E x \in Entities : SkipMatch(c, x) \/ TakeMatch(c, x)
    <3>1. UNCHANGED <<evStatus, delivered>> /\ pc[c] \notin Holds
      BY <2>1 DEF Start, CheckLimit, EndMatches, End, Dropped, NextRule, SkipRule, Fetch,
         SkipMatch, TakeMatch, Goto, eventVars
    <3>2. \A d \in Cycles : pc'[d] \in Holds => pc'[d] = pc[d] /\ d # c
      BY <1>0, <2>1 DEF Start, CheckLimit, EndMatches, End, Dropped, NextRule, SkipRule, Fetch,
         SkipMatch, TakeMatch, Goto, TypeOK
    <3>3. \A d \in Cycles : held'[d] = held[d]
      BY <1>0, <2>1, <3>1 DEF Start, CheckLimit, EndMatches, End, Dropped, NextRule, SkipRule,
         Fetch, SkipMatch, TakeMatch, TypeOK
    <3> QED BY <3>1, <3>2, <3>3
  <2>2. ASSUME NEW i \in Events, Create(c, i) PROVE RecordInv'
    <3>1. /\ evStatus[i] = "none" /\ delivered' = delivered
          /\ evStatus' = [evStatus EXCEPT ![i] = "pending"]
          /\ pc' = [pc EXCEPT ![c] = "send"] /\ held' = [held EXCEPT ![c] = i]
      BY <2>2 DEF Create, InsertEvent, Goto
    <3>2. \A d \in Cycles : held[d] # i
      BY <1>0, <3>1
    <3>3. i \notin delivered
      BY <3>1 DEF Counting
    <3>4. OnRecord'
      BY <1>0, <3>1 DEF TypeOK, Counting
    <3>5. Fresh'
      BY <1>0, <3>1, <3>2, <3>3 DEF TypeOK
    <3>6. HeldApart'
      BY <1>0, <3>1, <3>2 DEF TypeOK
    <3> QED BY <3>4, <3>5, <3>6
  <2>3. CASE Send(c) \/ SendFails(c)
    <3>1. /\ UNCHANGED <<evStatus, held>> /\ pc[c] = "send" /\ held[c] \in Events
          /\ \/ pc' = [pc EXCEPT ![c] = "markSent"] /\ delivered' = delivered \cup {held[c]}
             \/ pc' = [pc EXCEPT ![c] = "markFailed"] /\ delivered' = delivered
      BY <1>0, <2>3 DEF Send, SendFails, Goto
    <3> QED BY <1>0, <3>1 DEF TypeOK, Counting
  <2>4. CASE MarkSent(c)
    <3>1. /\ UNCHANGED <<delivered, held>> /\ pc[c] = "markSent" /\ held[c] \in Events
          /\ pc' = [pc EXCEPT ![c] = "markRule"]
          /\ evStatus' = [evStatus EXCEPT ![held[c]] = "sent"]
      BY <1>0, <2>4 DEF MarkSent, StampSent, Goto
    <3> QED BY <1>0, <3>1 DEF TypeOK, Counting
  <2>5. CASE MarkFailed(c)
    <3>1. /\ delivered' = delivered /\ pc[c] = "markFailed" /\ held[c] \in Events
          /\ pc' = [pc EXCEPT ![c] = "recent"] /\ held' = [held EXCEPT ![c] = NoEvent]
          /\ evStatus' = [evStatus EXCEPT ![held[c]] = "failed"]
      BY <1>0, <2>5 DEF MarkFailed, StampFailed, Goto
    <3>2. held[c] \notin delivered
      BY <3>1
    <3> QED BY <1>0, <3>1, <3>2 DEF TypeOK, Counting
  <2>6. CASE MarkRule(c)
    <3>1. /\ UNCHANGED <<evStatus, delivered>>
          /\ pc' = [pc EXCEPT ![c] = "next"] /\ held' = [held EXCEPT ![c] = NoEvent]
      BY <2>6 DEF MarkRule, StampRule, Goto, eventVars
    <3> QED BY <1>0, <3>1 DEF TypeOK
  <2>7. ~DbFails(c) /\ ~AnswerLost(c)
    BY DEF DbFails, AnswerLost
  <2> QED BY <1>3, <2>1, <2>2, <2>3, <2>4, <2>5, <2>6, <2>7 DEF CycleStep
<1>4. CASE UNCHANGED vars
  BY <1>4 DEF vars, eventVars, cycleVars
<1> QED BY <1>1, <1>2, <1>3, <1>4 DEF Next

\* However many cycles overlap, and through crashes and refused notifications,
\* what reached a channel in the last hour exceeds its limit by less than the
\* number of cycles.  (A notification delivered and taken for failed, after a
\* timeout or a failed status write, is no longer counted.)
THEOREM ReachedBounded ==
    ASSUME Faults \subseteq {"send", "crash"}
    PROVE  Spec => [](\A ch \in Channels :
                          Cardinality(Reached(ch)) <= RateLimit[ch] + Cardinality(Cycles) - 1)
<1> DEFINE Bound == \A ch \in Channels :
                        Cardinality(Reached(ch)) <= RateLimit[ch] + Cardinality(Cycles) - 1
<1>1. Init => RecordInv
  BY DEF Init, RecordInv, OnRecord, Fresh, HeldApart, Holds
<1>2. Spec => []RecordInv
  BY <1>1, RecordStep, TypeInvariance, PTL DEF Spec
<1>3. RecordInv /\ RateBound => Bound
  <2> SUFFICES ASSUME RecordInv, RateBound, NEW ch \in Channels
               PROVE  Cardinality(Reached(ch)) <= RateLimit[ch] + Cardinality(Cycles) - 1
    OBVIOUS
  <2>1. Reached(ch) \subseteq Usage(ch)
    BY DEF Reached, Usage, RecordInv, OnRecord, Recorded
  <2>2. /\ Cardinality(Reached(ch)) \in Nat
        /\ Cardinality(Reached(ch)) <= Cardinality(Usage(ch))
    BY <2>1, PartsFinite, PartOf
  <2> QED BY <2>2, PartsFinite, RulesAssumption DEF RateBound
<1> QED BY <1>2, <1>3, RateBounded, PTL

\* With one cycle at a time the destination never sees more than its limit
\* (ReachedWithinLimit).
THEOREM ReachedKept ==
    ASSUME NEW c0, Cycles = {c0}, Faults \subseteq {"send", "crash"}
    PROVE  Spec => []ReachedWithinLimit
<1>1. Cardinality(Cycles) = 1
  BY FS_Singleton
<1>2. (\A ch \in Channels :
           Cardinality(Reached(ch)) <= RateLimit[ch] + Cardinality(Cycles) - 1)
      => ReachedWithinLimit
  <2>1. \A ch \in Channels : RateLimit[ch] + 1 - 1 = RateLimit[ch]
    BY RulesAssumption
  <2> QED BY <1>1, <2>1 DEF ReachedWithinLimit
<1> QED BY <1>2, ReachedBounded, PTL
=============================================================================

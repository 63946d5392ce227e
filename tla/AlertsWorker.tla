---------------------------- MODULE AlertsWorker ----------------------------
(***************************************************************************)
(* The alerts worker: evaluate() runs once at start and then on every tick *)
(* of a timer, whether or not the run before has ended, so several cycles  *)
(* may be under way at once.  A cycle reads the active rules with their    *)
(* channels once and then takes them one by one: cooldown, channel rate    *)
(* limit, matches from ClickHouse, and for each match the dedupe check,    *)
(* the event row, the notification and the bookkeeping after it.  Each     *)
(* await is a step of its own; the clock may move between any two steps.   *)
(***************************************************************************)
EXTENDS Integers, FiniteSets

CONSTANTS
    Rules,      \* active alert rules
    Channels,   \* active alert channels
    ChannelOf,  \* the channel of a rule
    RateLimit,  \* rateLimitPerHour of a channel
    Cooldown,   \* cooldownMinutes of a rule
    Hour,       \* length of the rate-limit window
    Entities,   \* entities a rule can match
    Events,     \* bound: AlertEvent rows
    Cycles,     \* bound: runs of evaluate() under way at once
    MaxTime,    \* bound: the clock stops here
    Faults,     \* which faults may happen
    NoRule, NoEntity, NoEvent  \* null

\* "db": a database call throws and has changed nothing; "answer": it has taken
\* effect, and throws because its answer is lost.
FaultKinds == {"send", "timeout", "db", "answer", "crash"}

ASSUME RulesAssumption ==
    /\ ChannelOf \in [Rules -> Channels]
    /\ RateLimit \in [Channels -> Nat]
    /\ Cooldown \in [Rules -> Nat]
ASSUME FiniteAssumption == IsFiniteSet(Events) /\ IsFiniteSet(Cycles) /\ Cycles # {}
ASSUME TimeAssumption == Hour \in Nat /\ MaxTime \in Nat
ASSUME NullAssumption == NoRule \notin Rules /\ NoEntity \notin Entities /\ NoEvent \notin Events
ASSUME FaultsAssumption == Faults \subseteq FaultKinds

VARIABLES
    now,        \* the clock
    lastTrig,   \* AlertRule.lastTriggeredAt
    evStatus,   \* AlertEvent.status, "none" while the row is unused
    evRule,     \* AlertEvent.ruleId
    evEntity,   \* AlertEvent.entityId
    evAt,       \* AlertEvent.sentAt
    delivered,  \* events whose notification reached its destination
    pc,         \* where a cycle stands, "idle" when it is not under way
    todo,       \* rules the cycle has not begun
    snap,       \* lastTriggeredAt as the cycle read it
    rule,       \* the rule being processed
    matches,    \* matches of that rule not looked at yet
    target,     \* the entity being alerted about
    held        \* the event row the cycle created for it

ruleVars == <<lastTrig>>
eventVars == <<evStatus, evRule, evEntity, evAt, delivered>>
cycleVars == <<pc, todo, snap, rule, matches, target, held>>
vars == <<now, lastTrig, eventVars, cycleVars>>

Never == -1

Times == 0 .. MaxTime
Statuses == {"none", "pending", "sent", "failed"}
Counting == {"pending", "sent"}
PcStates == {"idle", "next", "limit", "fetch", "recent", "create", "send",
             "markSent", "markRule", "markFailed"}

TypeOK ==
    /\ now \in Times
    /\ lastTrig \in [Rules -> Times \cup {Never}]
    /\ evStatus \in [Events -> Statuses]
    /\ evRule \in [Events -> Rules \cup {NoRule}]
    /\ evEntity \in [Events -> Entities \cup {NoEntity}]
    /\ evAt \in [Events -> Times]
    /\ delivered \in SUBSET Events
    /\ pc \in [Cycles -> PcStates]
    /\ todo \in [Cycles -> SUBSET Rules]
    /\ snap \in [Cycles -> [Rules -> Times \cup {Never}]]
    /\ rule \in [Cycles -> Rules \cup {NoRule}]
    /\ matches \in [Cycles -> SUBSET Entities]
    /\ target \in [Cycles -> Entities \cup {NoEntity}]
    /\ held \in [Cycles -> Events \cup {NoEvent}]

Init ==
    /\ now = 0
    /\ lastTrig = [r \in Rules |-> Never]
    /\ evStatus = [i \in Events |-> "none"]
    /\ evRule = [i \in Events |-> NoRule]
    /\ evEntity = [i \in Events |-> NoEntity]
    /\ evAt = [i \in Events |-> 0]
    /\ delivered = {}
    /\ pc = [c \in Cycles |-> "idle"]
    /\ todo = [c \in Cycles |-> {}]
    /\ snap = [c \in Cycles |-> [r \in Rules |-> Never]]
    /\ rule = [c \in Cycles |-> NoRule]
    /\ matches = [c \in Cycles |-> {}]
    /\ target = [c \in Cycles |-> NoEntity]
    /\ held = [c \in Cycles |-> NoEvent]

Tick ==
    /\ now < MaxTime
    /\ now' = now + 1
    /\ UNCHANGED <<lastTrig, eventVars, cycleVars>>

-----------------------------------------------------------------------------
(* Checks *)

\* isCoolingDown, on the rule as the cycle read it.
CoolingDown(c, r) == snap[c][r] # Never /\ snap[c][r] + Cooldown[r] > now

\* (faulty) Alerts that a crash left pending are not counted.
UsageSentOnly(ch) == {i \in Events : /\ evStatus[i] = "sent"
                                     /\ ChannelOf[evRule[i]] = ch
                                     /\ evAt[i] >= now - Hour}

\* The events isChannelRateLimited counts: pending or sent, in the last hour.
Usage(ch) == {i \in Events : /\ evStatus[i] \in Counting
                             /\ ChannelOf[evRule[i]] = ch
                             /\ evAt[i] >= now - Hour}

\* (faulty) An alert that a crash left pending does not stop the next one.
RecentSentOnly(r, x) == \E i \in Events : /\ evRule[i] = r /\ evEntity[i] = x
                                          /\ evStatus[i] = "sent"
                                          /\ evAt[i] >= now - Cooldown[r]

\* hasRecentEvent
Recent(r, x) == \E i \in Events : /\ evRule[i] = r /\ evEntity[i] = x
                                  /\ evStatus[i] \in Counting
                                  /\ evAt[i] >= now - Cooldown[r]

-----------------------------------------------------------------------------
(* A cycle *)

Goto(c, from, to) ==
    /\ pc[c] = from
    /\ pc' = [pc EXCEPT ![c] = to]

\* evaluate() reads the active rules.
Start(c) ==
    /\ Goto(c, "idle", "next")
    /\ todo' = [todo EXCEPT ![c] = Rules]
    /\ snap' = [snap EXCEPT ![c] = lastTrig]
    /\ UNCHANGED <<now, lastTrig, eventVars, rule, matches, target, held>>

\* The loop over the rules takes one that is not cooling down ...
NextRule(c, r) ==
    /\ r \in todo[c]
    /\ ~CoolingDown(c, r)
    /\ Goto(c, "next", "limit")
    /\ todo' = [todo EXCEPT ![c] = @ \ {r}]
    /\ rule' = [rule EXCEPT ![c] = r]
    /\ UNCHANGED <<now, lastTrig, eventVars, snap, matches, target, held>>

\* ... and skips one that is.
SkipRule(c, r) ==
    /\ pc[c] = "next"
    /\ r \in todo[c]
    /\ CoolingDown(c, r)
    /\ todo' = [todo EXCEPT ![c] = @ \ {r}]
    /\ UNCHANGED <<now, lastTrig, eventVars, pc, snap, rule, matches, target, held>>

\* (faulty) The limit is taken for the last number that is refused.
CheckLimitLate(c) ==
    /\ Goto(c, "limit",
            IF Cardinality(Usage(ChannelOf[rule[c]])) > RateLimit[ChannelOf[rule[c]]]
            THEN "next" ELSE "fetch")
    /\ UNCHANGED <<now, lastTrig, eventVars, todo, snap, rule, matches, target, held>>

\* isChannelRateLimited ends processRule, or the matches are asked for.
CheckLimit(c) ==
    /\ Goto(c, "limit",
            IF Cardinality(Usage(ChannelOf[rule[c]])) >= RateLimit[ChannelOf[rule[c]]]
            THEN "next" ELSE "fetch")
    /\ UNCHANGED <<now, lastTrig, eventVars, todo, snap, rule, matches, target, held>>

\* fetchMatches: ClickHouse answers with any entities, in any order.
Fetch(c, found) ==
    /\ Goto(c, "fetch", "recent")
    /\ matches' = [matches EXCEPT ![c] = found]
    /\ UNCHANGED <<now, lastTrig, eventVars, todo, snap, rule, target, held>>

\* The loop over the matches: a match alerted about recently is passed over ...
SkipMatch(c, x) ==
    /\ pc[c] = "recent"
    /\ x \in matches[c]
    /\ Recent(rule[c], x)
    /\ matches' = [matches EXCEPT ![c] = @ \ {x}]
    /\ UNCHANGED <<now, lastTrig, eventVars, pc, todo, snap, rule, target, held>>

\* ... another one is to be alerted about ...
TakeMatch(c, x) ==
    /\ x \in matches[c]
    /\ ~Recent(rule[c], x)
    /\ Goto(c, "recent", "create")
    /\ matches' = [matches EXCEPT ![c] = @ \ {x}]
    /\ target' = [target EXCEPT ![c] = x]
    /\ UNCHANGED <<now, lastTrig, eventVars, todo, snap, rule, held>>

\* ... and after the last one the rule is done.
EndMatches(c) ==
    /\ matches[c] = {}
    /\ Goto(c, "recent", "next")
    /\ UNCHANGED <<now, lastTrig, eventVars, todo, snap, rule, matches, target, held>>

\* (faulty) sentAt is left out until the alert is sent.
CreateUnstamped(c, i) ==
    /\ Goto(c, "create", "send")
    /\ evStatus[i] = "none"
    /\ evStatus' = [evStatus EXCEPT ![i] = "pending"]
    /\ evRule' = [evRule EXCEPT ![i] = rule[c]]
    /\ evEntity' = [evEntity EXCEPT ![i] = target[c]]
    /\ evAt' = [evAt EXCEPT ![i] = Never]
    /\ held' = [held EXCEPT ![c] = i]
    /\ UNCHANGED <<now, lastTrig, delivered, todo, snap, rule, matches, target>>

\* The row is pending, and sentAt is the time of creation.
InsertEvent(c, i) ==
    /\ evStatus[i] = "none"
    /\ evStatus' = [evStatus EXCEPT ![i] = "pending"]
    /\ evRule' = [evRule EXCEPT ![i] = rule[c]]
    /\ evEntity' = [evEntity EXCEPT ![i] = target[c]]
    /\ evAt' = [evAt EXCEPT ![i] = now]
    /\ UNCHANGED delivered

\* prisma.alertEvent.create
Create(c, i) ==
    /\ Goto(c, "create", "send")
    /\ InsertEvent(c, i)
    /\ held' = [held EXCEPT ![c] = i]
    /\ UNCHANGED <<now, lastTrig, todo, snap, rule, matches, target>>

\* dispatchNotification succeeds.
Send(c) ==
    /\ Goto(c, "send", "markSent")
    /\ delivered' = delivered \cup {held[c]}
    /\ UNCHANGED <<now, lastTrig, evStatus, evRule, evEntity, evAt, todo, snap,
                   rule, matches, target, held>>

\* dispatchNotification throws: the destination refused the notification, or
\* took it and answered too late.
SendFails(c) ==
    /\ Goto(c, "send", "markFailed")
    /\ \/ "send" \in Faults /\ UNCHANGED delivered
       \/ "timeout" \in Faults /\ delivered' = delivered \cup {held[c]}
    /\ UNCHANGED <<now, lastTrig, evStatus, evRule, evEntity, evAt, todo, snap,
                   rule, matches, target, held>>

StampSent(c) ==
    /\ evStatus' = [evStatus EXCEPT ![held[c]] = "sent"]
    /\ evAt' = [evAt EXCEPT ![held[c]] = now]
    /\ UNCHANGED <<evRule, evEntity, delivered>>

StampFailed(c) ==
    /\ evStatus' = [evStatus EXCEPT ![held[c]] = "failed"]
    /\ UNCHANGED <<evRule, evEntity, evAt, delivered>>

StampRule(c) == lastTrig' = [lastTrig EXCEPT ![rule[c]] = now]

\* The event is marked sent, at this time.
MarkSent(c) ==
    /\ Goto(c, "markSent", "markRule")
    /\ StampSent(c)
    /\ UNCHANGED <<now, lastTrig, todo, snap, rule, matches, target, held>>

\* (faulty) The loop over the matches goes on after an alert.
MarkRuleGoesOn(c) ==
    /\ Goto(c, "markRule", "recent")
    /\ lastTrig' = [lastTrig EXCEPT ![rule[c]] = now]
    /\ held' = [held EXCEPT ![c] = NoEvent]
    /\ UNCHANGED <<now, eventVars, todo, snap, rule, matches, target>>

\* lastTriggeredAt is set, and the loop over the matches is left.
MarkRule(c) ==
    /\ Goto(c, "markRule", "next")
    /\ StampRule(c)
    /\ matches' = [matches EXCEPT ![c] = {}]
    /\ held' = [held EXCEPT ![c] = NoEvent]
    /\ UNCHANGED <<now, eventVars, todo, snap, rule, target>>

\* The catch block: the event is marked failed and the next match is tried.
MarkFailed(c) ==
    /\ Goto(c, "markFailed", "recent")
    /\ StampFailed(c)
    /\ held' = [held EXCEPT ![c] = NoEvent]
    /\ UNCHANGED <<now, lastTrig, todo, snap, rule, matches, target>>

\* What the cycle had before it is forgotten.
Dropped(c) ==
    /\ todo' = [todo EXCEPT ![c] = {}]
    /\ matches' = [matches EXCEPT ![c] = {}]
    /\ held' = [held EXCEPT ![c] = NoEvent]
    /\ UNCHANGED <<now, snap, rule, target>>

\* The last rule is done.
End(c) ==
    /\ todo[c] = {}
    /\ Goto(c, "next", "idle")
    /\ Dropped(c)
    /\ UNCHANGED <<lastTrig, eventVars>>

\* A database or ClickHouse call throws and has changed nothing.  Inside the try
\* it leads to the catch block, elsewhere it ends the cycle with the rules that
\* were left.
DbFails(c) ==
    /\ "db" \in Faults
    /\ \/ /\ Goto(c, "markSent", "markFailed") \/ Goto(c, "markRule", "markFailed")
          /\ UNCHANGED <<now, todo, snap, rule, matches, target, held>>
       \/ /\ pc[c] \in {"limit", "fetch", "recent", "create", "markFailed"}
          /\ pc' = [pc EXCEPT ![c] = "idle"]
          /\ Dropped(c)
    /\ UNCHANGED <<lastTrig, eventVars>>

\* A write commits and throws all the same: the row is written, and the code goes
\* where a write that failed leads it.
AnswerLost(c) ==
    /\ "answer" \in Faults
    /\ \/ /\ Goto(c, "markSent", "markFailed") /\ StampSent(c)
          /\ UNCHANGED <<now, lastTrig, todo, snap, rule, matches, target, held>>
       \/ /\ Goto(c, "markRule", "markFailed") /\ StampRule(c)
          /\ UNCHANGED <<now, eventVars, todo, snap, rule, matches, target, held>>
       \/ /\ Goto(c, "create", "idle")
          /\ \E i \in Events : InsertEvent(c, i)
          /\ Dropped(c) /\ UNCHANGED lastTrig
       \/ /\ Goto(c, "markFailed", "idle") /\ StampFailed(c)
          /\ Dropped(c) /\ UNCHANGED lastTrig

\* The process dies with every cycle under way, and is restarted.
Crash ==
    /\ "crash" \in Faults
    /\ \E c \in Cycles : pc[c] # "idle"
    /\ pc' = [c \in Cycles |-> "idle"]
    /\ todo' = [c \in Cycles |-> {}]
    /\ matches' = [c \in Cycles |-> {}]
    /\ held' = [c \in Cycles |-> NoEvent]
    /\ UNCHANGED <<now, lastTrig, eventVars, snap, rule, target>>

CycleStep(c) ==
    \/ Start(c) \/ CheckLimit(c) \/ EndMatches(c) \/ Send(c) \/ SendFails(c)
    \/ MarkSent(c) \/ MarkRule(c) \/ MarkFailed(c) \/ End(c) \/ DbFails(c)
    \/ AnswerLost(c)
    \/ \E r \in Rules : NextRule(c, r) \/ SkipRule(c, r)
    \/ \E found \in SUBSET Entities : Fetch(c, found)
    \/ \E x \in Entities : SkipMatch(c, x) \/ TakeMatch(c, x)
    \/ \E i \in Events : Create(c, i)

Next == Tick \/ Crash \/ \E c \in Cycles : CycleStep(c)

Spec == Init /\ [][Next]_vars

-----------------------------------------------------------------------------
(* Properties *)

\* The rate limit of a channel, in the events the worker itself counts, is
\* overshot by no more than the other cycles under way: a cycle commits to one
\* alert when it passes the check and looks at no limit again.
RateBound ==
    \A ch \in Channels :
        Cardinality(Usage(ch)) <= RateLimit[ch] + Cardinality(Cycles) - 1

\* Notifications that reached a channel in the last hour.
Reached(ch) == {i \in delivered : ChannelOf[evRule[i]] = ch /\ evAt[i] >= now - Hour}

\* What the destination sees is within the limit too (when no notification is
\* delivered and reported as failed).
ReachedWithinLimit ==
    \A ch \in Channels : Cardinality(Reached(ch)) <= RateLimit[ch]

\* Two notifications about the same entity by the same rule are more than a
\* cooldown apart, also across a crash that leaves the first one pending.
DedupeHonoured ==
    \A i, j \in delivered :
        i # j /\ evRule[i] = evRule[j] /\ evEntity[i] = evEntity[j]
            => \/ evAt[i] > evAt[j] + Cooldown[evRule[i]]
               \/ evAt[j] > evAt[i] + Cooldown[evRule[i]]

\* Once a rule is marked triggered its next alert, about any entity and whether
\* it succeeds or not, is a cooldown away (unless the answer of the write that
\* marks it is lost: the loop then goes on to the next match).
CooldownHonoured ==
    \A i \in Events :
        evStatus[i] # "none" /\ lastTrig[evRule[i]] # Never
                             /\ evAt[i] > lastTrig[evRule[i]]
            => evAt[i] >= lastTrig[evRule[i]] + Cooldown[evRule[i]]

\* docs/specs/phase-3-insight.md: the service enforces per-channel rate limits.
RateLimitEnforced ==
    \A ch \in Channels : Cardinality(Usage(ch)) <= RateLimit[ch]
=============================================================================

---------------------------- MODULE EventStream ----------------------------
(***************************************************************************)
(* What a topic promises to those who iterate over it: from the moment its *)
(* subscription is live an iterator is handed every event of the topic,    *)
(* each of them once and in the order of publication.  When it is over, it *)
(* may still be handed what was published before.                          *)
(***************************************************************************)
EXTENDS Naturals

CONSTANT Iterators

VARIABLES
    log,        \* how many events were published
    phase,      \* of an iterator: new, live, over
    cursor,     \* the last event it was handed, or passed over when it began
    end         \* for one that is over, how many events there were by then

vars == <<log, phase, cursor, end>>

Init ==
    /\ log = 0
    /\ phase = [i \in Iterators |-> "new"]
    /\ cursor = [i \in Iterators |-> 0]
    /\ end = [i \in Iterators |-> 0]

Publish ==
    /\ log' = log + 1
    /\ UNCHANGED <<phase, cursor, end>>

\* A publication may be handed at once to those who wait for it.
PublishTo(S) ==
    /\ \A i \in S : phase[i] = "live" /\ cursor[i] = log
    /\ log' = log + 1
    /\ cursor' = [i \in Iterators |-> IF i \in S THEN log + 1 ELSE cursor[i]]
    /\ UNCHANGED <<phase, end>>

Join(i) ==
    /\ phase[i] = "new"
    /\ phase' = [phase EXCEPT ![i] = "live"]
    /\ cursor' = [cursor EXCEPT ![i] = log]
    /\ UNCHANGED <<log, end>>

Hand(i) ==
    /\ \/ phase[i] = "live" /\ cursor[i] < log
       \/ phase[i] = "over" /\ cursor[i] < end[i]
    /\ cursor' = [cursor EXCEPT ![i] = @ + 1]
    /\ UNCHANGED <<log, phase, end>>

\* One iterator is returned, or all of them end with their process.
Leave(S) ==
    /\ \A i \in S : phase[i] # "over"
    /\ phase' = [i \in Iterators |-> IF i \in S THEN "over" ELSE phase[i]]
    /\ end' = [i \in Iterators |-> IF i \in S
                                   THEN (IF phase[i] = "live" THEN log ELSE cursor[i])
                                   ELSE end[i]]
    /\ UNCHANGED <<log, cursor>>

Next ==
    \/ Publish
    \/ \E S \in SUBSET Iterators : PublishTo(S) \/ Leave(S)
    \/ \E i \in Iterators : Join(i) \/ Hand(i)

Spec == Init /\ [][Next]_vars
=============================================================================

--------------------------- MODULE PresenceStore ---------------------------
(***************************************************************************)
(* The roster of one room as Redis keeps it: the set of member ids, which  *)
(* expires as a whole, and one key per member, which expires by itself.  A *)
(* member is listed while the set names it and its key is there.  Both     *)
(* writers of the roster, the gateway and the presence route, use one      *)
(* MULTI per change, so a change is a single step.                         *)
(***************************************************************************)
EXTENDS Integers

CONSTANTS
    Members,    \* people who may be in the room
    MaxTtl      \* the longest time to live anyone asks for, in ticks

ASSUME MaxTtlAssumption == MaxTtl \in Nat

VARIABLES
    ids,        \* presence:room:<room>
    idsTtl,     \* its time to live, 0 when the set does not exist
    keyTtl      \* time to live of presence:member:<room>:<member>, 0 when absent

storeVars == <<ids, idsTtl, keyTtl>>

StoreTypeOK ==
    /\ ids \in SUBSET Members
    /\ idsTtl \in 0 .. MaxTtl
    /\ keyTtl \in [Members -> 0 .. MaxTtl]

StoreInit ==
    /\ ids = {}
    /\ idsTtl = 0
    /\ keyTtl = [m \in Members |-> 0]

Listed(m) == m \in ids /\ keyTtl[m] > 0

\* (faulty) The key is renewed, and the set is taken to be there still.
TouchKeyOnly(m, ttl) ==
    /\ keyTtl' = [keyTtl EXCEPT ![m] = ttl]
    /\ ids' = IF keyTtl[m] = 0 THEN ids \cup {m} ELSE ids
    /\ idsTtl' = IF ids' = {} THEN 0 ELSE ttl

\* (faulty) The set keeps the life it was given first.
TouchSetOnce(m, ttl) ==
    /\ ids' = ids \cup {m}
    /\ idsTtl' = IF idsTtl = 0 THEN ttl ELSE idsTtl
    /\ keyTtl' = [keyTtl EXCEPT ![m] = ttl]

\* (faulty) The time to live is given in another unit.
TouchInMs(m, ttl) ==
    /\ ids' = ids \cup {m}
    /\ idsTtl' = 1000 * ttl
    /\ keyTtl' = [keyTtl EXCEPT ![m] = 1000 * ttl]

\* sadd, set with EX, and expire of the whole set.
TouchMember(m, ttl) ==
    /\ ids' = ids \cup {m}
    /\ idsTtl' = ttl
    /\ keyTtl' = [keyTtl EXCEPT ![m] = ttl]

\* srem and del; Redis drops a set with its last element.
RemoveMember(m) ==
    /\ ids' = ids \ {m}
    /\ idsTtl' = IF ids' = {} THEN 0 ELSE idsTtl
    /\ keyTtl' = [keyTtl EXCEPT ![m] = 0]

Less(ttl) == IF ttl = 0 THEN 0 ELSE ttl - 1

\* (faulty) A key written without EX stays for ever.
AgeSetOnly ==
    /\ idsTtl' = Less(idsTtl)
    /\ ids' = IF idsTtl' = 0 THEN {} ELSE ids
    /\ UNCHANGED keyTtl

\* A tick passes.
Age ==
    /\ idsTtl' = Less(idsTtl)
    /\ ids' = IF idsTtl' = 0 THEN {} ELSE ids
    /\ keyTtl' = [m \in Members |-> Less(keyTtl[m])]
=============================================================================

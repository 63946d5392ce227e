--------------------------- MODULE MCAlertsWorker ---------------------------
(***************************************************************************)
(* Instances of AlertsWorker for TLC: two rules share a channel.           *)
(***************************************************************************)
EXTENDS AlertsWorker, TLC

CONSTANTS Limit, Minutes

MCChannelOf == [r \in Rules |-> CHOOSE ch \in Channels : TRUE]
MCRateLimit == [ch \in Channels |-> Limit]
MCCooldown == [r \in Rules |-> Minutes]
Interchangeable == Permutations(Cycles) \cup Permutations(Events) \cup Permutations(Entities) \cup Permutations(Rules)
=============================================================================

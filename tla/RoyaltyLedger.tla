--------------------------- MODULE RoyaltyLedger ---------------------------
(***************************************************************************)
(* The arithmetic of the royalty ledger: amounts as decimals, shares of    *)
(* them, the allocation of a usage event to its splits, and the Merkle     *)
(* root of a cycle's entries.  A decimal is a number of units with its     *)
(* decimals, [n |-> 1250, d |-> 2] for 12.50, and so is a written amount.  *)
(***************************************************************************)
EXTENDS Integers, Sequences

Dec(n, d) == [n |-> n, d |-> d]

BASIS_POINTS == 10000

Magnitude(n) == IF n < 0 THEN -n ELSE n
Sign(n) == IF n < 0 THEN -1 ELSE 1

\* n / m, rounded half away from zero
Nearest(n, m) == Sign(n) * ((Magnitude(n) + m \div 2) \div m)

\* The amount in units of 10^-p, rounded by its first digit too many.
toScaled(amount, p) ==
    IF amount.d <= p THEN amount.n * 10 ^ (p - amount.d)
                     ELSE Nearest(amount.n, 10 ^ (amount.d - p))

\* It is written without the zeros at its end.
fromScaled(value, p) ==
    LET d == CHOOSE k \in 0 .. p :
                /\ value % 10 ^ (p - k) = 0
                /\ \A j \in 0 .. k - 1 : value % 10 ^ (p - j) # 0
    IN Dec(Sign(value) * (Magnitude(value) \div 10 ^ (p - d)), d)

Net(scaledGross, share) == Nearest(scaledGross * share, BASIS_POINTS)

\* A share in basis points of a gross amount
computeAmount(gross, share, p) == fromScaled(Net(toScaled(gross, p), share), p)

-----------------------------------------------------------------------------
(* allocateUsageEvent: shares are in thousandths of a percent *)

Total(s) ==
    LET sum[i \in 0 .. Len(s)] == IF i = 0 THEN 0 ELSE sum[i - 1] + s[i]
    IN sum[Len(s)]

toBasisPoints(pctShare) == (pctShare + 5) \div 10

Digits(n) == CHOOSE k \in 1 .. 20 : n < 10 ^ k /\ \A j \in 1 .. k - 1 : n >= 10 ^ j

Garbled == [garbled |-> TRUE]   \* what is no number any more

\* The corrected units as an amount: slice() cuts p characters off the end of
\* their string, a negative end counts from that end, and the sign is a character.
Rewritten(units, p) ==
    LET len == Digits(Magnitude(units)) + (IF units < 0 THEN 1 ELSE 0)
        lead == IF 2 * len > p THEN units \div 10 ^ (p - len) ELSE 0
    IN CASE units >= 0 /\ len >= p -> Dec(units, p)
         [] units >= 0 /\ len < p -> Dec(lead * 10 ^ p + units, p)
         [] units < 0 /\ len > p + 1 -> Dec(units, p)
         [] OTHER -> Garbled

\* The debit and the credits of an event.  Amounts are compared as the digits
\* they are written with, and the last credit takes the difference.
allocateUsageEvent(gross, splits, p) ==
    LET debit == computeAmount(gross, BASIS_POINTS, p)
        credits == [i \in 1 .. Len(splits) |-> computeAmount(gross, toBasisPoints(splits[i]), p)]
        delta == debit.n - Total([i \in 1 .. Len(splits) |-> credits[i].n])
        last == Len(splits)
    IN [debit |-> debit,
        credits |-> IF delta = 0 THEN credits
                    ELSE [credits EXCEPT ![last] = Rewritten(@.n + delta, p)]]

\* Without splits there are no entries, and a total that is not positive is an error.
Allocatable(splits) == splits # <<>> /\ Total(splits) > 0

-----------------------------------------------------------------------------
(* merkleRoot: hashes are the terms that were hashed *)

hashLeaf(data) == <<"leaf", data>>
hashPair(a, b) == <<"pair", a, b>>

\* One level up: a node without a neighbour is paired with itself.
Level(nodes) ==
    IF Len(nodes) <= 1 THEN nodes
    ELSE [i \in 1 .. (Len(nodes) + 1) \div 2 |->
            hashPair(nodes[2 * i - 1], IF 2 * i <= Len(nodes) THEN nodes[2 * i] ELSE nodes[2 * i - 1])]

merkleRoot(leaves) ==
    LET level[k \in 0 .. Len(leaves)] ==
            IF k = 0 THEN [i \in 1 .. Len(leaves) |-> hashLeaf(leaves[i])] ELSE Level(level[k - 1])
    IN IF leaves = <<>> THEN <<>> ELSE level[Len(leaves)][1]
=============================================================================

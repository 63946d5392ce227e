-------------------------- MODULE MCRoyaltyLedger --------------------------
(***************************************************************************)
(* RoyaltyLedger on bounded inputs, which TLC evaluates with the           *)
(* assumptions of the run that extends this module.                        *)
(***************************************************************************)
EXTENDS RoyaltyLedger

LOCAL Precision == 3

\* Amounts with none to four decimals, of either sign
LOCAL Amounts == {Dec(n, d) : n \in -120 .. 120, d \in {0, 1, 2, 4}}
LOCAL Grosses == {Dec(n, d) : n \in {1, 7, 10, 12, 99, 120}, d \in {0, 1, 3}}
                 \cup {Dec(12003, 2), Dec(99999, 3)}
LOCAL Shares == {0, 1, 3333, 10000, 33333, 33334, 50000, 66667, 100000}
LOCAL Splits == UNION {[1 .. k -> Shares] : k \in 1 .. 3}

\* Units of a decimal that has no more than the places of the precision
LOCAL Units(amount) == amount.n * 10 ^ (Precision - amount.d)

\* Writing an amount and reading it again changes nothing.
ASSUME WrittenAndRead ==
    \A v \in -1300 .. 1300 : toScaled(fromScaled(v, Precision), Precision) = v

\* Reading rounds to the nearest unit.
ASSUME ReadIsNearest ==
    \A a \in Amounts :
        LET units == toScaled(a, Precision)
        IN 2 * Magnitude(a.n * 10 ^ Precision - units * 10 ^ a.d) <= 10 ^ a.d

LOCAL SameDecimals(entries) ==
    \A i \in DOMAIN entries.credits : entries.credits[i].d = entries.debit.d

LOCAL Written(gross, splits) ==
    [debit |-> computeAmount(gross, BASIS_POINTS, Precision),
     credits |-> [i \in DOMAIN splits |-> computeAmount(gross, toBasisPoints(splits[i]), Precision)]]

LOCAL Balanced(entries) ==
    /\ \A c \in {entries.credits[i] : i \in DOMAIN entries.credits} : c # Garbled
    /\ Total([i \in DOMAIN entries.credits |-> Units(entries.credits[i])]) = Units(entries.debit)

\* With as many decimals in all amounts the credits of an event add up to its
\* debit, when there is no difference or it leaves the last of them long enough.
ASSUME SameDecimalsBalance ==
    \A g \in Grosses : \A s \in {t \in Splits : Allocatable(t)} :
        LET written == Written(g, s)
            rest == written.debit.n - Total([i \in DOMAIN s |-> written.credits[i].n])
            last == written.credits[Len(s)].n + rest
        IN SameDecimals(written)
               /\ (rest = 0 \/ (written.debit.d = Precision /\ last >= 10 ^ (Precision - 1)))
           => Balanced(allocateUsageEvent(g, s, Precision))

\* They do not in general: the difference is taken between digits of different
\* decimals (10.00 in three shares), and is written with a slice from the wrong end.
ASSUME UnequalDecimals ==
    ~Balanced(allocateUsageEvent(Dec(10, 0), <<33333, 33333, 33334>>, Precision))

ASSUME ShortDifference ==
    Rewritten(12, Precision) = Dec(1012, Precision)

\* Without a leaf repeated at the end, the root tells any two lists of entries apart.
LOCAL Lists == {s \in UNION {[1 .. k -> {"a", "b", "c", "d"}] : k \in 0 .. 4} :
                   \A i, j \in DOMAIN s : i # j => s[i] # s[j]}

ASSUME RootsDiffer == \A s, t \in Lists : merkleRoot(s) = merkleRoot(t) => s = t

ASSUME RepeatedEnd == merkleRoot(<<"a", "b", "c">>) = merkleRoot(<<"a", "b", "c", "c">>)
=============================================================================

------------------------------- MODULE Export -------------------------------
(***************************************************************************)
(* src/population_tracker/export.py: the rows of the database as the       *)
(* samples of population.json.  A row is the time it was recorded at, in   *)
(* steps of which a day has StepsPerDay, and its counts.                   *)
(***************************************************************************)
EXTENDS Sample

CONSTANTS
    StepsPerDay,
    RecentDays      \* --recent-days; negative: everything stays as it is

ASSUME ExportAssumption == StepsPerDay \in Nat \ {0} /\ RecentDays \in Int

Day(step)     == step \div StepsPerDay
Midnight(day) == day * StepsPerDay
-----------------------------------------------------------------------------
(* The k-th of a set of numbers, and the elements at some positions of a   *)
(* sequence, in their order                                                *)
Nth(S, k)   == CHOOSE x \in S : Cardinality({y \in S : y < x}) = k - 1
Those(s, S) == [k \in 1 .. Cardinality(S) |-> s[Nth(S, k)]]

(* ORDER BY recorded_at                                                    *)
Before(rows, i, j) == rows[i].at < rows[j].at \/ (rows[i].at = rows[j].at /\ i < j)
InOrder(rows) ==
    [k \in 1 .. Len(rows) |->
       rows[CHOOSE i \in 1 .. Len(rows) :
              Cardinality({j \in 1 .. Len(rows) : Before(rows, j, i)}) = k - 1]]

NewestThree(rows) == \* mutant
    SubSeq(InOrder(rows), IF Len(rows) > 3 THEN Len(rows) - 2 ELSE 1, Len(rows))
Selected(rows) == InOrder(rows)
-----------------------------------------------------------------------------
(* statistics.mean and round: halves go to the even neighbour              *)
RoundedMean(sum, n) ==
    LET quotient == sum \div n
        twice    == 2 * (sum % n)
    IN  IF twice < n \/ (twice = n /\ quotient % 2 = 0) THEN quotient ELSE quotient + 1

(* The values of a field in some of the rows, by the place of their row    *)
ValuesOrZero(rows, S, field) == \* mutant
    [i \in S |-> IF rows[i].counts[field] = NULL THEN 0 ELSE rows[i].counts[field]]
Values(rows, S, field) ==
    [i \in {j \in S : rows[j].counts[field] # NULL} |-> rows[i].counts[field]]

(* The sum of the values at places up to n                                 *)
Sum(values, n) ==
    LET upTo[k \in 0 .. n] == IF k = 0 THEN 0
                              ELSE upTo[k - 1] + (IF k \in DOMAIN values THEN values[k] ELSE 0)
    IN  upTo[n]

Rollup(day, rows, ofDay) ==
    [at     |-> Midnight(day),
     counts |-> [f \in Fields |->
                   LET values == Values(rows, ofDay, f)
                   IN  IF DOMAIN values = {} THEN NULL
                       ELSE RoundedMean(Sum(values, Len(rows)), Cardinality(DOMAIN values))]]

RollupDaily(rows, old) ==
    LET days == {Day(rows[i].at) : i \in old}
    IN  [k \in 1 .. Cardinality(days) |->
           Rollup(Nth(days, k), rows, {i \in old : Day(rows[i].at) = Nth(days, k)})]

Cutoff(now) == now - RecentDays * StepsPerDay

ExportSamples(rows, now) ==
    LET ordered == Selected(rows)
        old     == {i \in DOMAIN ordered : ordered[i].at < Cutoff(now)}
    IN  IF RecentDays < 0 THEN ordered
        ELSE RollupDaily(ordered, old) \o Those(ordered, DOMAIN ordered \ old)
=============================================================================

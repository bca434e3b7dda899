-------------------------- MODULE RouteObservations --------------------------
(***************************************************************************)
(* Punctuality rows (src/bvg_radar/realtime/analytics.py and the migration *)
(* 20261018214617_route_punctuality_analytics.sql): the aggregation of a   *)
(* snapshot's positions, the database's checks and grouping of the rows,   *)
(* and the daily ranking.                                                  *)
(***************************************************************************)
EXTENDS Integers, SequencesExt, FiniteSetsExt

CONSTANTS
    Absent,     \* None, null
    Blank,      \* the empty text
    Stripped,   \* texts with white space around them, and what is inside
    Collation   \* the texts of routes, in the order of the database

Strip(text) == IF text \in DOMAIN Stripped THEN Stripped[text] ELSE text

Categories == <<"bus", "regional", "s_bahn", "tram", "u_bahn", "unknown">>
PunctualityThreshold == 60

\* What is stripped stays as it is; the categories are.
ASSUME TextAssumption ==
    /\ Absent # Blank /\ Absent \notin Int
    /\ (ToSet(Categories) \cup {Absent, Blank}) \cap DOMAIN Stripped = {}
    /\ \A text \in DOMAIN Stripped : Stripped[text] \notin DOMAIN Stripped \cup {Absent}

\* A route and a category: what a row, a rollup and a ranking are about.
Group(route, category) == [route |-> route, category |-> category]

SumOf(numbers) ==
    LET sum[n \in 0 .. Len(numbers)] == IF n = 0 THEN 0 ELSE sum[n - 1] + numbers[n]
    IN  sum[Len(numbers)]

-----------------------------------------------------------------------------
(* aggregate_route_observations.                                           *)

IsObserved(position) == position.delay # Absent /\ Strip(position.route) # Blank
GroupOf(position) ==
    Group(Strip(position.route),
          IF position.category = Absent THEN "unknown" ELSE position.category)

\* The rows come sorted by group; nothing below depends on their order.
AggregateRow(positions, g) ==
    LET its == {i \in DOMAIN positions : IsObserved(positions[i]) /\ GroupOf(positions[i]) = g}
        late == {i \in its : positions[i].delay > PunctualityThreshold}
    IN  [route |-> g.route, category |-> g.category, samples |-> Cardinality(its),
         on_time |-> Cardinality(its \ late), late |-> Cardinality(late),
         delay |-> SumOf([i \in DOMAIN positions |->
                            IF i \in its THEN positions[i].delay ELSE 0])]

AggregateRows(positions) ==
    LET observed == {i \in DOMAIN positions : IsObserved(positions[i])}
    IN  SetToSeq({AggregateRow(positions, GroupOf(positions[i])) : i \in observed})

-----------------------------------------------------------------------------
(* analytics.record_route_observations, before it writes.                  *)

CategoryOf(row) ==
    IF row.category = Absent \/ Strip(row.category) = Blank
    THEN "unknown" ELSE Strip(row.category)

RowIsSound(row) ==
    /\ row.route # Absent /\ Strip(row.route) # Blank
    /\ row.samples \in Nat \ {0} /\ row.on_time \in Nat /\ row.late \in Nat
    /\ row.on_time + row.late = row.samples
    /\ row.delay \in Int
    /\ CategoryOf(row) \in ToSet(Categories)

RowsAreSound(rows) == rows # Absent /\ \A i \in DOMAIN rows : RowIsSound(rows[i])

\* GROUP BY: the sums of a payload's rows about one group.
GroupOfRow(row) == Group(Strip(row.route), CategoryOf(row))
GroupsOf(rows) == {GroupOfRow(rows[i]) : i \in DOMAIN rows}
Total(rows, g, field) ==
    SumOf([i \in DOMAIN rows |-> IF GroupOfRow(rows[i]) = g THEN rows[i][field] ELSE 0])

-----------------------------------------------------------------------------
(* analytics.refresh_daily_line_ranking: the ordering.  A rollup has its   *)
(* group and the sums samples, on_time and delay.                          *)

\* round(numerator / denominator, digits), half away from zero, times scale.
Rounded(numerator, denominator, scale) ==
    LET up(n) == (2 * n * scale + denominator) \div (2 * denominator)
    IN  IF numerator >= 0 THEN up(numerator) ELSE -up(-numerator)

Ratio(rollup) == Rounded(rollup.on_time, rollup.samples, 1000000)
MeanDelay(rollup) == Rounded(rollup.delay, rollup.samples, 100)

Lexicographic(s, t) ==
    \E i \in DOMAIN s : s[i] < t[i] /\ \A j \in 1 .. (i - 1) : s[j] = t[j]

Directions == {"most_punctual", "least_punctual"}
SortKey(rollup, direction) ==
    LET sign == IF direction = "most_punctual" THEN 1 ELSE -1
        Place(text, texts) == CHOOSE i \in DOMAIN texts : texts[i] = text
    IN  <<-sign * Ratio(rollup), sign * MeanDelay(rollup),
          Place(rollup.group.route, Collation),
          Place(rollup.group.category, Categories)>>

RankingParametersRefused(min_samples, limit) ==
    min_samples <= 0 \/ limit <= 0 \/ limit > 100

Ranked(rollups, min_samples, limit) ==
    LET qualified == {r \in rollups : r.samples >= min_samples}
        Position(r, direction) ==
            1 + Cardinality({q \in qualified :
                    Lexicographic(SortKey(q, direction), SortKey(r, direction))})
    IN  UNION {{[direction |-> direction, position |-> Position(r, direction),
                 group |-> r.group, samples |-> r.samples, ratio |-> Ratio(r),
                 mean |-> MeanDelay(r)] :
                    r \in {q \in qualified : Position(q, direction) <= limit}} :
               direction \in Directions}
=============================================================================

----------------------------- MODULE MCFeedCycle -----------------------------
(***************************************************************************)
(* An instance of FeedCycle: a trip that visits a stop twice, one whose    *)
(* stops are all at one place, one without a shape, and feeds with one     *)
(* entity of up to two stop updates or with three entities.                *)
(***************************************************************************)
EXTENDS FeedCycle

MCStripped == (" M4 " :> "M4") @@ ("  " :> Blank)
MCCollation == <<"M4", "S1">>

Visit(sequence, stop, arrival, departure, fraction) ==
    [sequence |-> sequence, stop |-> stop, arrival |-> arrival,
     departure |-> departure, fraction |-> fraction]
MCStopTimes ==
    ("loop" :> <<Visit(1, "A", 10, 10, 0), Visit(2, "B", 20, 22, 3),
                 Visit(5, "A", 30, 30, 5), Visit(7, "C", 40, 41, 8)>>)
 @@ ("other" :> <<Visit(1, "B", 12, 12, 1), Visit(2, "C", 26, 26, 4)>>)
 @@ ("still" :> <<Visit(1, "A", 10, 10, 2), Visit(2, "B", 40, 40, 2)>>)
 @@ ("bare" :> <<Visit(1, "A", 10, 10, 0), Visit(2, "B", 40, 40, Absent)>>)
 @@ ("noshape" :> <<Visit(1, "A", 10, 10, 0), Visit(2, "B", 40, 40, 1)>>)

Trip(route, type, geometry) ==
    [route |-> route, shape |-> "shape", geometry |-> geometry, type |-> type,
     name |-> route]
MCTrips ==
    ("loop" :> Trip("M4", 900, TRUE)) @@ ("other" :> Trip("S1", 109, TRUE))
 @@ ("still" :> Trip("M4", 3, TRUE)) @@ ("bare" :> Trip("S1", 2, TRUE))
 @@ ("noshape" :> Trip("M4", 100, FALSE))

Timing(time, delay) == [time |-> time, delay |-> delay]
StopOf(sequence, stop, arrival, departure, relationship) ==
    [sequence |-> sequence, stop |-> stop, arrival |-> arrival,
     departure |-> departure, relationship |-> relationship, unknown |-> <<>>]
Both(sequence, stop, timing) == StopOf(sequence, stop, timing, timing, "SCHEDULED")

\* The day 1 starts at 98 in Berlin; a time is safe up to 160 and representable up
\* to 1000.
Stops ==
    {Both(1, "A", Timing(Absent, 3)), Both(5, "A", Timing(128, Absent)),
     Both(Absent, "A", Timing(Absent, 6)), Both(Absent, "B", Timing(114, 1)),
     Both(2, Absent, Timing(Absent, -4)), Both(7, "C", Timing(300, Absent)),
     Both(7, "C", Timing(300, 2)), Both(5000, "A", Timing(Absent, 9)),
     Both(5000, Absent, Timing(Absent, 9)), Both(Absent, Blank, Timing(Absent, 9)),
     StopOf(5, "A", Timing(125, Absent), NoTiming, "SKIPPED"),
     StopOf(5, "A", NoTiming, Timing(150, Absent), "NO_DATA"),
     [Both(2, "B", Timing(121, Absent)) EXCEPT !.unknown = <<9>>],
     Both(7, "C", Timing(2000, Absent))}

Update(trip, route, date, stops) ==
    [trip |-> trip, route |-> route, date |-> date, timestamp |-> 110,
     relationship |-> "SCHEDULED", unknown |-> <<>>, stops |-> stops]
Entity(id, update) == [id |-> id, deleted |-> Absent, update |-> update]
Feed(entities) ==
    [incrementality |-> "FULL_DATASET", unknown |-> <<>>, timestamp |-> 110,
     entities |-> entities]

StopLists == {<<>>} \cup {<<s>> : s \in Stops} \cup {<<s, t>> : s, t \in Stops}
OneTrip(stops) == Update("loop", "M4", 1, stops)
Late == <<Both(Absent, "B", Timing(Absent, 5))>>

\* Updates that a feed mixes with others: of every trip, of one that the schedule
\* lacks, incomplete ones, and ones of other services.
Mixed ==
    {OneTrip(<<>>), OneTrip(<<Both(1, "A", Timing(Absent, 3))>>),
     Update("loop", "M4", 0, <<>>), Update("other", "S1", 1, Late),
     Update("still", "M4", 1, Late), Update("bare", "S1", 1, Late),
     Update("noshape", "M4", 1, Late), Update("gone", "M4", 1, Late),
     Update("other", Blank, 1, Late), Update(Absent, "S1", 1, Late),
     Update("other", "S1", Garbled, Late),
     [Update("other", "S1", 1, Late) EXCEPT !.relationship = "CANCELED"],
     [Update("other", Absent, Absent, <<Both(7, "C", Timing(300, Absent))>>)
        EXCEPT !.relationship = "ADDED"],
     [Update("other", "S1", 1, Late) EXCEPT !.unknown = <<3, 7>>],
     [Update("other", "S1", 1, Late) EXCEPT !.unknown = <<8>>]}

MCFeeds ==
    {Feed(<<Entity("e1", OneTrip(stops))>>) : stops \in StopLists} \cup
    {Feed(<<Entity("e1", u), Entity("e2", v), Entity("e3", Update("other", "S1", 1, <<>>))>>) :
        u, v \in Mixed} \cup
    {Feed(<<>>), [Feed(<<>>) EXCEPT !.timestamp = Absent],
     [Feed(<<>>) EXCEPT !.timestamp = 2000], [Feed(<<>>) EXCEPT !.unknown = <<5>>],
     [Feed(<<>>) EXCEPT !.incrementality = "DIFFERENTIAL"],
     Feed(<<Entity("  ", OneTrip(<<>>))>>),
     Feed(<<Entity(Absent, OneTrip(<<>>)), Entity("e2", Absent)>>),
     Feed(<<[Entity("e1", OneTrip(<<>>)) EXCEPT !.deleted = TRUE],
            [Entity("e2", OneTrip(<<>>)) EXCEPT !.deleted = FALSE]>>),
     Feed(<<Entity("e1", [OneTrip(<<>>) EXCEPT !.timestamp = 2000])>>)}
=============================================================================

-------------------------- MODULE MCJourneySearch --------------------------
(***************************************************************************)
(* Schedules of three trips from o to d by way of the platforms x and y of *)
(* station s, every combination of a few times, boarding limits, transfer  *)
(* rules and pathways; and one schedule with every kind of faulty row.     *)
(***************************************************************************)
EXTENDS JourneySearch

Routes == <<[id |-> "r1"], [id |-> "r2"], [id |-> "r3"]>>

StopRow(id, type, parent) ==
    [id |-> id, type |-> type, parent |-> parent, access |-> Blank]
StopRows == <<StopRow("o", Blank, Blank), StopRow("x", 0, "s"), StopRow("y", 0, "s"),
              StopRow("d", 0, Blank), StopRow("n", 3, "s"), StopRow("s", 1, Blank)>>

\* Service w runs on Mondays, and a once, on day 1.
Calendar == <<[id |-> "w", days |-> {0}, from |-> 0, to |-> 7],
              [id |-> "v", days |-> {0, 1}, from |-> 0, to |-> 1]>>
Exceptions == <<[service |-> "a", date |-> 1, kind |-> Added],
                [service |-> "v", date |-> 1, kind |-> Removed]>>

TripRow(id, route, service) ==
    [id |-> id, route |-> route, service |-> service, direction |-> Blank]
TripRows == <<TripRow("t1", "r1", "w"), TripRow("t0", "r1", "w"),
              TripRow("t2", "r2", "w"), TripRow("t3", "r3", "v"), TripRow("t4", "r1", "a")>>

At(trip, stop, sequence, arrival, departure, pickup, drop_off) ==
    [trip |-> trip, stop |-> stop, sequence |-> sequence, arrival |-> arrival,
     departure |-> departure, pickup |-> pickup, drop_off |-> drop_off]

Firsts == {<<At("t1", "o", 1, a, a, Blank, 0), At("t1", "x", 2, 2, 3, 0, 0)>> \o tail :
            a \in {0, 1},
            tail \in {<<>>, <<At("t1", "d", 5, 5, 5, 0, Blank)>>}}
Seconds == {<<At("t2", p, 0, a, a, 0, 0), At("t2", "d", 1, a + 1, a + 1, 0, Blank)>> :
            a \in {2, 4}, p \in {"x", "y"}}
Thirds == {<<At("t3", "o", 1, 1, 1, board, 0), At("t3", "y", 2, 2, 2, 0, 0),
             At("t3", "x", 3, 3, 3, 0, 0), At("t3", "d", 4, a, a, 0, 0)>> :
                board \in {0, 1}, a \in {3, 6}}
Fourth == <<At("t4", "o", 1, 0, 0, 0, 0), At("t4", "o", 2, 1, 1, 0, 0),
            At("t4", "d", 3, 4, 4, 0, 1), At("t4", "d", 4, 5, 5, 0, 0)>>

Rule(from, to, kind, min, from_route, to_route) ==
    [from |-> from, to |-> to, kind |-> kind, min |-> min,
     from_route |-> from_route, to_route |-> to_route,
     from_trip |-> Blank, to_trip |-> Blank]
StationRule == Rule("s", "s", Blank, Blank, Blank, Blank)
TransferFiles == {
    <<>>,
    <<StationRule>>,
    <<StationRule, Rule("x", "y", 2, 2, "r1", Blank)>>,
    <<Rule("s", "y", 2, 1, "r1", Blank), Rule("x", "s", 1, Blank, Blank, "r2")>>,
    <<Rule("x", "y", 1, Blank, "r1", Blank), Rule("x", "x", 1, Blank, "r3", "r2")>>,
    <<Rule("s", "s", 1, Blank, Blank, Blank), Rule("x", "y", 3, Blank, "r1", "r2")>> }

Path(id, from, to, both, seconds) ==
    [id |-> id, from |-> from, to |-> to, mode |-> 1, both |-> both, seconds |-> seconds]
PathwayFiles == {
    <<>>,
    <<Path("p1", "x", "n", 1, 1), Path("p2", "n", "y", 1, 1),
      Path("p3", "x", "y", 0, 3), Path("p4", "y", "x", 0, Blank)>> }

Directory(stop_times, transfers, pathways) ==
    [routes |-> Routes, stops |-> StopRows, calendar |-> Calendar,
     calendar_dates |-> Exceptions, trips |-> TripRows, stop_times |-> stop_times,
     transfers |-> transfers, pathways |-> pathways]

Sound == {Directory(first \o second \o third \o Fourth, t, p) :
            first \in Firsts, second \in Seconds, third \in Thirds,
            t \in TransferFiles, p \in PathwayFiles}

\* A schedule in which no time passes: the way from o to d is on t1, on to the
\* stop x, back with t2 and on t1 again, at an earlier stop of it.
Standing ==
    {Directory(<<At("t1", "y", 1, 3, 3, 0, 0), At("t1", "d", 2, 3, 3, 0, 0),
                 At("t1", "o", 3, 3, 3, 0, 0), At("t1", "x", 4, 3, 3, 0, 0),
                 At("t2", "x", 1, 3, 3, 0, 0), At("t2", "y", 2, 3, 3, 0, 0)>>,
               <<Rule("s", "s", 1, Blank, Blank, Blank)>>, <<>>)}

\* One directory for each way a row, or a whole file, may be wrong.
Usual == CHOOSE d \in Sound : d.transfers # <<>> /\ d.transfers[1].from = "s"
                                 /\ Len(d.transfers) = 2 /\ d.pathways # <<>>

With(file, cell, value) == [Usual EXCEPT ![file][1][cell] = value]
Faulty ==
    {[Usual EXCEPT ![f] = Unreadable] : f \in DOMAIN Usual}
    \cup {[Usual EXCEPT ![f] = Append(@, @[1])] : f \in DOMAIN Usual}
    \cup {[Usual EXCEPT !.calendar = <<>>],
          [Usual EXCEPT !.stop_times = Reverse(@)]}
    \cup {With(f, "id", Blank) : f \in {"routes", "stops", "calendar", "trips", "pathways"}}
    \cup {With("stops", "type", Garbled), With("stops", "access", 2),
          With("calendar", "days", Garbled), With("calendar", "from", 9),
          With("calendar_dates", "service", Blank), With("calendar_dates", "kind", 3),
          With("trips", "route", "r9"), With("trips", "service", "z"),
          With("trips", "direction", 2),
          With("transfers", "from", "z"), With("transfers", "from", "n"),
          With("transfers", "kind", 6), With("transfers", "min", Garbled),
          With("transfers", "kind", 2), With("transfers", "kind", 4),
          With("transfers", "from_route", "r9"), With("transfers", "to_trip", "t9"),
          With("pathways", "to", "z"), With("pathways", "mode", 7),
          With("pathways", "to", "s"), With("pathways", "seconds", 0),
          With("stop_times", "trip", "t9"), With("stop_times", "stop", "z"),
          With("stop_times", "sequence", 2), With("stop_times", "arrival", Blank),
          With("stop_times", "pickup", 4)}
    \cup {[Usual EXCEPT !.stops[2].parent = "o", !.stops[3].parent = "o"],
          [With("transfers", "to_trip", "t2") EXCEPT !.transfers[1].to_route = "r1"],
          [Usual EXCEPT !.stops[5].access = 1]}

MCDirectories == Sound \cup Faulty \cup Standing

Ask4(origin, date, after) ==
    [origin |-> origin, destination |-> "d", date |-> date, after |-> after, limit |-> 1]
MCQueries == {Ask4("o", 0, 0), Ask4("o", 0, 1), Ask4("o", 1, 0),
              Ask4("o", 2, 0), Ask4("s", 0, 0)}
=============================================================================

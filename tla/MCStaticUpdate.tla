--------------------------- MODULE MCStaticUpdate ---------------------------
(***************************************************************************)
(* Archives, feeds and command lines for StaticUpdate.  Most scenarios     *)
(* have one run that gets somewhere, over every feed of up to three        *)
(* entities, or every odd archive; in the others two runs overlap while    *)
(* the servers change what they offer.                                     *)
(***************************************************************************)
EXTENDS StaticUpdate

CONSTANTS r1, r2, t1, t2, t3, extra, red, blue

File(name, size) ==
    [path |-> <<name>>, kind |-> "file", declared |-> size, packed |-> 1, actual |-> size]
Member(path, kind, declared, actual) ==
    [path |-> path, kind |-> kind, declared |-> declared, packed |-> 1, actual |-> actual]

Row(trip, route) == [trip |-> trip, route |-> route]
GoodRows == <<Row(t1, red), Row(t2, blue), Row(t3, red)>>
GoodMembers == <<File("trips.txt", 2), File("calendar.txt", 1)>>
Good ==
    [zip |-> "readable", members |-> GoodMembers, trips |-> GoodRows,
     headers |-> [f \in Required |-> "expected"],
     calendar |-> <<[start |-> 0, end |-> 1], [start |-> 1, end |-> 2]>>]
Newer == [Good EXCEPT !.trips = Append(GoodRows, Row(extra, red))]

With(members) == [Good EXCEPT !.members = GoodMembers \o members]
Archives ==
    {Good, [Good EXCEPT !.zip = "unreadable"], [Good EXCEPT !.members = Tail(GoodMembers)],
     [Good EXCEPT !.members = <<File("trips.txt", 2)>>],
     [Good EXCEPT !.headers = [f \in Required |-> "other"]]}
    \cup {[Good EXCEPT !.calendar = c] :
            c \in {<<>>, <<[start |-> 0, end |-> 0]>>, <<[start |-> 1, end |-> 1]>>,
                   <<[start |-> 0, end |-> NoDate]>>}}
    \cup {[Good EXCEPT !.trips = rows] :
            rows \in {<<Row(Blank, red)>>, <<Row(t1, red), Row(t1, blue)>>,
                      <<Row(t1, red), Row(t1, red), Row(t2, Blank)>>, <<Row(t1, red)>>}}
    \cup {With(members) :
            members \in {<<File("x", 3), File("y", 3)>>, <<File("x", 4)>>, <<File("x", 5)>>,
                <<File("x", 1), File("x", 1)>>,
                <<Member(<<"x">>, "link", 1, 1)>>, <<Member(<<"x">>, "garbled", 1, 1)>>,
                <<Member(<<"x">>, "directory", 0, 0), Member(<<"x", "y">>, "file", 1, 1)>>,
                <<Member(<<"x", "y">>, "file", 1, 1), File("x", 1)>>,
                <<File("x", 1), Member(<<"x", "y">>, "file", 1, 1)>>,
                <<Member(<<"x">>, "file", 1, 5)>>, <<Member(<<"x">>, "file", 1, 2)>>,
                <<Member(<<"x">>, "file", 1, 4), Member(<<"y">>, "file", 1, 4)>>,
                <<File("x", 1), File("y", 1), File("z", 1)>>}}

Entity(trip, relation, route) ==
    [update |-> TRUE, trip |-> trip, relation |-> relation, route |-> route]
Entities ==
    {Entity(t1, "SCHEDULED", red), Entity(t1, "SCHEDULED", blue),
     Entity(t1, "CANCELED", red), Entity(t1, "SCHEDULED", Blank), Entity(t1, "CANCELED", blue),
     Entity(t2, "SCHEDULED", Blank), Entity(extra, "SCHEDULED", red)}
Oddities ==
    {[Entity(t1, "SCHEDULED", blue) EXCEPT !.update = FALSE], Entity(t1, "OTHER", blue),
     Entity(Blank, "SCHEDULED", red), Entity(Blank, "CANCELED", red), Entity(extra, "CANCELED", red)}
GoodEntities == <<Entity(t1, "SCHEDULED", red), Entity(t2, "SCHEDULED", blue)>>

FeedAt(time, entities) == [timestamp |-> time, entities |-> entities]
Feeds ==
    {FeedAt(Now, entities) :
        entities \in UNION {[1 .. n -> Entities] : n \in 0 .. 3}
                     \cup {Append(GoodEntities, e) : e \in Oddities}
                     \cup {GoodEntities \o <<Entity(t3, "SCHEDULED", red), e>> : e \in Entities}}
    \cup {FeedAt(time, GoodEntities) : time \in {NoTime, 0, 6, 7, 11, 12, 99}}
GoodFeed == FeedAt(Now, GoodEntities)

Offer(archive, feed) == [archive |-> archive, feed |-> feed]
CommandLine(output, manifest, keep, policy) ==
    [output |-> output, manifest |-> manifest, keep |-> keep, policy |-> policy]
Default == CommandLine(<<"data", "GTFS">>, <<"data", "manifest.json">>, FALSE, "valid")
Keep == [Default EXCEPT !.keep = TRUE]
Invalid == [Default EXCEPT !.policy = "invalid"]
Refused ==
    {[Default EXCEPT !.manifest = <<"data", "GTFS", "manifest.json">>],
     [Keep EXCEPT !.manifest = <<"data", "gtfs.zip">>],
     [Keep EXCEPT !.output = <<"data", "gtfs.zip">>]}

Lines(first, second) == (r1 :> first) @@ (r2 :> second)
Changing == <<Offer(Good, GoodFeed), Offer(Newer, GoodFeed),
              Offer(Newer, FeedAt(Now, Tail(GoodEntities)))>>
MCScenarios ==
    {[offers |-> <<Offer(Good, feed)>>, invocation |-> Lines(Default, Invalid)] : feed \in Feeds}
    \cup {[offers |-> <<Offer(archive, feed)>>, invocation |-> Lines(Keep, Invalid)] :
            archive \in Archives, feed \in {GoodFeed, FeedAt(7, GoodEntities)}}
    \cup {[offers |-> Changing, invocation |-> lines] :
            lines \in {Lines(Default, Keep), Lines(Default, Default)}}
    \cup {[offers |-> <<Offer(Good, GoodFeed)>>, invocation |-> Lines(Default, line)] :
            line \in Refused}
MCMinimumMatch == <<3, 4>>
KeepersOnly == {[offers |-> Changing, invocation |-> Lines(Keep, Keep)]}
=============================================================================

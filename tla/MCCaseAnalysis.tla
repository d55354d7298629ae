---------------------------- MODULE MCCaseAnalysis ----------------------------
(***************************************************************************)
(* Inputs of the analysis for TLC: sentences that mix triggers and names   *)
(* which are parts or variations of each other, rows at the thresholds of  *)
(* the detectors, members of every kind, pings around the window.          *)
(***************************************************************************)
EXTENDS CaseAnalysis

MCPersons == {"Ravi", "Ravi Kumar", "Ravi Kumarr", "Mehmet", "Asha"}
MCLocations == {"Delhi", "New Delhi"}
MCOrganizations == {"Asha Traders"}
MCPhones == {"9876543210"}
MCVehicles == {"DL1CA1234"}

MCWithin == {<<"Ravi", "Ravi Kumar">>, <<"Ravi", "Ravi Kumarr">>, <<"met", "Mehmet">>,
             <<"Ravi Kumar", "Ravi Kumarr">>, <<"Delhi", "New Delhi">>,
             <<"Asha", "Asha Traders">>}

MCOffset ==
    [p \in MCWithin |-> CASE p[1] = "met" -> 3 [] p[1] = "Delhi" -> 4 [] OTHER -> 0]

MCSimilar == {<<"Ravi Kumar", "Ravi Kumarr">>, <<"Ravi Kumarr", "Ravi Kumar">>}

MCLength ==
    [n \in MCPersons \cup MCLocations \cup MCOrganizations |->
        CASE n = "Ravi" \/ n = "Asha" -> 4
          [] n = "Delhi" -> 5
          [] n = "Mehmet" -> 6
          [] n = "New Delhi" -> 9
          [] n = "Ravi Kumar" -> 10
          [] OTHER -> 12]

MCSentences ==
    {<<"Ravi", "called", "Asha">>,
     <<"called", "Ravi Kumar">>,
     <<"Asha", "called", "9876543210", "contacted">>,
     <<"Ravi Kumarr", "contacted", "9876543210">>,
     <<"Asha", "Ravi Kumar", "transferred">>,
     <<"Ravi", "transferred", "Mehmet", "met", "Asha", "Delhi">>,
     <<"Mehmet", "Ravi Kumar">>,
     <<"Asha", "member of", "Asha Traders", "New Delhi">>,
     <<"Ravi", "DL1CA1234", "seen near", "Delhi">>,
     <<"seen near", "New Delhi">>,
     <<"called", "met", "transferred">>,
     <<"Ravi", "Ravi Kumar", "met", "Asha Traders">>}

At(h) == [hour |-> h, half |-> "24h"]
Times == {At(5), At(6), [hour |-> 12, half |-> "AM"], [hour |-> 45, half |-> "AM"]}

MCCallRows ==
    [caller : {"a"}, callee : {"b"}, duration_sec : {299}, time : Times]
    \cup [caller : {"b"}, callee : {"a"}, duration_sec : {299, 300}, time : {At(12)}]
    \cup [caller : {"a"}, callee : {"c"}, duration_sec : {299}, time : {Detect!NoTime}]

MCTransferRows ==
    [sender : {"a"}, receiver : {"b"}, time : {At(5)},
     amount : {34999, 35000, 48999, 50000, 200000}]
    \cup [sender : {"b"}, receiver : {"a"}, time : {At(18)}, amount : {35000, 49000}]

Member(name, rows) == [name |-> name, rows |-> rows]

MCMembers ==
    {Member("entities.csv", <<<<"a", "Asha">>, <<"absent", "Ravi">>>>),
     Member("entities.csv", <<<<"c", "absent">>>>),
     Member("calls.csv", <<<<"a", "b">>, <<"a", "absent">>>>),
     Member("calls.csv", <<<<"b", "UNKNOWN">>>>),
     Member("chats.csv", <<<<"c", "d">>>>),
     Member("files.csv", <<<<"a", "absent">>, <<"b", "c">>>>),
     Member("locations.csv", <<<<"a", "p">>, <<"b", "q">>, <<"d", Zip!Origin>>, <<"a", "q">>>>),
     Member("locations.csv", <<<<"a", "p">>, <<"c", "r">>, <<"b", "q">>>>),
     Member("locations.csv", <<<<"a", Zip!Origin>>, <<"b", Zip!Origin>>, <<"absent", "p">>, <<"c", "q">>>>),
     Member("browser_history.csv", <<<<"e", "url">>, <<"absent", "url">>>>),
     Member("fir.txt", <<>>),
     Member("photo.jpg", <<>>)}

\* Positions and places: p and q are near, q and r are near; "0, 0" is the origin.
MCNear == {<<"p", "p">>, <<"q", "q">>, <<"r", "r">>, <<"0, 0", "0, 0">>,
           <<"p", "q">>, <<"q", "p">>, <<"q", "r">>, <<"r", "q">>}

MCCaseIds == {<<"a", "b">>, <<"a", "b", "c">>, <<"a", "a">>, <<>>}

Ping(e, t, place, id) ==
    [type |-> "location_ping", a |-> e, b |-> "absent", id |-> id, time |-> t, place |-> place]

Between(type, a, b, t) ==
    [type |-> type, a |-> a, b |-> b, id |-> 0, time |-> t, place |-> "none"]

MCCaseArtifacts ==
    {Ping("a", 0, "p", 1), Ping("a", 180, "q", 2), Ping("b", 90, "q", 3),
     Ping("b", 91, "p", 4), Ping("c", 95, "r", 5), Ping("d", 90, "q", 6),
     Ping("b", Engine!NoTime, "p", 7),
     Between("call", "a", "b", 10), Between("chat", "b", "a", 120),
     Between("file_artifact", "c", "absent", 20), Between("file_artifact", "a", "c", 130)}

=============================================================================

------------------------------- MODULE MCAnalysis -------------------------------
(* Analysis with the traces, directories and replies the runs use.         *)
EXTENDS Analysis

\* A call: service, caller (an index of the requests), duration, whether it failed.
Calls(trc, first, calls) ==
    [i \in DOMAIN calls |->
        [trace |-> trc, id |-> first + i,
         parent |-> IF calls[i][2] = 0 THEN 0 ELSE first + calls[i][2],
         svc |-> calls[i][1], start |-> 10 * first + i, dur |-> calls[i][3], err |-> calls[i][4],
         code |-> IF calls[i][4] THEN "5xx" ELSE "ok", request |-> TRUE]]

\* A request that fails along a chain, and two that end at its second service.
Chain == Calls(1, 0, <<<<"a", 0, 8, TRUE>>, <<"b", 1, 7, TRUE>>, <<"c", 2, 6, TRUE>>>>)
         \o Calls(2, 10, <<<<"a", 0, 5, FALSE>>, <<"b", 1, 2, FALSE>>>>)
         \o Calls(3, 20, <<<<"a", 0, 6, FALSE>>, <<"b", 1, 4, FALSE>>>>)

\* A chain of four with a call back, and a span that came twice.
Back == Calls(1, 0, <<<<"a", 0, 8, FALSE>>, <<"b", 1, 7, FALSE>>, <<"c", 2, 6, FALSE>>,
                      <<"d", 3, 5, TRUE>>, <<"b", 3, 1, FALSE>>>>)
        \o Calls(1, 0, <<<<"a", 0, 8, FALSE>>>>)

\* Two traces with the same ids.
SameIds == Calls(1, 0, <<<<"a", 0, 8, FALSE>>, <<"b", 1, 4, TRUE>>>>)
           \o Calls(2, 0, <<<<"c", 0, 7, FALSE>>, <<"d", 1, 6, FALSE>>>>)

\* One service becomes slow and nothing fails.
Slow == Calls(1, 0, <<<<"a", 0, 8, FALSE>>, <<"b", 1, 1, FALSE>>>>)
        \o Calls(2, 10, <<<<"a", 0, 8, FALSE>>, <<"b", 1, 1, FALSE>>>>)
        \o Calls(3, 20, <<<<"a", 0, 8, FALSE>>, <<"b", 1, 8, FALSE>>>>)

With(rows, change(_)) == [i \in DOMAIN rows |-> change(rows[i])]

Anonymous(row) == [row EXCEPT !.id = 0, !.start = 0, !.parent = 0, !.code = "unknown", !.dur = 2]

\* Rows without an id are taken for one if they say the same; with a start time they raise.
NoIds == With(Slow, Anonymous)
Broken == With(Slow, LAMBDA row : [row EXCEPT !.id = 0])

\* One failure among twenty spans of one service, and among 21 of another.
Many ==
    [i \in 1..41 |->
        [trace |-> 1, id |-> i, parent |-> IF i > 20 THEN i - 20 ELSE 0,
         svc |-> IF i <= 20 THEN "a" ELSE "b", start |-> i, dur |-> IF i % 7 = 0 THEN 8 ELSE 2,
         err |-> i \in {20, 41}, code |-> "ok", request |-> i \in {1, 2, 22, 23}]]

MCTraces == [t \in {"chain", "back", "same ids", "slow", "no ids", "broken", "many"} |->
                CASE t = "chain" -> Chain [] t = "back" -> Back [] t = "same ids" -> SameIds
                  [] t = "slow" -> Slow [] t = "no ids" -> NoIds [] t = "broken" -> Broken
                  [] t = "many" -> Many]
MCGiven == <<DOMAIN MCTraces, {"chain", "broken"}>>
MCOrders == {<<"a", "b", "c", "d">>, <<"d", "c", "b", "a">>}
MCDirs == {"dir1", "dir2"}
MCRemedies == {"restart", "scale"} \X {"a", "b", "c", "d"}
MCStrategies == {<<"valid">>, <<"invalid", "valid">>, <<"invalid">>, <<"valid", "malformed">>,
                 <<"valid", "valid", "valid">>}
\* One reply adjusts two services, the other one, and names another.
MCReplies == {[deltas |-> ("b" :> -300000) @@ ("c" :> 400000), override |-> NoPart],
              [deltas |-> "a" :> -400000, override |-> "c"]}
===============================================================================

------------------------------ MODULE MCRequests ------------------------------
EXTENDS Requests

\* Two stored numbers (slots), two modes and the operation of a heater.
MCMembers == [v \in 0 .. 2 |-> IF v = 2 THEN 3 ELSE 2]

Sets(v, members, values) == [vec |-> v, members |-> members, values |-> values]

\* Both numbers, one of them; a mode turned off alone, turned on alone, both
\* modes; a mode that another firmware had; a save and a reload.
MCAsked ==
    {Sets(0, <<1, 2>>, <<1, 2>>), Sets(0, <<1>>, <<0>>),
     Sets(1, <<1>>, <<0>>), Sets(1, <<1>>, <<1>>), Sets(1, <<1, 2>>, <<0, 1>>),
     Sets(1, <<3>>, <<1>>),
     Sets(2, <<Idle, Save>>, <<0, 1>>), Sets(2, <<Reload>>, <<1>>)}
=============================================================================

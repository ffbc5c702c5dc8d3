---------------------------- MODULE MCApiRequests ----------------------------
(***************************************************************************)
(* Instances of a team and of one of its players, and a team whose name    *)
(* has a dash in it.                                                       *)
(***************************************************************************)
EXTENDS ApiRequests

Triple(team, player) == [template |-> <<"web">>, team |-> team, player |-> player]

MCTriples == {Triple(<<"red">>, << >>), Triple(<<"red">>, <<"blue">>),
              Triple(<<"red", "blue">>, << >>), Triple(<< >>, << >>)}

MCAsks == [op : {"create"}, triple : MCTriples]
     \cup [op : {"get", "delete"}, name : {<<"web", "red">>}]
     \cup {[op |-> "list", team |-> << >>, challenge |-> <<"web">>, status |-> "Running"],
           [op |-> "list", team |-> <<"red">>, challenge |-> << >>, status |-> Nil]}

Symmetry == Permutations(Requests)
==============================================================================

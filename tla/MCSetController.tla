--------------------------- MODULE MCSetController ---------------------------
(***************************************************************************)
(* No schedule, an event of two ticks, a later one that is still open when *)
(* the clock stops, one that ends before it starts, and schedules that     *)
(* cannot be parsed.                                                       *)
(***************************************************************************)
EXTENDS SetController

At(s, e) == [startAt |-> s, endAt |-> e]

MCSchedules == {Nil, At(1, 3), At(3, 9), At(3, 2), At(BadTime, 1), At(1, BadTime)}
===============================================================================

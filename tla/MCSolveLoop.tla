---------------------------- MODULE MCSolveLoop ----------------------------
(***************************************************************************)
(* Problems for SolveLoop: three points, a descent of two levels or a      *)
(* trial that is not a number beside two points of one level, and a flight *)
(* that is clean, rough, condemned, short of cruise, or through the ground *)
(* or a box.                                                               *)
(***************************************************************************)
EXTENDS SolveLoop

McPoints == 1..3

Flight(samples) == [samples |-> samples, terrain |-> 1, box |-> 1]

Clean == Flight(<<"inactive", "stalled", "within">>)
Rough == Flight(<<"within", "beyond", "within", "invalid", "within">>)
Edge == Flight(<<"stalled", "within", "within", "within", "stalled",
                 "within", "within", "beyond">>)
Condemned == Flight(<<"inactive", "within", "inactive">>)
Grounded == Flight(<<"inactive", "invalid">>)
Sunk == [Clean EXCEPT !.terrain = -1]
Boxed == [Clean EXCEPT !.box = -1]

Problem(cost, still, a, b, c) ==
  [cost |-> cost, still |-> still, flight |-> <<a, b, c>>]

McObjectives ==
  {Problem(<<2, 1, 0>>, {3}, Grounded, Edge, Clean),
   Problem(<<2, 1, 0>>, {}, Boxed, Clean, Edge),
   Problem(<<1, 1, NotFinite>>, {}, Clean, Sunk, Condemned),
   Problem(<<1, 1, 0>>, {}, Edge, Rough, Condemned),
   Problem(<<0, 0, NotFinite>>, {1}, Clean, Clean, Clean)}
=============================================================================

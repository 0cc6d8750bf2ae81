---------------------------- MODULE MCSessionState ----------------------------
(* Instances of SessionState for TLC. *)
EXTENDS SessionState, TLC

(* Daemons, and calls, are interchangeable. *)
Symmetry == Permutations(Daemons) \cup Permutations(Calls)

(* One limit at a time, each of them one unit. *)
OneLimit == {[calls |-> 1, session |-> 0, daily |-> 0],
             [calls |-> 0, session |-> 1, daily |-> 0],
             [calls |-> 0, session |-> 0, daily |-> 1]}

NoLimit == {[calls |-> 0, session |-> 0, daily |-> 0]}
===============================================================================

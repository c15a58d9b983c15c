-------------------------- MODULE MCNotifications --------------------------
(* Two endpoints that list one event of the three.                         *)
EXTENDS Notifications, TLC

CONSTANTS e1, e2, n1, x, y
MCSubscribed == [e \in Events |-> IF e = e1 THEN {x, y} ELSE {}]
MCSymmetry == Permutations(Processes) \cup Permutations(Calls)
                \cup Permutations(Endpoints)
=============================================================================

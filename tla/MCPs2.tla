------------------------------- MODULE MCPs2 -------------------------------
(* A mouse on a screen of three by two *)
EXTENDS Ps2

M(x, y, b) == [dx |-> x, dy |-> y, buttons |-> b]
SomeMoves == {M(2, -1, 0), M(-1, 1, 1)}
=============================================================================

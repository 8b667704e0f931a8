--------------------------- MODULE MCHallHoming -----------------------------
(* An instance of HallHoming: a field of four steps on a circle of nine. *)
EXTENDS HallHoming

Both == {-3, 0, 2}
NotSure == {TRUE, FALSE}
=============================================================================

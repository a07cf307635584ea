--------------------------- MODULE MCCoordinates ---------------------------
(***************************************************************************)
(* Values for the model checking of Coordinates.                           *)
(***************************************************************************)
EXTENDS Coordinates

\* Between two values that the file keeps.
OddValues == {-1, 1}

=============================================================================

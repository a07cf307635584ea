------------------------------ MODULE MCProgram ------------------------------
(***************************************************************************)
(* Values for the model checking of RS274Interpreter.                      *)
(***************************************************************************)
EXTENDS RS274Interpreter

\* A system that exists, one that does not and one that is out of range.
ProgramIndexes == {-1, 54, 60}

\* Bound: programs that build a group do not use the commands that neither
\* move nor set anything a move carries.
PlainTypes == {"EleparamSetCommand", "DelayCommand", "CoordSetZeroCommand",
          "DrillMotionCommand", "PauseCommand"}

GroupsAlone == points.list = <<>> \/ \A i \in DOMAIN list : list[i].type \notin PlainTypes

=============================================================================

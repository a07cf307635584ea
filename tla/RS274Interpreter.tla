--------------------------- MODULE RS274Interpreter ---------------------------
(***************************************************************************)
(* The interpreter of G-code programs (rs274.py) and what becomes of its   *)
(* command list: the conversion to tasks (GCodeTaskConverter) and the      *)
(* check before the start (_check_gcode_list_at_first).                    *)
(*                                                                         *)
(* A program is Python code that calls the methods of one interpreter and  *)
(* of a Points object in any order, so every method is an action.  A call  *)
(* with an argument outside its range raises, which ends the program.  The *)
(* line numbers, the text of the line and the coordinates are left out.    *)
(***************************************************************************)
EXTENDS Integers, Sequences

CONSTANTS Indexes,      \* coordinate systems a program names, -1 is invalid
          Known,        \* those of them that exist
          Feeds,        \* feed speeds a program names, valid or not
          Calls,        \* the methods the program uses
          MaxCommands,  \* bound: length of the command list
          MaxPoints     \* bound: points of the Points object

ASSUME InterpreterAssumption ==
    /\ Indexes \subseteq Int /\ Known \subseteq Nat /\ Feeds \subseteq Int
    /\ MaxCommands \in Nat /\ MaxPoints \in Nat

VARIABLES env,     \* Environment
          list,    \* __g_command_list
          points,  \* the Points object of the program
          status,  \* how far the program has come
          tasks    \* gcode_list_ of the runner

ivars == <<env, list, points, status, tasks>>

CoordinateMode == {"Undefined", "AbsoluteMode", "IncrementMode"}
MotionMode     == {"Undefined", "G00", "G01"}

CommandType ==
    {"G00MotionCommand", "G01MotionCommand", "CoordinateModeCommand",
     "CoordinateIndexCommand", "EleparamSetCommand", "FeedSpeedSetCommand",
     "DelayCommand", "CoordSetZeroCommand", "DrillMotionCommand",
     "G01GroupMotionCommand", "PauseCommand", "ProgramEndCommand"}

Point == [mode : CoordinateMode, feed : Int]

\* A key that a command does not have is "Undefined", -1, FALSE or empty.
Command == [type : CommandType, mode : CoordinateMode, index : Int, feed : Int,
            m05 : BOOLEAN, touch : BOOLEAN, points : Seq(Point)]

\* What the interpreter's own state is made of.
ListTyped ==
    /\ env \in [mode : CoordinateMode, motion : MotionMode, index : Int,
                feed : Int, ended : BOOLEAN]
    /\ list \in Seq(Command)
    /\ points \in [mode : CoordinateMode, feed : Int, list : Seq(Point)]

IInit ==
    /\ env = [mode |-> "Undefined", motion |-> "Undefined", index |-> -1,
              feed |-> -1, ended |-> FALSE]
    /\ list = <<>>
    /\ points = [mode |-> "Undefined", feed |-> 1, list |-> <<>>]
    /\ status = "running"
    /\ tasks = <<>>

----------------------------------------------------------------------------
(* The methods of RS274Interpreter.                                        *)

Plain(type) == [type |-> type, mode |-> "Undefined", index |-> -1, feed |-> -1,
                m05 |-> FALSE, touch |-> FALSE, points |-> <<>>]

\* _assert_environment_valid; the callers have just set the motion mode.
EnvironmentValid == env.mode # "Undefined" /\ env.index >= 0 /\ env.feed >= 0

\* A method m is called; after m02 every method returns at once.
Called(m) == status = "running" /\ m \in Calls

AfterEnd(m) == Called(m) /\ env.ended /\ UNCHANGED ivars

\* The call goes through and appends command c.
Emits(m, c) ==
    /\ Called(m) /\ ~env.ended /\ Len(list) < MaxCommands
    /\ list' = Append(list, c)
    /\ UNCHANGED <<points, status, tasks>>

\* The call raises InterpreterException.
Raises(m) ==
    /\ Called(m) /\ ~env.ended
    /\ status' = "raised"
    /\ UNCHANGED <<list, points, tasks>>

g90 ==
    /\ Emits("g90", [Plain("CoordinateModeCommand") EXCEPT !.mode = "AbsoluteMode"])
    /\ env' = [env EXCEPT !.mode = "AbsoluteMode"]

\* Mutant: the mode is put into the list only.
g91_EnvNotSet ==
    /\ Emits("g91", [Plain("CoordinateModeCommand") EXCEPT !.mode = "IncrementMode"])
    /\ UNCHANGED env

g91 ==
    /\ Emits("g91", [Plain("CoordinateModeCommand") EXCEPT !.mode = "IncrementMode"])
    /\ env' = [env EXCEPT !.mode = "IncrementMode"]

\* A delay, an electric parameter: the argument may be out of range.
g04 ==
    \/ Emits("g04", Plain("DelayCommand")) /\ UNCHANGED env
    \/ Raises("g04") /\ UNCHANGED env

e ==
    \/ Emits("e", Plain("EleparamSetCommand")) /\ UNCHANGED env
    \/ Raises("e") /\ UNCHANGED env

set_coord(i) ==
    \/ /\ i >= 0
       /\ Emits("set_coord", [Plain("CoordinateIndexCommand") EXCEPT !.index = i])
       /\ env' = [env EXCEPT !.index = i]
    \/ i < 0 /\ Raises("set_coord") /\ UNCHANGED env

coord_set_zero ==
    \/ Emits("coord_set_zero", Plain("CoordSetZeroCommand")) /\ UNCHANGED env
    \/ Raises("coord_set_zero") /\ UNCHANGED env

\* Mutant: the end of the program is not noted.
m02_NoFlag == Emits("m02", Plain("ProgramEndCommand")) /\ UNCHANGED env

m02 ==
    /\ Emits("m02", Plain("ProgramEndCommand"))
    /\ env' = [env EXCEPT !.ended = TRUE]

m00 == Emits("m00", Plain("PauseCommand")) /\ UNCHANGED env

\* The motion mode is set before the environment is checked; a coordinate of
\* a wrong type raises after the check.
g01 ==
    /\ env' = [env EXCEPT !.motion = "G01"]
    /\ \/ /\ EnvironmentValid
          /\ Emits("g01", [Plain("G01MotionCommand")
                             EXCEPT !.mode = env.mode, !.index = env.index])
       \/ Raises("g01")

\* A touch move needs the detection whatever m05 says.
g00(m05, touch) ==
    /\ env' = [env EXCEPT !.motion = "G00"]
    /\ \/ /\ EnvironmentValid
          /\ Emits("g00", [Plain("G00MotionCommand")
                             EXCEPT !.mode = env.mode, !.index = env.index,
                                    !.feed = env.feed,
                                    !.m05 = m05 /\ ~touch, !.touch = touch])
       \/ Raises("g00")

g01_group ==
    /\ env' = [env EXCEPT !.motion = "G01"]
    /\ \/ /\ EnvironmentValid
          /\ Emits("g01_group", [Plain("G01GroupMotionCommand")
                                   EXCEPT !.index = env.index, !.points = points.list])
       \/ Raises("g01_group")

f(speed) ==
    \/ /\ speed > 0
       /\ Emits("f", [Plain("FeedSpeedSetCommand") EXCEPT !.feed = speed])
       /\ env' = [env EXCEPT !.feed = speed]
    \/ speed <= 0 /\ Raises("f") /\ UNCHANGED env

\* The only motion command that does not look at the environment.
drill ==
    \/ Emits("drill", Plain("DrillMotionCommand")) /\ UNCHANGED env
    \/ Raises("drill") /\ UNCHANGED env

----------------------------------------------------------------------------
(* The methods of Points, which keeps a mode and a feed rate of its own.   *)

points_mode(m, mode) ==
    /\ Called(m)
    /\ points' = [points EXCEPT !.mode = mode]
    /\ UNCHANGED <<env, list, status, tasks>>

points_raises(m) ==
    /\ Called(m)
    /\ status' = "raised"
    /\ UNCHANGED <<env, list, points, tasks>>

points_f(speed) ==
    \/ /\ speed > 0 /\ Called("points_f")
       /\ points' = [points EXCEPT !.feed = speed]
       /\ UNCHANGED <<env, list, status, tasks>>
    \/ speed <= 0 /\ points_raises("points_f")

\* A feed rate given with the point is taken as it is.
push(rate) ==
    \/ /\ points.mode # "Undefined"
       /\ Called("push") /\ Len(points.list) < MaxPoints
       /\ points' = [points EXCEPT !.list = Append(@, [mode |-> points.mode, feed |-> rate])]
       /\ UNCHANGED <<env, list, status, tasks>>
    \/ points_raises("push")

----------------------------------------------------------------------------
(* From the list to the runner.                                            *)

\* The file has been executed and the interpreter of the program is found.
Parsed ==
    /\ status = "running" /\ status' = "parsed"
    /\ UNCHANGED <<env, list, points, tasks>>

\* MakeGCodeTaskListFromJson: a command whose task this build does not have
\* is left out, the others keep their order.
Supported(c) == c.type # "DrillMotionCommand"

gcode_task_list ==
    LET made[k \in 0..Len(list)] ==
          IF k = 0 THEN <<>>
          ELSE IF Supported(list[k]) THEN Append(made[k - 1], list[k]) ELSE made[k - 1]
    IN  made[Len(list)]

MakeGCodeTaskList ==
    /\ status = "parsed"
    /\ status' = IF list = <<>> THEN "refused" ELSE "converted"
    /\ tasks' = IF list = <<>> THEN <<>> ELSE gcode_task_list
    /\ UNCHANGED <<env, list, points>>

\* Mutant: only the last task is looked at.
check_gcode_list_at_first_LastOnly ==
    /\ status = "converted"
    /\ tasks # <<>>
    /\ status' = IF tasks[Len(tasks)].type = "ProgramEndCommand"
                 THEN "started" ELSE "rejected"
    /\ UNCHANGED <<env, list, points, tasks>>

\* An electric parameter may be unknown.  The last task is read unchecked: of
\* an empty list it is whatever lies there.
check_gcode_list_at_first ==
    /\ status = "converted"
    /\ \/ /\ status' = "rejected"
          /\ \/ tasks = <<>>
             \/ tasks # <<>> /\ tasks[Len(tasks)].type # "ProgramEndCommand"
             \/ \E i \in DOMAIN tasks :
                  \/ tasks[i].type = "EleparamSetCommand"
                  \/ tasks[i].type = "CoordinateIndexCommand" /\ tasks[i].index \notin Known
       \/ /\ status' = "started"
          /\ \A i \in DOMAIN tasks :
               tasks[i].type = "CoordinateIndexCommand" => tasks[i].index \in Known
          /\ tasks # <<>> => tasks[Len(tasks)].type = "ProgramEndCommand"
    /\ UNCHANGED <<env, list, points, tasks>>

----------------------------------------------------------------------------
Method ==
    \/ g90 \/ g91 \/ g04 \/ e \/ coord_set_zero \/ m02 \/ m00
    \/ \E i \in Indexes : set_coord(i)
    \/ g01 \/ g01_group \/ drill
    \/ \E m05, touch \in BOOLEAN : g00(m05, touch)
    \/ \E speed \in Feeds : f(speed)
    \/ \E m \in Calls \ {"points_g90", "points_g91", "points_f", "push"} : AfterEnd(m)

PointsMethod ==
    \/ points_mode("points_g90", "AbsoluteMode")
    \/ points_mode("points_g91", "IncrementMode")
    \/ \E speed \in Feeds : points_f(speed)
    \/ \E rate \in Feeds \cup {points.feed} : push(rate)

INext ==
    \/ Method \/ PointsMethod
    \/ Parsed \/ MakeGCodeTaskList \/ check_gcode_list_at_first

ISpec == IInit /\ [][INext]_ivars

----------------------------------------------------------------------------
\* Command j is the last of its type before position i.
Latest(i, type, j) ==
    /\ j \in 1..(i - 1) /\ list[j].type = type
    /\ \A k \in (j + 1)..(i - 1) : list[k].type # type

Moves == {"G00MotionCommand", "G01MotionCommand", "G01GroupMotionCommand"}

\* The settings a motion command carries are those a reader of the list finds
\* before it: the coordinate system the interface has switched to by then,
\* the mode and the feed speed (_assert_environment_valid and the environment
\* that the setting methods keep).  The tasks of g90, g91 and f do nothing, so
\* the motion commands must carry them.
ModalSettings ==
    \A i \in DOMAIN list :
      /\ list[i].type \in Moves =>
           \E j \in 1..(i - 1) : /\ Latest(i, "CoordinateIndexCommand", j)
                                /\ list[j].index = list[i].index
      /\ list[i].type \in {"G00MotionCommand", "G01MotionCommand"} =>
           \E j \in 1..(i - 1) : /\ Latest(i, "CoordinateModeCommand", j)
                                /\ list[j].mode = list[i].mode
      /\ list[i].type = "G00MotionCommand" =>
           \E j \in 1..(i - 1) : /\ Latest(i, "FeedSpeedSetCommand", j)
                                /\ list[j].feed = list[i].feed

\* A program that is started ends with its only M02, however many methods are
\* called after it (is_program_end, the drop of unsupported commands and
\* _check_gcode_list_at_first together).
EndsOnce ==
    status = "started" /\ tasks # <<>> =>
      \A i \in DOMAIN tasks : tasks[i].type = "ProgramEndCommand" <=> i = Len(tasks)

\* Every move of a started program names a coordinate system that exists: the
\* check looks at the commands that switch systems only, never at the moves.
MovesInKnownSystems ==
    status = "started" =>
      \A i \in DOMAIN tasks : tasks[i].type \in Moves => tasks[i].index \in Known

=============================================================================

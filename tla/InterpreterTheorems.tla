------------------------- MODULE InterpreterTheorems -------------------------
(***************************************************************************)
(* Every motion command carries the settings in force where it stands, for *)
(* programs of any length.  The invariant that is carried: the environment *)
(* holds what the latest setting commands of the list set.                 *)
(*                                                                         *)
(* Then what the conversion to tasks and the check before the start make   *)
(* of such a list: a program that is started ends once, and its moves are  *)
(* in systems that exist.                                                  *)
(***************************************************************************)
EXTENDS RS274Interpreter, LoopTheorems

\* A setting that the environment has is the latest one of the list.
EnvironmentCurrent ==
    /\ env.index >= 0 =>
         \E j \in 1..Len(list) : /\ Latest(Len(list) + 1, "CoordinateIndexCommand", j)
                                 /\ list[j].index = env.index
    /\ env.mode # "Undefined" =>
         \E j \in 1..Len(list) : /\ Latest(Len(list) + 1, "CoordinateModeCommand", j)
                                 /\ list[j].mode = env.mode
    /\ env.feed >= 0 =>
         \E j \in 1..Len(list) : /\ Latest(Len(list) + 1, "FeedSpeedSetCommand", j)
                                 /\ list[j].feed = env.feed

IndInv == ListTyped /\ EnvironmentCurrent /\ ModalSettings

----------------------------------------------------------------------------
\* What an appended command leaves as it was.
LEMMA AppendFacts ==
    ASSUME list \in Seq(Command), NEW c \in Command, list' = Append(list, c)
    PROVE  /\ list' \in Seq(Command)
           /\ Len(list') = Len(list) + 1
           /\ list'[Len(list) + 1] = c
           /\ \A i \in 1..Len(list) : list'[i] = list[i]
           /\ DOMAIN list' = 1..(Len(list) + 1)
           /\ DOMAIN list = 1..Len(list)
           /\ Len(list) \in Nat
  OBVIOUS

\* The latest command of a type before a position stays the latest.
LEMMA LatestKept ==
    ASSUME list \in Seq(Command), NEW c \in Command, list' = Append(list, c),
           NEW i \in 1..(Len(list) + 1), NEW type, NEW j, Latest(i, type, j)
    PROVE  Latest(i, type, j)' /\ list'[j] = list[j]
  <1>1. j \in 1..(i - 1) /\ j \in 1..Len(list)
    BY AppendFacts DEF Latest
  <1>2. \A k \in 1..(i - 1) : list'[k] = list[k]
    BY AppendFacts
  <1>3. \A k \in (j + 1)..(i - 1) : k \in 1..(i - 1)
    BY <1>1
  <1> QED BY <1>1, <1>2, <1>3 DEF Latest

\* ... and is still the latest past a command of another type.
LEMMA LatestPassed ==
    ASSUME list \in Seq(Command), NEW c \in Command, list' = Append(list, c),
           NEW n \in Nat, n = Len(list),
           NEW type, c.type # type, NEW j, Latest(n + 1, type, j)
    PROVE  Latest(n + 2, type, j)' /\ list'[j] = list[j]
  <1>1. /\ j \in 1..n /\ list[j].type = type
        /\ \A k \in (j + 1)..n : list[k].type # type
    BY AppendFacts DEF Latest
  <1>2. \A k \in (j + 1)..(n + 1) : list'[k].type # type
    BY <1>1, AppendFacts
  <1> QED BY <1>1, <1>2, AppendFacts DEF Latest

\* A command is the latest of its type right after itself.
LEMMA LatestNew ==
    ASSUME list \in Seq(Command), NEW c \in Command, list' = Append(list, c),
           NEW n \in Nat, n = Len(list)
    PROVE  Latest(n + 2, c.type, n + 1)'
  BY AppendFacts DEF Latest

----------------------------------------------------------------------------
\* A command that carries the environment's settings and changes them only by
\* what it says itself preserves the invariant.
LEMMA EmitKeeps ==
    ASSUME IndInv, NEW c \in Command, list' = Append(list, c), points' = points,
           env' \in [mode : CoordinateMode, motion : MotionMode, index : Int,
                     feed : Int, ended : BOOLEAN],
           c.type \in Moves => env.index >= 0 /\ c.index = env.index,
           c.type \in {"G00MotionCommand", "G01MotionCommand"} =>
             env.mode # "Undefined" /\ c.mode = env.mode,
           c.type = "G00MotionCommand" => env.feed >= 0 /\ c.feed = env.feed,
           IF c.type = "CoordinateIndexCommand" THEN env'.index = c.index
                                                ELSE env'.index = env.index,
           IF c.type = "CoordinateModeCommand" THEN env'.mode = c.mode
                                               ELSE env'.mode = env.mode,
           IF c.type = "FeedSpeedSetCommand" THEN env'.feed = c.feed
                                             ELSE env'.feed = env.feed
    PROVE  IndInv'
  <1>a. list \in Seq(Command) /\ Len(list) \in Nat
    BY DEF IndInv, ListTyped
  <1>b. PICK n \in Nat : n = Len(list)
    BY <1>a
  <1>0. list \in Seq(Command) /\ n \in Nat /\ n = Len(list) /\ n + 1 \in 1..(n + 1)
    BY <1>a, <1>b
  <1>1. ListTyped'
    BY <1>0, AppendFacts DEF IndInv, ListTyped
  <1>2. ASSUME env'.index >= 0
        PROVE  \E j \in 1..(n + 1) : /\ Latest(n + 2, "CoordinateIndexCommand", j)'
                                     /\ list'[j].index = env'.index
    <2>1. CASE c.type = "CoordinateIndexCommand"
      BY <1>0, <2>1, LatestNew, AppendFacts
    <2>2. CASE c.type # "CoordinateIndexCommand"
      <3>1. PICK j \in 1..n : Latest(n + 1, "CoordinateIndexCommand", j)
                              /\ list[j].index = env.index
        BY <1>0, <1>2, <2>2 DEF IndInv, EnvironmentCurrent
      <3>2. Latest(n + 2, "CoordinateIndexCommand", j)' /\ list'[j] = list[j]
        BY <1>0, <2>2, <3>1, LatestPassed
      <3> QED BY <1>0, <2>2, <3>1, <3>2
    <2> QED BY <2>1, <2>2
  <1>3. ASSUME env'.mode # "Undefined"
        PROVE  \E j \in 1..(n + 1) : /\ Latest(n + 2, "CoordinateModeCommand", j)'
                                     /\ list'[j].mode = env'.mode
    <2>1. CASE c.type = "CoordinateModeCommand"
      BY <1>0, <2>1, LatestNew, AppendFacts
    <2>2. CASE c.type # "CoordinateModeCommand"
      <3>1. PICK j \in 1..n : Latest(n + 1, "CoordinateModeCommand", j)
                              /\ list[j].mode = env.mode
        BY <1>0, <1>3, <2>2 DEF IndInv, EnvironmentCurrent
      <3>2. Latest(n + 2, "CoordinateModeCommand", j)' /\ list'[j] = list[j]
        BY <1>0, <2>2, <3>1, LatestPassed
      <3> QED BY <1>0, <2>2, <3>1, <3>2
    <2> QED BY <2>1, <2>2
  <1>4. ASSUME env'.feed >= 0
        PROVE  \E j \in 1..(n + 1) : /\ Latest(n + 2, "FeedSpeedSetCommand", j)'
                                     /\ list'[j].feed = env'.feed
    <2>1. CASE c.type = "FeedSpeedSetCommand"
      BY <1>0, <2>1, LatestNew, AppendFacts
    <2>2. CASE c.type # "FeedSpeedSetCommand"
      <3>1. PICK j \in 1..n : Latest(n + 1, "FeedSpeedSetCommand", j)
                              /\ list[j].feed = env.feed
        BY <1>0, <1>4, <2>2 DEF IndInv, EnvironmentCurrent
      <3>2. Latest(n + 2, "FeedSpeedSetCommand", j)' /\ list'[j] = list[j]
        BY <1>0, <2>2, <3>1, LatestPassed
      <3> QED BY <1>0, <2>2, <3>1, <3>2
    <2> QED BY <2>1, <2>2
  <1>5. EnvironmentCurrent'
    <2>1. Len(list)' = n + 1 /\ Len(list)' + 1 = n + 2
      BY <1>0, AppendFacts
    <2> QED BY <2>1, <1>2, <1>3, <1>4 DEF EnvironmentCurrent
  <1>6. ModalSettings'
    <2> SUFFICES ASSUME NEW i \in 1..(n + 1)
                 PROVE  /\ list'[i].type \in Moves =>
                             \E j \in 1..(i - 1) :
                               /\ Latest(i, "CoordinateIndexCommand", j)'
                               /\ list'[j].index = list'[i].index
                        /\ list'[i].type \in {"G00MotionCommand", "G01MotionCommand"} =>
                             \E j \in 1..(i - 1) :
                               /\ Latest(i, "CoordinateModeCommand", j)'
                               /\ list'[j].mode = list'[i].mode
                        /\ list'[i].type = "G00MotionCommand" =>
                             \E j \in 1..(i - 1) :
                               /\ Latest(i, "FeedSpeedSetCommand", j)'
                               /\ list'[j].feed = list'[i].feed
      BY <1>0, AppendFacts DEF ModalSettings
    <2>1. \A type, j : Latest(i, type, j) => Latest(i, type, j)' /\ list'[j] = list[j]
      BY <1>0, LatestKept
    <2>2. CASE i \in 1..n
      <3>1. list'[i] = list[i] /\ i \in DOMAIN list
        BY <1>0, <2>2, AppendFacts
      <3> QED BY <2>1, <3>1 DEF IndInv, ModalSettings
    <2>3. CASE i = n + 1
      <3>1. list'[i] = c /\ 1..(i - 1) = 1..n
        BY <1>0, <2>3, AppendFacts
      <3> QED BY <1>0, <2>1, <2>3, <3>1 DEF IndInv, EnvironmentCurrent
    <2> QED BY <1>0, <2>2, <2>3
  <1> QED BY <1>1, <1>5, <1>6 DEF IndInv

----------------------------------------------------------------------------
\* A call that appends nothing.
LEMMA QuietKeeps ==
    ASSUME IndInv, list' = list,
           env' \in [mode : CoordinateMode, motion : MotionMode, index : Int,
                     feed : Int, ended : BOOLEAN],
           env'.index = env.index, env'.mode = env.mode, env'.feed = env.feed,
           points' \in [mode : CoordinateMode, feed : Int, list : Seq(Point)]
    PROVE  IndInv'
  <1>1. ListTyped'
    BY DEF IndInv, ListTyped
  <1>2. EnvironmentCurrent'
    BY DEF IndInv, EnvironmentCurrent, Latest
  <1>3. ModalSettings'
    BY DEF IndInv, ModalSettings, Latest
  <1> QED BY <1>1, <1>2, <1>3 DEF IndInv

\* A new interpreter satisfies the invariant.
LEMMA Initially == IInit => IndInv
  <1> SUFFICES ASSUME IInit PROVE IndInv OBVIOUS
  <1>1. ListTyped
    BY DEF IInit, ListTyped, CoordinateMode, MotionMode
  <1>2. EnvironmentCurrent
    BY DEF IInit, EnvironmentCurrent
  <1>3. ModalSettings
    BY DEF IInit, ModalSettings
  <1> QED BY <1>1, <1>2, <1>3 DEF IndInv

\* A command without settings is a command.
LEMMA PlainTyped ==
    ASSUME NEW type \in CommandType
    PROVE  Plain(type) \in Command /\ Plain(type).type = type
  BY DEF Plain, Command, CoordinateMode, Point

\* The commands without settings of their own.
LEMMA PlainKeeps ==
    ASSUME IndInv, NEW m, NEW type \in CommandType,
           type \notin Moves \cup {"CoordinateIndexCommand", "CoordinateModeCommand",
                                   "FeedSpeedSetCommand"},
           Emits(m, Plain(type)),
           env' \in [mode : CoordinateMode, motion : MotionMode, index : Int,
                     feed : Int, ended : BOOLEAN],
           env'.index = env.index, env'.mode = env.mode, env'.feed = env.feed
    PROVE  IndInv'
  <1> DEFINE c == Plain(type)
  <1>1. c \in Command /\ c.type = type
    BY PlainTyped
  <1>2. list' = Append(list, c) /\ points' = points
    BY DEF Emits
  <1> HIDE DEF c
  <1> QED BY <1>1, <1>2, EmitKeeps DEF Moves


\* The methods that set one of the settings.
LEMMA SettingKeeps ==
    ASSUME IndInv,
           \/ g90 \/ g91 \/ (\E i \in Indexes : set_coord(i)) \/ (\E speed \in Feeds : f(speed))
    PROVE  IndInv'
  <1>0. ListTyped
    BY DEF IndInv
  <1>1. ASSUME g90 PROVE IndInv'
    <2> DEFINE c == [Plain("CoordinateModeCommand") EXCEPT !.mode = "AbsoluteMode"]
    <2>1. c \in Command /\ c.type = "CoordinateModeCommand" /\ c.mode = "AbsoluteMode"
      BY PlainTyped DEF Command, CommandType, CoordinateMode
    <2>2. /\ list' = Append(list, c) /\ points' = points
          /\ env' = [env EXCEPT !.mode = "AbsoluteMode"]
      BY <1>1 DEF g90, Emits
    <2> HIDE DEF c
    <2> QED BY <1>0, <2>1, <2>2, EmitKeeps DEF Moves, ListTyped, CoordinateMode
  <1>2. ASSUME g91 PROVE IndInv'
    <2> DEFINE c == [Plain("CoordinateModeCommand") EXCEPT !.mode = "IncrementMode"]
    <2>1. c \in Command /\ c.type = "CoordinateModeCommand" /\ c.mode = "IncrementMode"
      BY PlainTyped DEF Command, CommandType, CoordinateMode
    <2>2. /\ list' = Append(list, c) /\ points' = points
          /\ env' = [env EXCEPT !.mode = "IncrementMode"]
      BY <1>2 DEF g91, Emits
    <2> HIDE DEF c
    <2> QED BY <1>0, <2>1, <2>2, EmitKeeps DEF Moves, ListTyped, CoordinateMode
  <1>3. ASSUME NEW i \in Indexes, set_coord(i) PROVE IndInv'
    <2>1. CASE Raises("set_coord") /\ UNCHANGED env
      BY <1>0, <2>1, QuietKeeps DEF Raises, ListTyped
    <2>2. CASE /\ Emits("set_coord", [Plain("CoordinateIndexCommand") EXCEPT !.index = i])
               /\ env' = [env EXCEPT !.index = i]
      <3> DEFINE c == [Plain("CoordinateIndexCommand") EXCEPT !.index = i]
      <3>0. i \in Int
        BY InterpreterAssumption
      <3>1. c \in Command /\ c.type = "CoordinateIndexCommand" /\ c.index = i
        BY <3>0, PlainTyped DEF Command, CommandType
      <3>2. list' = Append(list, c) /\ points' = points
        BY <2>2 DEF Emits
      <3> HIDE DEF c
      <3> QED BY <1>0, <2>2, <3>0, <3>1, <3>2, EmitKeeps DEF Moves, ListTyped
    <2> QED BY <1>3, <2>1, <2>2 DEF set_coord
  <1>4. ASSUME NEW speed \in Feeds, f(speed) PROVE IndInv'
    <2>1. CASE Raises("f") /\ UNCHANGED env
      BY <1>0, <2>1, QuietKeeps DEF Raises, ListTyped
    <2>2. CASE /\ Emits("f", [Plain("FeedSpeedSetCommand") EXCEPT !.feed = speed])
               /\ env' = [env EXCEPT !.feed = speed]
      <3> DEFINE c == [Plain("FeedSpeedSetCommand") EXCEPT !.feed = speed]
      <3>0. speed \in Int
        BY InterpreterAssumption
      <3>1. c \in Command /\ c.type = "FeedSpeedSetCommand" /\ c.feed = speed
        BY <3>0, PlainTyped DEF Command, CommandType
      <3>2. list' = Append(list, c) /\ points' = points
        BY <2>2 DEF Emits
      <3> HIDE DEF c
      <3> QED BY <1>0, <2>2, <3>0, <3>1, <3>2, EmitKeeps DEF Moves, ListTyped
    <2> QED BY <1>4, <2>1, <2>2 DEF f
  <1> QED BY <1>1, <1>2, <1>3, <1>4

\* The methods whose command carries settings.
LEMMA MotionKeeps ==
    ASSUME IndInv,
           g01 \/ g01_group \/ \E m05, touch \in BOOLEAN : g00(m05, touch)
    PROVE  IndInv'
  <1>0. ListTyped
    BY DEF IndInv
  <1>a. ASSUME NEW m, Raises(m), NEW mode \in MotionMode, env' = [env EXCEPT !.motion = mode]
        PROVE  IndInv'
    BY <1>0, <1>a, QuietKeeps DEF Raises, ListTyped
  <1>b. ASSUME NEW m, NEW c \in Command, Emits(m, c), EnvironmentValid,
               NEW mode \in MotionMode, env' = [env EXCEPT !.motion = mode],
               c.type \in Moves, c.index = env.index,
               c.type # "G01GroupMotionCommand" => c.mode = env.mode,
               c.type = "G00MotionCommand" => c.feed = env.feed
        PROVE  IndInv'
    <2>1. list' = Append(list, c) /\ points' = points
      BY <1>b DEF Emits
    <2> QED BY <1>0, <1>b, <2>1, EmitKeeps DEF Moves, EnvironmentValid, ListTyped
  <1>1. ASSUME g01 PROVE IndInv'
    <2> DEFINE c == [Plain("G01MotionCommand")
                       EXCEPT !.mode = env.mode, !.index = env.index]
    <2>1. c \in Command /\ c.type = "G01MotionCommand" /\ c.mode = env.mode
          /\ c.index = env.index
      BY <1>0, PlainTyped DEF ListTyped, Command, CommandType
    <2>2. /\ env' = [env EXCEPT !.motion = "G01"]
          /\ (EnvironmentValid /\ Emits("g01", c)) \/ Raises("g01")
      BY <1>1 DEF g01
    <2> HIDE DEF c
    <2> QED BY <1>a, <1>b, <2>1, <2>2 DEF MotionMode, Moves
  <1>2. ASSUME g01_group PROVE IndInv'
    <2> DEFINE c == [Plain("G01GroupMotionCommand")
                       EXCEPT !.index = env.index, !.points = points.list]
    <2>1. c \in Command /\ c.type = "G01GroupMotionCommand" /\ c.index = env.index
      BY <1>0, PlainTyped DEF ListTyped, Command, CommandType
    <2>2. /\ env' = [env EXCEPT !.motion = "G01"]
          /\ (EnvironmentValid /\ Emits("g01_group", c)) \/ Raises("g01_group")
      BY <1>2 DEF g01_group
    <2> HIDE DEF c
    <2> QED BY <1>a, <1>b, <2>1, <2>2 DEF MotionMode, Moves
  <1>3. ASSUME NEW m05 \in BOOLEAN, NEW touch \in BOOLEAN, g00(m05, touch) PROVE IndInv'
    <2>0. PICK b \in BOOLEAN : b = (m05 /\ ~touch)
      OBVIOUS
    <2> DEFINE c == [Plain("G00MotionCommand")
                       EXCEPT !.mode = env.mode, !.index = env.index, !.feed = env.feed,
                              !.m05 = b, !.touch = touch]
    <2>1. c \in Command /\ c.type = "G00MotionCommand" /\ c.mode = env.mode
          /\ c.index = env.index /\ c.feed = env.feed
      BY <1>0, PlainTyped DEF ListTyped, Command, CommandType
    <2>2. /\ env' = [env EXCEPT !.motion = "G00"]
          /\ (EnvironmentValid /\ Emits("g00", c)) \/ Raises("g00")
      BY <1>3, <2>0 DEF g00
    <2> HIDE DEF c
    <2> QED BY <1>a, <1>b, <2>1, <2>2 DEF MotionMode, Moves
  <1> QED BY <1>1, <1>2, <1>3

\* The other methods of the interpreter.
LEMMA OtherKeeps ==
    ASSUME IndInv,
           \/ g04 \/ e \/ coord_set_zero \/ m02 \/ m00 \/ drill
           \/ \E m \in Calls \ {"points_g90", "points_g91", "points_f", "push"} : AfterEnd(m)
    PROVE  IndInv'
  <1>0. ListTyped
    BY DEF IndInv
  <1>a. ASSUME NEW m, Raises(m), UNCHANGED env PROVE IndInv'
    BY <1>0, <1>a, QuietKeeps DEF Raises, ListTyped
  <1>b. ASSUME NEW m, UNCHANGED env,
               NEW type \in {"DelayCommand", "EleparamSetCommand", "CoordSetZeroCommand",
                             "PauseCommand", "DrillMotionCommand"}, Emits(m, Plain(type))
        PROVE  IndInv'
    BY <1>0, <1>b, PlainKeeps DEF ListTyped, CommandType, Moves
  <1>1. ASSUME m02 PROVE IndInv'
    <2>1. Emits("m02", Plain("ProgramEndCommand")) /\ env' = [env EXCEPT !.ended = TRUE]
      BY <1>1 DEF m02
    <2> QED BY <1>0, <2>1, PlainKeeps DEF ListTyped, CommandType, Moves
  <1>2. CASE g04
    BY <1>2, <1>a, <1>b DEF g04
  <1>3. CASE e
    BY <1>3, <1>a, <1>b DEF e
  <1>4. CASE coord_set_zero
    BY <1>4, <1>a, <1>b DEF coord_set_zero
  <1>5. CASE m00
    BY <1>5, <1>b DEF m00
  <1>6. CASE drill
    BY <1>6, <1>a, <1>b DEF drill
  <1>7. ASSUME NEW m, AfterEnd(m) PROVE IndInv'
    BY <1>0, <1>7, QuietKeeps DEF AfterEnd, ivars, ListTyped
  <1> QED BY <1>1, <1>2, <1>3, <1>4, <1>5, <1>6, <1>7

\* The methods of Points touch nothing but the Points object.
LEMMA PointsKeep ==
    ASSUME IndInv, PointsMethod
    PROVE  IndInv'
  <1>0. ListTyped
    BY DEF IndInv
  <1>a. ASSUME NEW m, points_raises(m) PROVE IndInv'
    BY <1>0, <1>a, QuietKeeps DEF points_raises, ListTyped
  <1>b. ASSUME NEW m, NEW mode \in CoordinateMode, points_mode(m, mode) PROVE IndInv'
    BY <1>0, <1>b, QuietKeeps DEF points_mode, ListTyped
  <1>1. ASSUME NEW speed \in Feeds, points_f(speed) PROVE IndInv'
    <2>1. speed \in Int
      BY InterpreterAssumption
    <2>2. CASE /\ points' = [points EXCEPT !.feed = speed]
               /\ UNCHANGED <<env, list, status, tasks>>
      BY <1>0, <2>1, <2>2, QuietKeeps DEF ListTyped
    <2> QED BY <1>1, <1>a, <2>2 DEF points_f
  <1>2. ASSUME NEW rate \in Feeds \cup {points.feed}, push(rate) PROVE IndInv'
    <2>1. rate \in Int
      BY <1>0, InterpreterAssumption DEF ListTyped
    <2>2. CASE /\ points' = [points EXCEPT !.list = Append(@, [mode |-> points.mode, feed |-> rate])]
               /\ UNCHANGED <<env, list, status, tasks>>
      <3>1. [mode |-> points.mode, feed |-> rate] \in Point
        BY <1>0, <2>1 DEF ListTyped, Point
      <3>2. Append(points.list, [mode |-> points.mode, feed |-> rate]) \in Seq(Point)
        BY <1>0, <3>1 DEF ListTyped
      <3>3. points' \in [mode : CoordinateMode, feed : Int, list : Seq(Point)]
        BY <1>0, <2>2, <3>2 DEF ListTyped
      <3> QED BY <1>0, <2>2, <3>3, QuietKeeps DEF ListTyped
    <2> QED BY <1>2, <1>a, <2>2 DEF push
  <1> QED BY <1>1, <1>2, <1>b DEF PointsMethod, CoordinateMode

\* Every call and every later step preserves the invariant.
LEMMA StepKeeps == IndInv /\ [INext]_ivars => IndInv'
  <1> SUFFICES ASSUME IndInv, [INext]_ivars PROVE IndInv'
    OBVIOUS
  <1>0. ListTyped
    BY DEF IndInv
  <1>1. CASE Method
    BY <1>1, SettingKeeps, MotionKeeps, OtherKeeps DEF Method
  <1>2. CASE PointsMethod
    BY <1>2, PointsKeep
  <1>3. CASE Parsed \/ MakeGCodeTaskList \/ check_gcode_list_at_first \/ UNCHANGED ivars
    <2>1. env' = env /\ list' = list /\ points' = points
      BY <1>3 DEF Parsed, MakeGCodeTaskList, check_gcode_list_at_first, ivars
    <2> QED BY <1>0, <2>1, QuietKeeps DEF ListTyped
  <1> QED BY <1>1, <1>2, <1>3 DEF INext

----------------------------------------------------------------------------
\* In every program, however long, every motion command of the list carries
\* the coordinate system, the mode and the feed speed of the latest commands
\* before it that set them: the environment of rs274.py and the list it
\* returns never disagree, whatever calls raise or come after m02.
THEOREM SettingsCarried == ISpec => []ModalSettings
  <1>1. IndInv => ModalSettings
    BY DEF IndInv
  <1> QED BY <1>1, Initially, StepKeeps, PTL DEF ISpec


----------------------------------------------------------------------------
(* From the list to the runner.                                            *)

\* What the loop of the converter has made after k commands.
Made(made, n) ==
    /\ made[0] = <<>>
    /\ \A k \in 1..n :
         made[k] = IF Supported(list[k]) THEN Append(made[k - 1], list[k]) ELSE made[k - 1]

\* The loop is well defined ...
LEMMA TaskListMade ==
    ASSUME list \in Seq(Command), NEW n \in Nat, n = Len(list)
    PROVE  \E made \in [0..n -> Seq(Command)] : Made(made, n) /\ gcode_task_list = made[n]
  <1> DEFINE step == [k \in 1..n |-> [s \in Seq(Command) |->
                        IF Supported(list[k]) THEN Append(s, list[k]) ELSE s]]
             G(made) == [k \in 0..Len(list) |->
                           IF k = 0 THEN <<>>
                           ELSE IF Supported(list[k]) THEN Append(made[k - 1], list[k])
                                                      ELSE made[k - 1]]
  <1>1. step \in [1..n -> [Seq(Command) -> Seq(Command)]]
    OBVIOUS
  <1>2. PICK s \in [1..n -> [Seq(Command) -> Seq(Command)]] : s = step
    BY <1>1
  <1>3. <<>> \in Seq(Command)
    OBVIOUS
  <1>4. PICK made \in [0..n -> Seq(Command)] :
          made[0] = <<>> /\ \A k \in 1..n : made[k] = s[k][made[k - 1]]
    <2> DEFINE S == Seq(Command)
    <2>1. s \in Rounds(n, S) /\ <<>> \in S
      BY <1>2, <1>3 DEF Rounds
    <2> HIDE DEF S
    <2>2. PICK made : Follows(made, n, S, <<>>, s)
      BY <2>1, LoopExists
    <2> QED BY <2>2 DEF Follows, S
  <1>5. \A k \in 1..n : made[k] = IF Supported(list[k]) THEN Append(made[k - 1], list[k])
                                                        ELSE made[k - 1]
    <2> TAKE k \in 1..n
    <2>1. made[k - 1] \in Seq(Command)
      OBVIOUS
    <2> QED BY <1>2, <1>4, <2>1
  <1>6. made = G(made)
    <2>1. \A k \in 0..n : made[k] = IF k = 0 THEN <<>>
                                    ELSE IF Supported(list[k]) THEN Append(made[k - 1], list[k])
                                                               ELSE made[k - 1]
      <3> TAKE k \in 0..n
      <3>1. k = 0 \/ k \in 1..n
        OBVIOUS
      <3> QED BY <1>4, <1>5, <3>1
    <2> QED BY <2>1
  <1>7. PICK h : h = G(h) /\ gcode_task_list = h[Len(list)]
    BY <1>6 DEF gcode_task_list
  <1>8. \A k \in 0..n : h[k] = IF k = 0 THEN <<>>
                               ELSE IF Supported(list[k]) THEN Append(h[k - 1], list[k])
                                                          ELSE h[k - 1]
    BY <1>7
  <1>9. \A k \in 0..n : h[k] = made[k]
    <2>1. Alike(h, made, n)
      BY <1>4, <1>5, <1>8 DEF Alike
    <2> QED BY <2>1, LoopSame
  <1>10. gcode_task_list = made[n]
    <2>1. n \in 0..n /\ h[n] = made[n]
      BY <1>9
    <2> QED BY <1>7, <2>1
  <1> QED BY <1>4, <1>5, <1>10 DEF Made

\* ... and its result holds the supported commands of the list and nothing
\* else.  If only the last command of the list ends the program, only the
\* last task does.
LEMMA TaskListFacts ==
    ASSUME list \in Seq(Command), NEW t, t = gcode_task_list
    PROVE  /\ t \in Seq(Command)
           /\ \A i \in 1..Len(t) : \E j \in 1..Len(list) : t[i] = list[j]
           /\ \A j \in 1..Len(list) :
                Supported(list[j]) => \E i \in 1..Len(t) : t[i] = list[j]
           /\ (\A j \in 1..Len(list) :
                  list[j].type = "ProgramEndCommand" => j = Len(list))
              => \A i \in 1..Len(t) : t[i].type = "ProgramEndCommand" => i = Len(t)
  <1>0. PICK n \in Nat : n = Len(list)
    OBVIOUS
  <1>1. PICK made \in [0..n -> Seq(Command)] : Made(made, n) /\ t = made[n]
    BY <1>0, TaskListMade
  <1> DEFINE From(k) == \A i \in 1..Len(made[k]) : \E j \in 1..k : made[k][i] = list[j]
             All(k)  == \A j \in 1..k :
                          Supported(list[j]) => \E i \in 1..Len(made[k]) : made[k][i] = list[j]
             Good    == {k \in 0..n : From(k) /\ All(k)}
  <1>2. 0 \in Good
    <2>1. made[0] = <<>>
      BY <1>1 DEF Made
    <2> QED BY <2>1
  <1>3. ASSUME NEW k \in 1..n, From(k - 1), All(k - 1) PROVE From(k) /\ All(k)
    <2>1. PICK s \in Seq(Command) : s = made[k - 1]
      OBVIOUS
    <2>2. PICK c \in Command : c = list[k]
      BY <1>0
    <2>3. made[k] = IF Supported(c) THEN Append(s, c) ELSE s
      BY <1>1, <2>1, <2>2 DEF Made
    <2>4. CASE Supported(c)
      <3>1. PICK m \in Nat : m = Len(s)
        OBVIOUS
      <3>2. /\ Len(made[k]) = m + 1 /\ made[k][m + 1] = list[k]
            /\ \A i \in 1..m : made[k][i] = made[k - 1][i]
        BY <2>1, <2>2, <2>3, <2>4, <3>1
      <3>3. From(k)
        <4> SUFFICES ASSUME NEW i \in 1..(m + 1)
                     PROVE  \E j \in 1..k : made[k][i] = list[j]
          BY <3>2
        <4>1. CASE i = m + 1
          BY <3>2, <4>1
        <4>2. CASE i # m + 1
          <5>1. i \in 1..m
            BY <4>2
          <5>2. PICK j \in 1..(k - 1) : made[k - 1][i] = list[j]
            BY <1>3, <2>1, <3>1, <5>1
          <5> QED BY <3>2, <5>1, <5>2
        <4> QED BY <4>1, <4>2
      <3>4. All(k)
        <4> SUFFICES ASSUME NEW j \in 1..k, Supported(list[j])
                     PROVE  \E i \in 1..(m + 1) : made[k][i] = list[j]
          BY <3>2
        <4>1. CASE j = k
          BY <3>1, <3>2, <4>1
        <4>2. CASE j # k
          <5>1. j \in 1..(k - 1)
            BY <4>2
          <5>2. PICK i \in 1..m : made[k - 1][i] = list[j]
            BY <1>3, <2>1, <3>1, <5>1
          <5> QED BY <3>1, <3>2, <5>2
        <4> QED BY <4>1, <4>2
      <3> QED BY <3>3, <3>4
    <2>5. CASE ~Supported(c)
      <3>1. made[k] = made[k - 1]
        BY <2>1, <2>3, <2>5
      <3>2. From(k)
        BY <1>3, <3>1
      <3>3. All(k)
        BY <1>3, <2>2, <2>5, <3>1
      <3> QED BY <3>2, <3>3
    <2> QED BY <2>4, <2>5
  <1>4. \A k \in 1..n : k - 1 \in Good => k \in Good
    <2> HIDE DEF From, All
    <2> QED BY <1>3
  <1>5. \A k \in 0..n : From(k) /\ All(k)
    <2> HIDE DEF From, All
    <2>1. \A k \in 0..n : k \in Good
      <3> HIDE DEF Good
      <3> QED BY <1>2, <1>4, LoopInvariant
    <2> QED BY <2>1
  <1>6. t \in Seq(Command) /\ From(n) /\ All(n)
    <2>1. n \in 0..n
      OBVIOUS
    <2>2. From(n) /\ All(n)
      BY <1>5, <2>1
    <2> QED BY <1>1, <2>1, <2>2
  <1>7. ASSUME \A j \in 1..n : list[j].type = "ProgramEndCommand" => j = n,
               NEW i \in 1..Len(t), t[i].type = "ProgramEndCommand"
        PROVE  i = Len(t)
    <2>1. n \in 1..n /\ list[n].type = "ProgramEndCommand"
      BY <1>1, <1>6, <1>7
    <2>2. PICK s \in Seq(Command) : s = made[n - 1] /\ From(n - 1)
      BY <1>5, <2>1
    <2>3. t = Append(s, list[n]) /\ list[n] \in Command
      <3>1. made[n] = IF Supported(list[n]) THEN Append(made[n - 1], list[n]) ELSE made[n - 1]
        BY <1>1, <2>1 DEF Made
      <3>2. Supported(list[n]) /\ list[n] \in Command
        BY <1>0, <2>1 DEF Supported
      <3> QED BY <1>1, <2>2, <3>1, <3>2
    <2>4. ASSUME i \in 1..Len(s) PROVE FALSE
      <3>1. PICK j \in 1..(n - 1) : t[i] = list[j]
        BY <2>2, <2>3, <2>4
      <3> QED BY <1>7, <2>1, <3>1
    <2> QED BY <2>3, <2>4
  <1> QED BY <1>0, <1>1, <1>6, <1>7

----------------------------------------------------------------------------
\* M02 is the last command of a list and marks the end; what the runner has
\* is the list that was converted, and it was looked at before the start.
EndMarked ==
    \A i \in 1..Len(list) :
      list[i].type = "ProgramEndCommand" => env.ended /\ i = Len(list)

TasksLooked ==
    /\ status \in {"converted", "started"} => tasks = gcode_task_list
    /\ status = "started" =>
         /\ \A i \in DOMAIN tasks :
              tasks[i].type = "CoordinateIndexCommand" => tasks[i].index \in Known
         /\ tasks # <<>> => tasks[Len(tasks)].type = "ProgramEndCommand"

StartInv == IndInv /\ EndMarked /\ TasksLooked

\* A command is appended to a list without an end.
LEMMA EmitEnds ==
    ASSUME StartInv, NEW m, NEW c, Emits(m, c),
           c.type = "ProgramEndCommand" => env'.ended
    PROVE  EndMarked' /\ TasksLooked'
  <1>1. list \in Seq(Command \cup {c}) /\ list' = Append(list, c) /\ ~env.ended
        /\ status = "running" /\ status' = status
    BY DEF StartInv, IndInv, ListTyped, Emits, Called
  <1>2. \A i \in 1..Len(list) : list[i].type # "ProgramEndCommand"
    BY <1>1 DEF StartInv, EndMarked
  <1>3. PICK n \in Nat : n = Len(list)
    BY <1>1
  <1>4. /\ Len(list') = n + 1 /\ list'[n + 1] = c
        /\ \A i \in 1..n : list'[i] = list[i]
    BY <1>1, <1>3
  <1>5. EndMarked'
    <2> SUFFICES ASSUME NEW i \in 1..(n + 1), list'[i].type = "ProgramEndCommand"
                 PROVE  env'.ended /\ i = n + 1
      BY <1>4 DEF EndMarked
    <2>1. ~(i \in 1..n)
      BY <1>2, <1>3, <1>4
    <2>2. i = n + 1
      BY <2>1
    <2> QED BY <1>4, <2>2
  <1> QED BY <1>1, <1>5 DEF TasksLooked

\* A call that raises, or changes the Points object only.
LEMMA QuietEnds ==
    ASSUME StartInv, list' = list, env'.ended = env.ended, status = "running",
           status' \in {"running", "raised", "parsed"}
    PROVE  EndMarked' /\ TasksLooked'
  BY DEF StartInv, EndMarked, TasksLooked

\* Every method.
LEMMA MethodEnds ==
    ASSUME StartInv, Method
    PROVE  EndMarked' /\ TasksLooked'
  <1>0. env \in [mode : CoordinateMode, motion : MotionMode, index : Int,
                 feed : Int, ended : BOOLEAN]
    BY DEF StartInv, IndInv, ListTyped
  <1>a. ASSUME NEW m, Raises(m), env'.ended = env.ended PROVE EndMarked' /\ TasksLooked'
    BY <1>a, QuietEnds DEF Raises, Called
  <1>b. ASSUME NEW m, NEW c, Emits(m, c), c.type # "ProgramEndCommand"
        PROVE  EndMarked' /\ TasksLooked'
    BY <1>b, EmitEnds
  <1>c. \A type : Plain(type).type = type
    BY DEF Plain
  <1>1. CASE g90 \/ g91
    <2>1. [Plain("CoordinateModeCommand") EXCEPT !.mode = "AbsoluteMode"].type # "ProgramEndCommand"
          /\ [Plain("CoordinateModeCommand") EXCEPT !.mode = "IncrementMode"].type
               # "ProgramEndCommand"
      BY DEF Plain
    <2> QED BY <1>1, <1>b, <2>1 DEF g90, g91
  <1>2. CASE g04 \/ e \/ coord_set_zero \/ m00 \/ drill
    <2>1. env' = env
      BY <1>2 DEF g04, e, coord_set_zero, m00, drill
    <2> QED BY <1>2, <1>a, <1>b, <1>c, <2>1 DEF g04, e, coord_set_zero, m00, drill
  <1>3. CASE m02
    <2>1. env'.ended /\ Emits("m02", Plain("ProgramEndCommand"))
      BY <1>0, <1>3 DEF m02
    <2> QED BY <2>1, EmitEnds
  <1>4. ASSUME NEW i \in Indexes, set_coord(i) PROVE EndMarked' /\ TasksLooked'
    <2>1. [Plain("CoordinateIndexCommand") EXCEPT !.index = i].type # "ProgramEndCommand"
      BY DEF Plain
    <2> QED BY <1>4, <1>a, <1>b, <2>1 DEF set_coord
  <1>5. ASSUME NEW speed \in Feeds, f(speed) PROVE EndMarked' /\ TasksLooked'
    <2>1. [Plain("FeedSpeedSetCommand") EXCEPT !.feed = speed].type # "ProgramEndCommand"
      BY DEF Plain
    <2> QED BY <1>5, <1>a, <1>b, <2>1 DEF f
  <1>6. CASE g01
    <2>1. [Plain("G01MotionCommand") EXCEPT !.mode = env.mode, !.index = env.index].type
            # "ProgramEndCommand"
      BY DEF Plain
    <2>2. env'.ended = env.ended
      BY <1>0, <1>6 DEF g01
    <2> QED BY <1>6, <1>a, <1>b, <2>1, <2>2 DEF g01
  <1>7. CASE g01_group
    <2>1. [Plain("G01GroupMotionCommand") EXCEPT !.index = env.index, !.points = points.list].type
            # "ProgramEndCommand"
      BY DEF Plain
    <2>2. env'.ended = env.ended
      BY <1>0, <1>7 DEF g01_group
    <2> QED BY <1>7, <1>a, <1>b, <2>1, <2>2 DEF g01_group
  <1>8. ASSUME NEW m05 \in BOOLEAN, NEW touch \in BOOLEAN, g00(m05, touch)
        PROVE  EndMarked' /\ TasksLooked'
    <2>1. \A c : c = [Plain("G00MotionCommand")
                       EXCEPT !.mode = env.mode, !.index = env.index, !.feed = env.feed,
                              !.m05 = m05 /\ ~touch, !.touch = touch]
               => c.type # "ProgramEndCommand"
      BY DEF Plain
    <2>2. env'.ended = env.ended
      BY <1>0, <1>8 DEF g00
    <2> QED BY <1>8, <1>a, <1>b, <2>1, <2>2 DEF g00
  <1>9. ASSUME NEW m, AfterEnd(m) PROVE EndMarked' /\ TasksLooked'
    BY <1>9, QuietEnds DEF AfterEnd, Called, ivars
  <1> QED BY <1>1, <1>2, <1>3, <1>4, <1>5, <1>6, <1>7, <1>8, <1>9 DEF Method

\* The invariant is inductive.
LEMMA StartInvStep == StartInv /\ [INext]_ivars => StartInv'
  <1> SUFFICES ASSUME StartInv, [INext]_ivars PROVE EndMarked' /\ TasksLooked'
    BY StepKeeps DEF StartInv
  <1>1. CASE Method
    BY <1>1, MethodEnds
  <1>2. CASE PointsMethod \/ Parsed
    <2>1. /\ list' = list /\ env' = env /\ status = "running"
          /\ status' \in {"running", "raised", "parsed"}
      BY <1>2 DEF PointsMethod, Parsed, points_mode, points_f, push, points_raises, Called
    <2> QED BY <2>1, QuietEnds
  <1>3. CASE MakeGCodeTaskList
    <2>1. /\ list' = list /\ env' = env
          /\ \/ status' = "refused"
             \/ status' = "converted" /\ tasks' = gcode_task_list
      BY <1>3 DEF MakeGCodeTaskList
    <2>2. gcode_task_list' = gcode_task_list
      BY <2>1 DEF gcode_task_list
    <2> QED BY <2>1, <2>2 DEF StartInv, EndMarked, TasksLooked
  <1>4. CASE check_gcode_list_at_first
    <2>1. /\ list' = list /\ env' = env /\ tasks' = tasks /\ status = "converted"
          /\ \/ status' = "rejected"
             \/ /\ status' = "started"
                /\ \A i \in DOMAIN tasks :
                     tasks[i].type = "CoordinateIndexCommand" => tasks[i].index \in Known
                /\ tasks # <<>> => tasks[Len(tasks)].type = "ProgramEndCommand"
      BY <1>4 DEF check_gcode_list_at_first
    <2>2. gcode_task_list' = gcode_task_list
      BY <2>1 DEF gcode_task_list
    <2> QED BY <2>1, <2>2 DEF StartInv, EndMarked, TasksLooked
  <1>5. CASE UNCHANGED ivars
    <2>1. list' = list /\ env' = env /\ tasks' = tasks /\ status' = status
      BY <1>5 DEF ivars
    <2>2. gcode_task_list' = gcode_task_list
      BY <2>1 DEF gcode_task_list
    <2> QED BY <2>1, <2>2 DEF StartInv, EndMarked, TasksLooked
  <1> QED BY <1>1, <1>2, <1>3, <1>4, <1>5 DEF INext

LEMMA StartInvHolds == ISpec => []StartInv
  <1>1. IInit => StartInv
    BY Initially DEF IInit, StartInv, EndMarked, TasksLooked
  <1> QED BY <1>1, StartInvStep, PTL DEF ISpec

\* A program that is started ends with its only M02, for programs of any
\* length: no method appends after m02, the converter keeps the order and
\* drops no M02, and the check looks at the last task.
THEOREM EndsExactlyOnce == ISpec => []EndsOnce
  <1>1. StartInv => EndsOnce
    <2> SUFFICES ASSUME StartInv, status = "started", tasks # <<>>
                 PROVE  \A i \in DOMAIN tasks :
                          tasks[i].type = "ProgramEndCommand" <=> i = Len(tasks)
      BY DEF EndsOnce
    <2>1. list \in Seq(Command) /\ tasks = gcode_task_list
      BY DEF StartInv, IndInv, ListTyped, TasksLooked
    <2>2. /\ tasks \in Seq(Command)
          /\ \A i \in 1..Len(tasks) : tasks[i].type = "ProgramEndCommand" => i = Len(tasks)
      BY <2>1, TaskListFacts DEF StartInv, EndMarked
    <2>3. tasks[Len(tasks)].type = "ProgramEndCommand"
      BY DEF StartInv, TasksLooked
    <2> QED BY <2>2, <2>3
  <1> QED BY <1>1, StartInvHolds, PTL

\* Every move of a started program is in a system that exists, although the
\* check looks at the commands that select a system only: a move carries the
\* system of the latest such command, and the converter drops none of these.
THEOREM MovesChecked == ISpec => []MovesInKnownSystems
  <1>1. StartInv => MovesInKnownSystems
    <2> SUFFICES ASSUME StartInv, status = "started",
                        NEW i \in DOMAIN tasks, tasks[i].type \in Moves
                 PROVE  tasks[i].index \in Known
      BY DEF MovesInKnownSystems
    <2>1. list \in Seq(Command) /\ tasks = gcode_task_list
      BY DEF StartInv, IndInv, ListTyped, TasksLooked
    <2>2. /\ tasks \in Seq(Command)
          /\ \A k \in 1..Len(tasks) : \E j \in 1..Len(list) : tasks[k] = list[j]
          /\ \A j \in 1..Len(list) :
               Supported(list[j]) => \E k \in 1..Len(tasks) : tasks[k] = list[j]
      BY <2>1, TaskListFacts
    <2>3. PICK j \in 1..Len(list) : tasks[i] = list[j]
      BY <2>2
    <2>4. PICK h \in 1..(j - 1) :
            Latest(j, "CoordinateIndexCommand", h) /\ list[h].index = list[j].index
      BY <2>1, <2>3 DEF StartInv, IndInv, ModalSettings
    <2>5. h \in 1..Len(list) /\ list[h].type = "CoordinateIndexCommand"
      BY <2>1, <2>4 DEF Latest
    <2>6. PICK k \in 1..Len(tasks) : tasks[k] = list[h]
      BY <2>2, <2>5 DEF Supported
    <2> QED BY <2>2, <2>3, <2>4, <2>5, <2>6 DEF StartInv, TasksLooked
  <1> QED BY <1>1, StartInvHolds, PTL
=============================================================================

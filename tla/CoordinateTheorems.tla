------------------------- MODULE CoordinateTheorems -------------------------
(***************************************************************************)
(* What the panels compute from the cached machine position, and what a     *)
(* restart finds, for any axes, systems, lengths and resolution.  The       *)
(* invariant: types, a fresh cache, and a file that is either in the middle *)
(* of a save or holds the present configuration.                            *)
(***************************************************************************)
EXTENDS Coordinates, LoopTheorems, FiniteSetTheorems, SequenceTheorems

\* The file holds the configuration unless a save is under way or failed.
FileCurrent ==
    /\ file.torn <=> saving
    /\ ~saving /\ saved => file.cm = ToJson(cm)

CoordInv == CoordTypeOK /\ MachineCacheFresh /\ FileCurrent

----------------------------------------------------------------------------
\* A multiple of the resolution is kept as it is.
LEMMA KeptTwice ==
    ASSUME NEW v \in Int
    PROVE  Kept(v) \in Int /\ Kept(Kept(v)) = Kept(v)
  <1>1. Grid \in Nat /\ Grid > 0
    BY CoordinateAssumption
  <1>2. PICK h \in Int : h = Grid \div 2 /\ 0 <= h /\ h < Grid
    BY <1>1
  <1>3. PICK q \in Int : q = (v + h) \div Grid
    BY <1>1
  <1>4. (q * Grid + h) \div Grid = q
    BY <1>1, <1>2
  <1> QED BY <1>1, <1>2, <1>3, <1>4 DEF Kept

\* A configuration read back and saved again is the same.
LEMMA JsonTwice ==
    ASSUME NEW c \in Config
    PROVE  ToJson(c) \in Config /\ ToJson(ToJson(c)) = ToJson(c)
  <1>1. ASSUME NEW p \in Axis
        PROVE  KeptAxis(p) \in Axis /\ KeptAxis(KeptAxis(p)) = KeptAxis(p)
    BY <1>1, KeptTwice DEF Axis, KeptAxis
  <1>2. c.global \in Axis /\ c.pos \in Axis /\ c.neg \in Axis
    BY DEF Config
  <1>3. \E I \in {Indexes, Defaults} : c.offset \in [I -> Axis]
    BY DEF Config
  <1>4. PICK I \in {Indexes, Defaults} : c.offset \in [I -> Axis]
    BY <1>3
  <1> DEFINE o == [i \in DOMAIN c.offset |-> KeptAxis(c.offset[i])]
  <1>5. o \in [I -> Axis] /\ [i \in DOMAIN o |-> KeptAxis(o[i])] = o
    BY <1>1, <1>4
  <1>6. ToJson(c) = [global |-> KeptAxis(c.global), offset |-> o,
                     pos |-> KeptAxis(c.pos), neg |-> KeptAxis(c.neg)]
    BY DEF ToJson
  <1>7. ToJson(ToJson(c)) =
          [global |-> KeptAxis(KeptAxis(c.global)), offset |-> [i \in DOMAIN o |-> KeptAxis(o[i])],
           pos |-> KeptAxis(KeptAxis(c.pos)), neg |-> KeptAxis(KeptAxis(c.neg))]
    BY <1>6 DEF ToJson
  <1> HIDE DEF o
  <1>8. ToJson(ToJson(c)) = ToJson(c)
    BY <1>1, <1>2, <1>5, <1>6, <1>7
  <1>9. ToJson(c) \in Config
    BY <1>1, <1>2, <1>5, <1>6 DEF Config
  <1> QED BY <1>8, <1>9

\* The configuration of a new file has the type.
LEMMA DefaultTyped == DefaultConfig \in Config
  <1>1. Zero \in Axis /\ Far \in Int /\ -Far \in Int
    BY CoordinateAssumption DEF Zero, Axis
  <1>2. [Zero EXCEPT ![FirstAxis] = Far] \in Axis /\ [Zero EXCEPT ![FirstAxis] = -Far] \in Axis
    BY <1>1 DEF Axis
  <1> QED BY <1>1, <1>2 DEF DefaultConfig, Config

\* What the settings use of the types.
LEMMA Typed ==
    ASSUME CoordTypeOK
    PROVE  /\ cm.global \in Axis /\ cm.pos \in Axis /\ cm.neg \in Axis
           /\ sys.motor \in Axis /\ sys.mach \in Axis /\ motor \in Axis
           /\ \A i \in DOMAIN cm.offset : cm.offset[i] \in Axis /\ i \in Indexes \cup Defaults
           /\ \E I \in {Indexes, Defaults} : cm.offset \in [I -> Axis]
  BY DEF CoordTypeOK, Config

----------------------------------------------------------------------------
\* A change of the configuration and its save.
LEMMA SaveKeeps ==
    ASSUME CoordInv, ~saving, cm' \in Config, save_as
    PROVE  FileCurrent' /\ file' \in [torn : BOOLEAN, cm : Config]
           /\ saving' \in BOOLEAN /\ saved' \in BOOLEAN
  <1>0. file \in [torn : BOOLEAN, cm : Config] /\ ~file.torn
    BY DEF CoordInv, CoordTypeOK, FileCurrent
  <1>1. CASE file' = [torn |-> TRUE, cm |-> file.cm] /\ saving' = TRUE /\ saved' = TRUE
    <2>1. file'.torn /\ file' \in [torn : BOOLEAN, cm : Config]
      BY <1>0, <1>1
    <2> QED BY <1>1, <2>1 DEF FileCurrent
  <1>2. CASE saved' = FALSE /\ UNCHANGED <<file, saving>>
    <2>1. file' = file /\ saving' = saving /\ ~saved' /\ saved' \in BOOLEAN
      BY <1>2
    <2>2. FileCurrent'
      BY <1>0, <2>1 DEF FileCurrent
    <2>3. saving' \in BOOLEAN
      BY <2>1 DEF CoordInv, CoordTypeOK
    <2> QED BY <1>0, <2>1, <2>2, <2>3
  <1> QED BY <1>1, <1>2 DEF save_as

\* The offset of a system is set and saved.
LEMMA OffsetKeeps ==
    ASSUME CoordInv, NEW i, NEW offset \in Axis, set_coord_offset(i, offset)
    PROVE  CoordInv'
  <1>1. cm' = [cm EXCEPT !.offset[i] = offset] /\ i \in DOMAIN cm.offset /\ ~saving
        /\ save_as /\ motor' = motor /\ sys' = sys
    BY DEF set_coord_offset
  <1>2. cm' \in Config /\ cm'.global = cm.global
    BY <1>1 DEF CoordInv, CoordTypeOK, Config
  <1>3. FileCurrent' /\ CoordTypeOK'
    BY <1>1, <1>2, SaveKeeps DEF CoordInv, CoordTypeOK
  <1>4. MachineCacheFresh'
    BY <1>1, <1>2 DEF CoordInv, MachineCacheFresh, motor_to_machine
  <1> QED BY <1>3, <1>4 DEF CoordInv

\* The global offset is set and saved; the cache is refreshed.
LEMMA GlobalKeeps ==
    ASSUME CoordInv, NEW offset \in Axis, set_global_offset(offset)
    PROVE  CoordInv'
  <1>1. /\ cm' = [cm EXCEPT !.global = offset] /\ ~saving /\ save_as /\ motor' = motor
        /\ sys' = [sys EXCEPT !.mach = [a \in Axes |-> sys.motor[a] - offset[a]]]
    BY DEF set_global_offset
  <1>2. cm' \in Config /\ cm'.global = offset
    BY <1>1 DEF CoordInv, CoordTypeOK, Config
  <1>3. /\ sys'.motor = sys.motor /\ sys'.mach = [a \in Axes |-> sys.motor[a] - offset[a]]
        /\ sys' \in [motor : Axis, mach : Axis, index : Indexes \cup Defaults]
    BY <1>1, Typed DEF CoordInv, CoordTypeOK, Axis
  <1>4. FileCurrent' /\ CoordTypeOK'
    BY <1>1, <1>2, <1>3, SaveKeeps DEF CoordInv, CoordTypeOK
  <1>5. MachineCacheFresh'
    BY <1>2, <1>3 DEF MachineCacheFresh, motor_to_machine
  <1> QED BY <1>4, <1>5 DEF CoordInv

\* The limits are set and saved.
LEMMA LimitsKeep ==
    ASSUME CoordInv, NEW pos \in Axis, NEW neg \in Axis, set_soft_limits(pos, neg)
    PROVE  CoordInv'
  <1>1. cm' = [cm EXCEPT !.pos = pos, !.neg = neg] /\ ~saving
        /\ save_as /\ motor' = motor /\ sys' = sys
    BY DEF set_soft_limits
  <1>2. cm' \in Config /\ cm'.global = cm.global
    BY <1>1 DEF CoordInv, CoordTypeOK, Config
  <1>3. FileCurrent' /\ CoordTypeOK'
    BY <1>1, <1>2, SaveKeeps DEF CoordInv, CoordTypeOK
  <1>4. MachineCacheFresh'
    BY <1>1, <1>2 DEF CoordInv, MachineCacheFresh, motor_to_machine
  <1> QED BY <1>3, <1>4 DEF CoordInv

\* Settings of the panel and of a program.
LEMMA SettingKeeps ==
    ASSUME CoordInv, Setting
    PROVE  CoordInv'
  <1>0. CoordTypeOK /\ Values \subseteq Int
    BY CoordinateAssumption DEF CoordInv
  <1>1. ASSUME NEW i, NEW offset \in Given, set_coord_offset(i, offset) PROVE CoordInv'
    BY <1>0, <1>1, OffsetKeeps DEF Given, Axis
  <1>2. ASSUME NEW offset \in Given, set_global_offset(offset) PROVE CoordInv'
    BY <1>0, <1>2, GlobalKeeps DEF Given, Axis
  <1>3. ASSUME NEW pos \in Given, NEW neg \in Given, set_soft_limits(pos, neg) PROVE CoordInv'
    BY <1>0, <1>3, LimitsKeep DEF Given, Axis
  <1>4. ASSUME NEW i \in DOMAIN cm.offset, NEW a \in Axes, NEW v \in Values, SetAxisTo(i, a, v)
        PROVE  CoordInv'
    <2>1. cm.offset[i] \in Axis /\ sys.mach \in Axis /\ v \in Int
      BY <1>0, Typed
    <2>2. [cm.offset[i] EXCEPT ![a] = sys.mach[a] - v] \in Axis
      BY <2>1 DEF Axis
    <2> QED BY <1>4, <2>2, OffsetKeeps DEF SetAxisTo
  <1>5. ASSUME NEW i, SetOrigin(i) PROVE CoordInv'
    BY <1>0, <1>5, Typed, OffsetKeeps DEF SetOrigin
  <1>6. CASE SetGlobalOrigin
    BY <1>0, <1>6, Typed, GlobalKeeps DEF SetGlobalOrigin
  <1>7. ASSUME NEW axes, CoordSetZero(axes) PROVE CoordInv'
    <2> DEFINE o == [a \in Axes |-> IF a \in axes THEN motor[a] ELSE cm.offset[sys.index][a]]
    <2>1. set_coord_offset(sys.index, o)
      BY <1>7 DEF CoordSetZero
    <2>2. sys.index \in DOMAIN cm.offset
      BY <2>1 DEF set_coord_offset
    <2>3. o \in Axis
      BY <1>0, <2>2, Typed DEF Axis
    <2> QED BY <2>1, <2>3, OffsetKeeps
  <1>8. ASSUME NEW i, set_coord_index(i) PROVE CoordInv'
    <2>1. /\ i \in Indexes \cup Defaults /\ sys' = [sys EXCEPT !.index = i]
          /\ UNCHANGED <<cm, file, saving, saved, motor>>
      BY <1>0, <1>8, Typed DEF set_coord_index
    <2>2. CoordTypeOK' /\ sys'.motor = sys.motor /\ sys'.mach = sys.mach
      BY <1>0, <2>1 DEF CoordTypeOK
    <2>3. MachineCacheFresh' /\ FileCurrent'
      BY <2>1, <2>2 DEF CoordInv, MachineCacheFresh, FileCurrent, motor_to_machine, ToJson
    <2> QED BY <2>2, <2>3 DEF CoordInv
  <1> QED BY <1>1, <1>2, <1>3, <1>4, <1>5, <1>6, <1>7, <1>8 DEF Setting

\* A move changes the position of the axes only.
LEMMA MoveKeeps ==
    ASSUME CoordInv, NEW p, MoveTo(p)
    PROVE  CoordInv'
  <1>1. /\ UNCHANGED <<cm, file, saving, saved, sys>>
        /\ motor' = [a \in Axes |-> p[a] + cm.global[a]]
        /\ \A a \in Axes : motor'[a] \in -Bound..Bound
    BY DEF MoveTo, machine_to_motor, InBound
  <1>2. motor' \in Axis
    BY <1>1, CoordinateAssumption DEF Axis
  <1>3. CoordTypeOK'
    BY <1>1, <1>2 DEF CoordInv, CoordTypeOK
  <1>4. MachineCacheFresh' /\ FileCurrent'
    BY <1>1 DEF CoordInv, MachineCacheFresh, FileCurrent, motor_to_machine, ToJson
  <1> QED BY <1>3, <1>4 DEF CoordInv

\* Every kind of move.
LEMMA MovingKeeps ==
    ASSUME CoordInv, Moving
    PROVE  CoordInv'
  <1>1. ASSUME NEW i, NEW c, Line(i, c) PROVE \E p : MoveTo(p)
    BY <1>1 DEF Line
  <1>2. ASSUME NEW i, NEW c, TouchLine(i, c) PROVE \E p : MoveTo(p)
    BY <1>2 DEF TouchLine
  <1>3. ASSUME NEW i, NEW points, NEW n, Group(i, points, n) PROVE \E p : MoveTo(p)
    BY <1>3 DEF Group
  <1>4. ASSUME NEW c, PointMove(c) PROVE \E p : MoveTo(p)
    BY <1>4 DEF PointMove
  <1>5. ASSUME NEW dir, NEW fine, VectorMove(dir, fine) PROVE \E p : MoveTo(p)
    BY <1>5 DEF VectorMove
  <1> QED BY <1>1, <1>2, <1>3, <1>4, <1>5, MoveKeeps DEF Moving

\* The end of a save, the update of the position and a restart.
LEMMA OtherKeeps ==
    ASSUME CoordInv, Written \/ info_updated \/ Restart \/ UNCHANGED cvars
    PROVE  CoordInv'
  <1>1. CASE Written
    <2>1. ToJson(cm) \in Config
      BY JsonTwice DEF CoordInv, CoordTypeOK
    <2>2. /\ saving' = FALSE /\ file' = [torn |-> FALSE, cm |-> ToJson(cm)]
          /\ UNCHANGED <<cm, saved, motor, sys>>
      BY <1>1 DEF Written
    <2>3. CoordTypeOK'
      BY <2>1, <2>2 DEF CoordInv, CoordTypeOK
    <2>4. MachineCacheFresh' /\ FileCurrent'
      BY <2>2 DEF CoordInv, MachineCacheFresh, FileCurrent, motor_to_machine, ToJson
    <2> QED BY <2>3, <2>4 DEF CoordInv
  <1>2. CASE info_updated
    <2>1. /\ sys' = [sys EXCEPT !.motor = motor, !.mach = motor_to_machine(motor)]
          /\ UNCHANGED <<cm, file, saving, saved, motor>>
      BY <1>2 DEF info_updated, update_motor_pos
    <2>2. motor_to_machine(motor) \in Axis
      BY Typed DEF CoordInv, motor_to_machine, Axis
    <2>3. CoordTypeOK' /\ sys'.motor = motor /\ sys'.mach = motor_to_machine(motor)
      BY <2>1, <2>2 DEF CoordInv, CoordTypeOK
    <2>4. MachineCacheFresh' /\ FileCurrent'
      BY <2>1, <2>3 DEF CoordInv, MachineCacheFresh, FileCurrent, motor_to_machine, ToJson
    <2> QED BY <2>3, <2>4 DEF CoordInv
  <1>3. CASE Restart
    <2> DEFINE d == IF file.torn THEN DefaultConfig ELSE file.cm
    <2>1. d \in Config
      BY DefaultTyped DEF CoordInv, CoordTypeOK
    <2>2. Start(d)
      BY <1>3 DEF Restart
    <2> HIDE DEF d
    <2>3. PICK i \in DOMAIN d.offset :
            sys' = [motor |-> Zero, mach |-> [a \in Axes |-> 0 - d.global[a]], index |-> i]
      BY <2>2 DEF Start
    <2>4. /\ cm' = d /\ motor' = motor /\ saving' = FALSE /\ saved' = TRUE
          /\ file' = [torn |-> FALSE, cm |-> ToJson(d)]
      BY <2>2 DEF Start
    <2>a. d.global \in Axis /\ d.offset \in [Indexes -> Axis] \cup [Defaults -> Axis]
      BY <2>1 DEF Config
    <2>b. i \in Indexes \cup Defaults
      BY <2>a, <2>3
    <2>c. Zero \in Axis
      BY DEF Zero, Axis
    <2>5. d.global \in Axis /\ i \in Indexes \cup Defaults /\ Zero \in Axis
          /\ ToJson(d) \in Config
      BY <2>1, <2>a, <2>b, <2>c, JsonTwice
    <2>6. [a \in Axes |-> 0 - d.global[a]] \in Axis
      BY <2>5 DEF Axis
    <2>7. CoordTypeOK'
      BY <2>1, <2>3, <2>4, <2>5, <2>6 DEF CoordInv, CoordTypeOK
    <2>8. MachineCacheFresh'
      BY <2>3, <2>4 DEF MachineCacheFresh, motor_to_machine, Zero
    <2>9. FileCurrent'
      BY <2>4 DEF FileCurrent, ToJson
    <2> QED BY <2>7, <2>8, <2>9 DEF CoordInv
  <1>4. CASE UNCHANGED cvars
    BY <1>4 DEF cvars, CoordInv, CoordTypeOK, MachineCacheFresh, FileCurrent,
                motor_to_machine, ToJson
  <1> QED BY <1>1, <1>2, <1>3, <1>4

\* The invariant is inductive ...
LEMMA CoordStep == CoordInv /\ [CoordNext]_cvars => CoordInv'
  BY SettingKeeps, MovingKeeps, OtherKeeps DEF CoordNext

\* ... and holds at the start.
LEMMA CoordStart == CoordInit => CoordInv
  <1> SUFFICES ASSUME CoordInit PROVE CoordInv
    OBVIOUS
  <1>0. Starts \subseteq Int /\ Bound \in Int /\ -Bound \in Int
    BY CoordinateAssumption
  <1>1. PICK g \in [Axes -> Starts], o \in [Indexes -> [Axes -> Starts]] :
          cm = ToJson([global |-> g, offset |-> o, pos |-> [a \in Axes |-> Bound],
                       neg |-> [a \in Axes |-> -Bound]])
    BY DEF CoordInit
  <1> DEFINE c == [global |-> g, offset |-> o, pos |-> [a \in Axes |-> Bound],
                   neg |-> [a \in Axes |-> -Bound]]
  <1>a. /\ g \in Axis /\ o \in [Indexes -> Axis]
        /\ [a \in Axes |-> Bound] \in Axis /\ [a \in Axes |-> -Bound] \in Axis
    BY <1>0 DEF Axis
  <1>2. c \in Config
    BY <1>a DEF Config
  <1>3. cm \in Config /\ ToJson(cm) = cm
    BY <1>1, <1>2, JsonTwice
  <1>b. motor \in [Axes -> Starts] /\ cm.global \in Axis
    BY <1>3 DEF CoordInit, Config
  <1>4. motor \in Axis /\ Zero \in Axis /\ motor_to_machine(Zero) \in Axis
    BY <1>0, <1>b DEF Axis, Zero, motor_to_machine
  <1>c. PICK i \in Indexes :
          sys = [motor |-> Zero, mach |-> motor_to_machine(Zero), index |-> i]
    BY DEF CoordInit
  <1>d. sys \in [motor : Axis, mach : Axis, index : Indexes \cup Defaults]
    BY <1>4, <1>c
  <1>e. file = [torn |-> FALSE, cm |-> cm] /\ saving = FALSE /\ saved = TRUE
    BY DEF CoordInit
  <1>5. CoordTypeOK
    BY <1>3, <1>4, <1>d, <1>e DEF CoordTypeOK
  <1>6. MachineCacheFresh /\ FileCurrent
    BY <1>3 DEF CoordInit, MachineCacheFresh, FileCurrent
  <1> QED BY <1>5, <1>6 DEF CoordInv

----------------------------------------------------------------------------
\* The machine position that the panel's buttons use never lags behind the
\* position or the global offset, across settings, moves and restarts.
THEOREM CacheFresh == CoordSpec => []MachineCacheFresh
  <1>1. CoordInv => MachineCacheFresh
    BY DEF CoordInv
  <1> QED BY <1>1, CoordStart, CoordStep, PTL DEF CoordSpec

\* A button that sets an axis to a value or sets the origin makes the axis
\* read that value, whatever offsets were set before.
THEOREM SetReads == CoordSpec => SetMeansRead
  <1>1. ASSUME CoordInv, NEW i \in DOMAIN cm.offset, NEW a \in Axes, NEW v \in Values,
               SetAxisTo(i, a, v)
        PROVE  motor_to_coord(i, sys.motor)'[a] = v
    <2>1. /\ cm' = [cm EXCEPT !.offset[i] = [cm.offset[i] EXCEPT ![a] = sys.mach[a] - v]]
          /\ sys' = sys
      BY <1>1 DEF SetAxisTo, set_coord_offset
    <2>2. /\ cm.offset[i] \in Axis /\ sys.motor \in Axis /\ cm.global \in Axis
          /\ sys.mach[a] = sys.motor[a] - cm.global[a] /\ v \in Int
      BY <1>1, Typed, CoordinateAssumption DEF CoordInv, MachineCacheFresh, motor_to_machine
    <2>3. cm'.global = cm.global /\ cm'.offset[i][a] = sys.mach[a] - v
      BY <1>1, <2>1, <2>2 DEF CoordInv, CoordTypeOK, Config, Axis
    <2> QED BY <2>1, <2>2, <2>3 DEF motor_to_coord, Axis
  <1>2. ASSUME CoordInv, NEW i \in DOMAIN cm.offset, SetOrigin(i)
        PROVE  motor_to_coord(i, sys.motor)' = Zero
    <2>1. cm' = [cm EXCEPT !.offset[i] = sys.mach] /\ sys' = sys
      BY <1>2 DEF SetOrigin, set_coord_offset
    <2>2. /\ sys.motor \in Axis /\ cm.global \in Axis
          /\ sys.mach = [a \in Axes |-> sys.motor[a] - cm.global[a]]
      BY <1>2, Typed DEF CoordInv, MachineCacheFresh, motor_to_machine
    <2>3. cm'.global = cm.global /\ cm'.offset[i] = sys.mach
      BY <1>2, <2>1 DEF CoordInv, CoordTypeOK, Config
    <2>4. \A a \in Axes : sys.motor[a] - cm.global[a] - sys.mach[a] = 0
      <3> TAKE a \in Axes
      <3>1. sys.motor[a] \in Int /\ cm.global[a] \in Int
        BY <2>2 DEF Axis
      <3> QED BY <2>2, <3>1
    <2> QED BY <2>1, <2>3, <2>4 DEF motor_to_coord, Zero
  <1>3. CoordInv /\ [CoordNext]_cvars =>
          [/\ \A i \in DOMAIN cm.offset, a \in Axes, v \in Values :
                SetAxisTo(i, a, v) => motor_to_coord(i, sys.motor)'[a] = v
           /\ \A i \in DOMAIN cm.offset :
                SetOrigin(i) => motor_to_coord(i, sys.motor)' = Zero]_cvars
    BY <1>1, <1>2
  <1> QED BY <1>3, CoordStart, CoordStep, PTL DEF CoordSpec, SetMeansRead

\* A restart brings back what was set, at the resolution of the file, and
\* repeated restarts do not shift it, unless the process ended in a save or
\* the file could not be opened.
THEOREM RestartFinds == CoordSpec => RestartKeeps
  <1>1. CoordInv /\ [CoordNext]_cvars =>
          [Restart /\ ~file.torn /\ saved => cm' = ToJson(cm)]_cvars
    <2> SUFFICES ASSUME CoordInv, Restart, ~file.torn, saved PROVE cm' = ToJson(cm)
      OBVIOUS
    <2>1. cm' = file.cm
      BY DEF Restart, Start
    <2>2. file.cm = ToJson(cm)
      BY DEF CoordInv, FileCurrent
    <2> QED BY <2>1, <2>2
  <1> QED BY <1>1, CoordStart, CoordStep, PTL DEF CoordSpec, RestartKeeps

----------------------------------------------------------------------------
(* Groups.                                                                 *)

\* A command leads from a machine position to a machine position.
LEMMA TargetTyped ==
    ASSUME CoordTypeOK, NEW i \in DOMAIN cm.offset, NEW start \in Axis, NEW c \in Command
    PROVE  Target(i, start, c) \in Axis
  <1>1. cm.offset[i] \in Axis /\ Values \subseteq Int
    BY Typed, CoordinateAssumption
  <1>2. c.cmd \in [Axes -> Values \cup {None}]
    BY DEF Command
  <1>3. machine_to_coord(i, start) \in Axis
    BY <1>1 DEF machine_to_coord, Axis
  <1> DEFINE from == IF c.mode = "Absolute" THEN machine_to_coord(i, start) ELSE start
             to   == [a \in Axes |-> IF c.cmd[a] = None THEN from[a]
                                   ELSE IF c.mode = "Increment" THEN from[a] + c.cmd[a]
                                   ELSE c.cmd[a]]
  <1>4. from \in Axis
    BY <1>3
  <1>5. to \in Axis
    <2> HIDE DEF from
    <2>1. ASSUME NEW a \in Axes PROVE to[a] \in Int
      <3>1. from[a] \in Int
        BY <1>4 DEF Axis
      <3>2. c.cmd[a] # None => c.cmd[a] \in Int
        BY <1>1, <1>2
      <3> QED BY <3>1, <3>2
    <2> QED BY <2>1 DEF Axis
  <1>6. Target(i, start, c) = IF c.mode = "Absolute" THEN coord_to_machine(i, to) ELSE to
    BY DEF Target
  <1>7. coord_to_machine(i, to) \in Axis
    <2> HIDE DEF to
    <2> QED BY <1>1, <1>5 DEF coord_to_machine, Axis
  <1> QED BY <1>5, <1>6, <1>7

\* An axis reads what the command says: the value, the value after what it
\* read before, or what it read before.
LEMMA TargetReads ==
    ASSUME CoordTypeOK, NEW i \in DOMAIN cm.offset, NEW start \in Axis, NEW c \in Command,
           c.mode # "Machine", NEW a \in Axes, NEW before \in Int,
           before = start[a] - cm.offset[i][a]
    PROVE  Target(i, start, c)[a] - cm.offset[i][a] =
             IF c.cmd[a] = None THEN before
             ELSE IF c.mode = "Increment" THEN before + c.cmd[a]
             ELSE c.cmd[a]
  <1>1. PICK o \in Int : o = cm.offset[i][a]
    BY Typed DEF Axis
  <1>2. PICK s \in Int : s = start[a]
    BY DEF Axis
  <1>3. c.cmd[a] # None => c.cmd[a] \in Int
    BY CoordinateAssumption DEF Command
  <1>4. c.mode = "Increment" \/ c.mode = "Absolute"
    BY DEF Command
  <1>5. CASE c.mode = "Increment"
    <2>1. Target(i, start, c)[a] = IF c.cmd[a] = None THEN s ELSE s + c.cmd[a]
      BY <1>2, <1>5 DEF Target
    <2> QED BY <1>1, <1>2, <1>3, <1>5, <2>1
  <1>6. CASE c.mode = "Absolute"
    <2>1. Target(i, start, c)[a] = (IF c.cmd[a] = None THEN s - o ELSE c.cmd[a]) + o
      BY <1>1, <1>2, <1>6 DEF Target, machine_to_coord, coord_to_machine
    <2> QED BY <1>1, <1>2, <1>3, <1>6, <2>1
  <1> QED BY <1>4, <1>5, <1>6

Segment == [start : Axis, inc : Axis]

\* The segments of a group of n points.
Chain(segs, i, start, points, n) ==
    /\ segs \in [0..n -> Segment] /\ segs[0].start = start
    /\ \A k \in 1..n :
         /\ segs[k].start = Target(i, segs[k - 1].start, points[k])
         /\ segs[k].inc = [a \in Axes |-> segs[k].start[a] - segs[k - 1].start[a]]

\* A group has points, and they are commands.
LEMMA GroupTyped ==
    ASSUME NEW points \in Groups
    PROVE  /\ Len(points) \in Nat \ {0}
           /\ \A k \in 1..Len(points) : points[k] \in Command /\ points[k].mode # "Machine"
  <1>1. PICK n \in 1..MaxPoints : points \in [1..n -> {c \in Command : c.mode # "Machine"}]
    BY DEF Groups
  <1>2. n \in Nat \ {0}
    BY <1>1, CoordinateAssumption
  <1>3. points \in Seq({c \in Command : c.mode # "Machine"})
    BY <1>1, <1>2, SeqDef
  <1>4. Len(points) = n
    BY <1>1, <1>2, <1>3, LenProperties
  <1> QED BY <1>1, <1>2, <1>4

\* The segments are well defined.
LEMMA SegmentsChain ==
    ASSUME CoordTypeOK, NEW i \in DOMAIN cm.offset, NEW start \in Axis,
           NEW points \in Groups, NEW n \in Nat, n = Len(points)
    PROVE  Chain(Segments(i, start, points), i, start, points, n)
  <1> DEFINE Go(k, s) ==
               [start |-> Target(i, s.start, points[k]),
                inc   |-> [a \in Axes |-> Target(i, s.start, points[k])[a] - s.start[a]]]
             step == [k \in 1..n |-> [s \in Segment |-> Go(k, s)]]
             G(segs) == [k \in 0..Len(points) |->
                           IF k = 0 THEN [start |-> start, inc |-> Zero]
                           ELSE LET s == segs[k - 1].start
                                    t == Target(i, s, points[k])
                                IN  [start |-> t, inc |-> [a \in Axes |-> t[a] - s[a]]]]
  <1>1. \A k \in 1..n, s \in Segment : Go(k, s) \in Segment
    <2> TAKE k \in 1..n, s \in Segment
    <2>1. PICK t \in Axis : t = Target(i, s.start, points[k])
      BY GroupTyped, TargetTyped DEF Segment
    <2>2. s.start \in Axis
      BY DEF Segment
    <2>3. [a \in Axes |-> t[a] - s.start[a]] \in Axis
      BY <2>2 DEF Axis
    <2> QED BY <2>1, <2>3 DEF Segment
  <1>2. step \in Rounds(n, Segment)
    <2> HIDE DEF Go
    <2> QED BY <1>1 DEF Rounds
  <1>3. PICK first \in Segment : first = [start |-> start, inc |-> Zero]
    <2>1. Zero \in Axis
      BY DEF Zero, Axis
    <2> QED BY <2>1 DEF Segment
  <1>4. PICK segs : Follows(segs, n, Segment, first, step)
    <2> HIDE DEF step
    <2> QED BY <1>2, LoopExists
  <1>5. segs \in [0..n -> Segment] /\ segs[0] = first
    BY <1>4 DEF Follows
  <1>6. \A k \in 1..n : segs[k] = Go(k, segs[k - 1])
    <2> HIDE DEF Go
    <2> TAKE k \in 1..n
    <2>1. segs[k - 1] \in Segment /\ segs[k] = step[k][segs[k - 1]]
      BY <1>4, <1>5 DEF Follows
    <2> QED BY <2>1
  <1>7. segs = G(segs)
    <2>1. \A k \in 0..n : segs[k] = G(segs)[k]
      <3> TAKE k \in 0..n
      <3>1. k = 0 \/ k \in 1..n
        OBVIOUS
      <3> QED BY <1>3, <1>5, <1>6, <3>1
    <2>2. DOMAIN segs = 0..n /\ DOMAIN G(segs) = 0..n
      BY <1>5
    <2> QED BY <1>5, <2>1, <2>2
  <1>8. PICK h : h = G(h) /\ Segments(i, start, points) = h
    BY <1>7 DEF Segments
  <1>9. DOMAIN h = 0..n /\ h[0] = first /\ \A k \in 1..n : h[k] = Go(k, h[k - 1])
    <2>1. DOMAIN h = 0..n
      BY <1>8
    <2>2. h[0] = first
      <3>1. 0 \in 0..n
        OBVIOUS
      <3> QED BY <1>3, <1>8, <3>1
    <2>3. ASSUME NEW k \in 1..n PROVE h[k] = Go(k, h[k - 1])
      <3>1. k \in 0..Len(points) /\ k # 0
        OBVIOUS
      <3> QED BY <1>8, <3>1
    <2> QED BY <2>1, <2>2, <2>3
  <1>10. \A k \in 0..n : h[k] = segs[k]
    <2> HIDE DEF Go, G, step
    <2>1. Alike(h, segs, n)
      BY <1>5, <1>6, <1>9 DEF Alike
    <2> QED BY <2>1, LoopSame
  <1>11. h = segs
    <2> HIDE DEF Go, G, step
    <2>1. h = [k \in 0..n |-> h[k]]
      BY <1>8, <1>9 DEF G
    <2> QED BY <1>5, <1>10, <2>1
  <1>12. \A k \in 1..n :
           /\ segs[k].start = Target(i, segs[k - 1].start, points[k])
           /\ segs[k].inc = [a \in Axes |-> segs[k].start[a] - segs[k - 1].start[a]]
    <2> TAKE k \in 1..n
    <2>1. segs[k] = Go(k, segs[k - 1])
      BY <1>6
    <2>2. PICK t, s : t = Target(i, segs[k - 1].start, points[k]) /\ s = segs[k - 1].start
      OBVIOUS
    <2>3. segs[k] = [start |-> t, inc |-> [a \in Axes |-> t[a] - s[a]]]
      BY <2>1, <2>2
    <2> HIDE DEF Go, G, step
    <2>4. segs[k].start = t /\ segs[k].inc = [a \in Axes |-> t[a] - s[a]]
      BY <2>3
    <2> QED BY <2>2, <2>4
  <1>13. segs[0].start = start
    BY <1>3, <1>5
  <1> QED
    <2> HIDE DEF Go, G, step
    <2> QED BY <1>5, <1>8, <1>11, <1>12, <1>13 DEF Chain

\* The increments of a group lead through the ends of its segments.
LEMMA GroupEndSegment ==
    ASSUME CoordTypeOK, NEW i \in DOMAIN cm.offset, NEW start \in Axis,
           NEW points \in Groups, NEW m \in 0..Len(points)
    PROVE  GroupEnd(i, start, points, m) = Segments(i, start, points)[m].start
  <1>1. PICK n \in Nat : n = Len(points)
    BY GroupTyped
  <1> DEFINE segs == Segments(i, start, points)
  <1>3. Chain(segs, i, start, points, n)
    BY <1>1, SegmentsChain
  <1> DEFINE G(at) == [k \in 0..Len(points) |->
                         IF k = 0 THEN start ELSE [a \in Axes |-> at[k - 1][a] + segs[k].inc[a]]]
  <1>4. PICK g \in [0..n -> Axis] : g = [k \in 0..n |-> segs[k].start]
    BY <1>3 DEF Chain, Segment
  <1>5. \A k \in 1..n : g[k] = [a \in Axes |-> g[k - 1][a] + segs[k].inc[a]]
    <2> TAKE k \in 1..n
    <2>0. g[k] = segs[k].start /\ g[k - 1] = segs[k - 1].start
      BY <1>4
    <2>1. segs[k].inc = [a \in Axes |-> g[k][a] - g[k - 1][a]]
      BY <1>3, <2>0 DEF Chain
    <2>2. g[k] \in Axis /\ g[k - 1] \in Axis
      BY <1>4
    <2>3. \A a \in Axes : g[k - 1][a] + segs[k].inc[a] = g[k][a]
      BY <2>1, <2>2 DEF Axis
    <2> QED BY <2>2, <2>3 DEF Axis
  <1>6. g[0] = start
    BY <1>3, <1>4 DEF Chain
  <1>7. g = G(g)
    <2>1. \A k \in 0..n : g[k] = G(g)[k]
      <3> TAKE k \in 0..n
      <3>1. k = 0 \/ k \in 1..n
        OBVIOUS
      <3> QED BY <1>1, <1>5, <1>6, <3>1
    <2>2. DOMAIN g = 0..n /\ DOMAIN G(g) = 0..n
      BY <1>1, <1>4
    <2> QED BY <1>4, <2>1, <2>2
  <1>8. PICK h : h = G(h) /\ GroupEnd(i, start, points, m) = h[m]
    BY <1>7 DEF GroupEnd
  <1>9. h[0] = start /\ \A k \in 1..n : h[k] = [a \in Axes |-> h[k - 1][a] + segs[k].inc[a]]
    <2>1. h[0] = start
      <3>1. 0 \in 0..Len(points)
        BY <1>1
      <3> QED BY <1>8, <3>1
    <2>2. ASSUME NEW k \in 1..n PROVE h[k] = [a \in Axes |-> h[k - 1][a] + segs[k].inc[a]]
      <3>1. k \in 0..Len(points) /\ k # 0
        BY <1>1
      <3> QED BY <1>8, <3>1
    <2> QED BY <2>1, <2>2
  <1>10. h[m] = g[m]
    <2> HIDE DEF G
    <2>1. Alike(h, g, n)
      BY <1>5, <1>6, <1>9 DEF Alike
    <2>2. m \in 0..n
      BY <1>1
    <2> QED BY <2>1, <2>2, LoopSame
  <1> QED BY <1>1, <1>4, <1>8, <1>10

\* What an axis reads after each point is where its segment ends.
LEMMA ReadsSegment ==
    ASSUME CoordTypeOK, NEW i \in DOMAIN cm.offset, NEW points \in Groups,
           NEW m \in 1..Len(points), NEW a \in Axes
    PROVE  ReadsAfter(i, points, m, a) =
             Segments(i, motor_to_machine(motor), points)[m].start[a] - cm.offset[i][a]
  <1>1. PICK n \in Nat : n = Len(points)
    BY GroupTyped
  <1>2. PICK start \in Axis : start = motor_to_machine(motor)
    <2>1. motor_to_machine(motor) \in Axis
      BY Typed DEF motor_to_machine, Axis
    <2> QED BY <2>1
  <1>3. PICK segs : segs = Segments(i, motor_to_machine(motor), points)
    OBVIOUS
  <1>4. Chain(segs, i, start, points, n)
    BY <1>1, <1>2, <1>3, SegmentsChain
  <1>5. PICK o \in Int : o = cm.offset[i][a]
    BY Typed DEF Axis
  <1>6. m \in Nat /\ m <= n
    BY <1>1
  <1> DEFINE G(r) == [k \in 0..m |->
                        IF k = 0 THEN motor_to_coord(i, motor)[a]
                        ELSE IF points[k].cmd[a] = None THEN r[k - 1]
                        ELSE IF points[k].mode = "Increment" THEN r[k - 1] + points[k].cmd[a]
                        ELSE points[k].cmd[a]]
  <1>7. PICK g \in [0..m -> Int] : g = [k \in 0..m |-> segs[k].start[a] - o]
    <2>1. \A k \in 0..m : segs[k].start[a] \in Int
      BY <1>4, <1>6 DEF Chain, Segment, Axis
    <2>2. \A k \in 0..m : segs[k].start[a] - o \in Int
      BY <2>1
    <2>3. [k \in 0..m |-> segs[k].start[a] - o] \in [0..m -> Int]
      BY <2>2
    <2> QED BY <2>3
  <1>8. g[0] = motor_to_coord(i, motor)[a]
    <2>1. segs[0].start = start
      BY <1>4 DEF Chain
    <2>2. g[0] = start[a] - o
      BY <1>6, <1>7, <2>1
    <2> QED BY <1>2, <1>5, <2>2, Typed DEF motor_to_coord, motor_to_machine, Axis
  <1>9. \A k \in 1..m : g[k] = IF points[k].cmd[a] = None THEN g[k - 1]
                              ELSE IF points[k].mode = "Increment" THEN g[k - 1] + points[k].cmd[a]
                              ELSE points[k].cmd[a]
    <2> TAKE k \in 1..m
    <2>1. /\ segs[k - 1].start \in Axis
          /\ segs[k].start = Target(i, segs[k - 1].start, points[k])
      <3>1. k \in 1..n /\ k - 1 \in 0..n
        BY <1>6
      <3> QED BY <1>4, <3>1 DEF Chain, Segment
    <2>2. points[k] \in Command /\ points[k].mode # "Machine"
      BY <1>1, <1>6, GroupTyped
    <2>3. g[k - 1] \in Int /\ g[k - 1] = segs[k - 1].start[a] - o /\ g[k] = segs[k].start[a] - o
      BY <1>6, <1>7
    <2> QED BY <1>5, <2>1, <2>2, <2>3, TargetReads
  <1>10. g = G(g)
    <2>1. \A k \in 0..m : g[k] = G(g)[k]
      <3> TAKE k \in 0..m
      <3>1. k = 0 \/ k \in 1..m
        OBVIOUS
      <3> QED BY <1>8, <1>9, <3>1
    <2>2. DOMAIN g = 0..m /\ DOMAIN G(g) = 0..m
      BY <1>7
    <2> QED BY <1>7, <2>1, <2>2
  <1>11. PICK h : h = G(h) /\ ReadsAfter(i, points, m, a) = h[m]
    BY <1>10 DEF ReadsAfter
  <1>12. /\ h[0] = motor_to_coord(i, motor)[a]
         /\ \A k \in 1..m : h[k] = IF points[k].cmd[a] = None THEN h[k - 1]
                                  ELSE IF points[k].mode = "Increment"
                                       THEN h[k - 1] + points[k].cmd[a]
                                  ELSE points[k].cmd[a]
    <2>1. h[0] = motor_to_coord(i, motor)[a]
      <3>1. 0 \in 0..m
        BY <1>6
      <3> QED BY <1>11, <3>1
    <2>2. ASSUME NEW k \in 1..m
          PROVE  h[k] = IF points[k].cmd[a] = None THEN h[k - 1]
                        ELSE IF points[k].mode = "Increment" THEN h[k - 1] + points[k].cmd[a]
                        ELSE points[k].cmd[a]
      <3>1. k \in 0..m /\ k # 0
        OBVIOUS
      <3> QED BY <1>11, <3>1
    <2> QED BY <2>1, <2>2
  <1>13. h[m] = g[m]
    <2> HIDE DEF G
    <2>1. Alike(h, g, m)
      BY <1>8, <1>9, <1>12 DEF Alike
    <2> QED BY <1>6, <2>1, LoopSame
  <1> QED BY <1>3, <1>5, <1>6, <1>7, <1>11, <1>13

\* A group of lines reads what its points say, wherever it is stopped: the
\* increments that the runner computes point by point, in machine coordinates,
\* add up to what the two coordinate modes mean in the system of the group.
THEOREM GroupReadsAsWritten == CoordSpec => []GroupAsWritten
  <1>1. CoordInv => GroupAsWritten
    <2> SUFFICES ASSUME CoordTypeOK, NEW i \in DOMAIN cm.offset, NEW points \in Groups,
                        NEW n \in 1..Len(points), NEW a \in Axes
                 PROVE  motor_to_coord(i, machine_to_motor(
                          GroupEnd(i, motor_to_machine(motor), points, n)))[a]
                          = ReadsAfter(i, points, n, a)
      BY DEF CoordInv, GroupAsWritten
    <2>1. motor_to_machine(motor) \in Axis
      BY Typed DEF motor_to_machine, Axis
    <2>2. PICK m \in Nat : m = Len(points)
      BY GroupTyped
    <2>3. n \in 0..Len(points)
      BY <2>2
    <2> DEFINE segs == Segments(i, motor_to_machine(motor), points)
    <2>4. GroupEnd(i, motor_to_machine(motor), points, n) = segs[n].start
      BY <2>1, <2>3, GroupEndSegment
    <2>5. segs[n].start \in Axis
      <3>1. Chain(segs, i, motor_to_machine(motor), points, m)
        BY <2>1, <2>2, SegmentsChain
      <3>2. n \in 0..m
        BY <2>2
      <3> HIDE DEF segs
      <3> QED BY <3>1, <3>2 DEF Chain, Segment
    <2>6. ReadsAfter(i, points, n, a) = segs[n].start[a] - cm.offset[i][a]
      BY ReadsSegment
    <2> HIDE DEF segs
    <2>7. PICK p \in Axis : p = segs[n].start
      BY <2>5
    <2>8. motor_to_coord(i, machine_to_motor(p))[a] = p[a] - cm.offset[i][a]
      <3>1. p[a] \in Int /\ cm.global[a] \in Int /\ cm.offset[i][a] \in Int
        BY Typed DEF Axis
      <3>2. machine_to_motor(p)[a] = p[a] + cm.global[a]
        BY DEF machine_to_motor
      <3>3. motor_to_coord(i, machine_to_motor(p))[a]
              = machine_to_motor(p)[a] - cm.global[a] - cm.offset[i][a]
        BY DEF motor_to_coord
      <3> QED BY <3>1, <3>2, <3>3
    <2> QED BY <2>4, <2>6, <2>7, <2>8
  <1> QED BY <1>1, CoordStart, CoordStep, PTL DEF CoordSpec

----------------------------------------------------------------------------
(* Limits.                                                                 *)

\* The machine has finitely many axes: a value given to each is smallest for
\* one of those in question.
LEMMA SmallestValue ==
    ASSUME NEW A \in SUBSET Axes, A # {}, NEW v, \A a \in A : v[a] \in Int
    PROVE  /\ Smallest({v[a] : a \in A}) \in Int
           /\ \A x \in A : Smallest({v[a] : a \in A}) <= v[x]
  <1>1. PICK n \in Nat : ExistsSurjection(1..n, Axes)
    BY CoordinateAssumption, FS_NatSurjection
  <1>2. PICK h \in [1..n -> Axes] : \A a \in Axes : \E k \in 1..n : h[k] = a
    BY <1>1 DEF ExistsSurjection, Surjection
  <1> DEFINE Below(b, k) == \A j \in 1..k : h[j] \in A => b <= v[h[j]]
             Good == {k \in 0..n : \E b \in Int : Below(b, k)}
  <1>3. 0 \in Good
    <2>1. Below(0, 0)
      OBVIOUS
    <2> QED BY <2>1
  <1>4. ASSUME NEW k \in 1..n, NEW b \in Int, Below(b, k - 1)
        PROVE  \E c \in Int : Below(c, k)
    <2>1. CASE h[k] \notin A
      <3>1. Below(b, k)
        BY <1>4, <2>1
      <3> QED BY <3>1
    <2>2. CASE h[k] \in A
      <3>1. PICK w \in Int : w = v[h[k]]
        BY <2>2
      <3>2. PICK c \in Int : c <= b /\ c <= w
        <4>1. CASE b <= w
          BY <4>1
        <4>2. CASE w <= b
          BY <4>2
        <4> QED BY <4>1, <4>2
      <3>3. Below(c, k)
        <4> SUFFICES ASSUME NEW j \in 1..k, h[j] \in A PROVE c <= v[h[j]]
          OBVIOUS
        <4>1. CASE j = k
          BY <3>1, <3>2, <4>1
        <4>2. CASE j # k
          <5>1. j \in 1..(k - 1) /\ v[h[j]] \in Int
            BY <4>2
          <5>2. b <= v[h[j]]
            BY <1>4, <5>1
          <5> QED BY <3>2, <5>1, <5>2
        <4> QED BY <4>1, <4>2
      <3> QED BY <3>3
    <2> QED BY <2>1, <2>2
  <1>5. PICK b \in Int : Below(b, n)
    <2> HIDE DEF Below
    <2>1. 0 \in Good /\ \A k \in 1..n : k - 1 \in Good => k \in Good
      BY <1>3, <1>4
    <2>2. \A k \in 0..n : k \in Good
      <3> HIDE DEF Good
      <3> QED BY <2>1, LoopInvariant
    <2>3. n \in Good
      BY <2>2
    <2> QED BY <2>3
  <1>6. \A a \in A : b <= v[a]
    BY <1>2, <1>5
  <1> DEFINE T == {v[a] - b : a \in A}
  <1>7. PICK m \in T : \A t \in T : m <= t
    <2>1. T \subseteq Nat /\ T # {}
      BY <1>6
    <2> HIDE DEF T
    <2> QED BY <2>1, Least
  <1>8. PICK x \in A : m = v[x] - b
    OBVIOUS
  <1>9. \A a \in A : v[x] <= v[a]
    <2> TAKE a \in A
    <2>1. v[x] \in Int /\ v[a] \in Int /\ v[x] - b <= v[a] - b
      BY <1>7, <1>8
    <2> QED BY <2>1
  <1> DEFINE S == {v[a] : a \in A}
  <1>10. v[x] \in S /\ S \subseteq Int /\ \A y \in S : v[x] <= y
    BY <1>9
  <1>11. Smallest(S) \in S /\ \A y \in S : Smallest(S) <= y
    <2> HIDE DEF S
    <2> QED BY <1>10 DEF Smallest
  <1> QED BY <1>10, <1>11

\* A move that passes the check takes no axis further beyond a limit.
LEMMA CheckedInside ==
    ASSUME CoordTypeOK, NEW start \in Axis, NEW target \in Axis,
           CheckPosandnegSoftLimit(start, target), NEW a \in Axes, NEW limit
    PROVE  Beyond(target, a, limit) <= Beyond(start, a, limit)
  <1>1. PICK s \in Int, t \in Int, p \in Int, q \in Int :
          s = start[a] /\ t = target[a] /\ p = cm.pos[a] /\ q = cm.neg[a]
    BY Typed DEF Axis
  <1>2. (t > s => t <= p) /\ (t < s => t >= q)
    BY <1>1 DEF CheckPosandnegSoftLimit
  <1> QED BY <1>1, <1>2 DEF Beyond

\* What is out is out by some length.
LEMMA BeyondTyped ==
    ASSUME CoordTypeOK, NEW p \in Axis, NEW a \in Axes, NEW limit
    PROVE  Beyond(p, a, limit) \in Int /\ Beyond(p, a, limit) >= 0
  <1>1. p[a] \in Int /\ cm.pos[a] \in Int /\ cm.neg[a] \in Int
    BY Typed DEF Axis
  <1> QED BY <1>1 DEF Beyond

\* So does one that is as long as the nearest limit allows.
LEMMA AlongInside ==
    ASSUME CoordTypeOK, NEW start \in Axis, NEW to \in Axis, Moved(start, to) # {},
           NEW d, d = Smallest({Left(start, to, a) : a \in Moved(start, to)}), d > 0
    PROVE  /\ d \in Int
           /\ \A a \in Moved(start, to) : d <= Left(start, to, a)
           /\ Along(start, to, d) \in Axis
           /\ CheckPosandnegSoftLimit(start, Along(start, to, d))
  <1>1. \A a \in Axes : /\ start[a] \in Int /\ to[a] \in Int
                        /\ cm.pos[a] \in Int /\ cm.neg[a] \in Int
    BY Typed DEF Axis
  <1>2. PICK v : v = [a \in Axes |-> Left(start, to, a)]
    OBVIOUS
  <1>3. \A a \in Axes : v[a] \in Int /\ v[a] = Left(start, to, a)
    BY <1>1, <1>2 DEF Left
  <1>4. PICK A \in SUBSET Axes : A = Moved(start, to)
    BY DEF Moved
  <1>5. {Left(start, to, a) : a \in Moved(start, to)} = {v[a] : a \in A}
    BY <1>3, <1>4
  <1>6. d \in Int /\ \A a \in A : d <= v[a]
    <2>1. A # {} /\ \A a \in A : v[a] \in Int
      BY <1>3, <1>4
    <2>2. d = Smallest({v[a] : a \in A})
      BY <1>5
    <2>3. /\ Smallest({v[a] : a \in A}) \in Int
          /\ \A x \in A : Smallest({v[a] : a \in A}) <= v[x]
      BY <2>1, SmallestValue
    <2> QED BY <2>2, <2>3
  <1>7. Along(start, to, d) \in Axis
    <2>1. ASSUME NEW a \in Axes
          PROVE  start[a] + d \in Int /\ start[a] - d \in Int /\ start[a] \in Int
      BY <1>1, <1>6
    <2>2. PICK r : r = Along(start, to, d)
      OBVIOUS
    <2>3. r = [a \in Axes |-> IF to[a] > start[a] THEN start[a] + d
                             ELSE IF to[a] < start[a] THEN start[a] - d ELSE start[a]]
      BY <2>2 DEF Along
    <2>4. r \in [Axes -> Int]
      BY <2>1, <2>3
    <2> QED BY <2>2, <2>4 DEF Axis
  <1>8. ASSUME NEW a \in Axes
        PROVE  /\ Along(start, to, d)[a] > start[a] => Along(start, to, d)[a] <= cm.pos[a]
               /\ Along(start, to, d)[a] < start[a] => Along(start, to, d)[a] >= cm.neg[a]
    <2>1. CASE to[a] > start[a]
      <3>1. d <= cm.pos[a] - start[a]
        BY <1>1, <1>3, <1>4, <1>6, <2>1 DEF Moved, Left
      <3> QED BY <1>1, <1>6, <2>1, <3>1 DEF Along
    <2>2. CASE to[a] < start[a]
      <3>1. d <= start[a] - cm.neg[a]
        BY <1>1, <1>3, <1>4, <1>6, <2>2 DEF Moved, Left
      <3>2. Along(start, to, d)[a] = start[a] - d
        BY <1>1, <2>2 DEF Along
      <3> QED BY <1>1, <1>6, <3>1, <3>2
    <2>3. CASE to[a] = start[a]
      <3>1. Along(start, to, d)[a] = start[a]
        BY <1>1, <2>3 DEF Along
      <3> QED BY <1>1, <3>1
    <2> QED BY <1>1, <2>1, <2>2, <2>3
  <1> QED BY <1>3, <1>4, <1>6, <1>7, <1>8 DEF CheckPosandnegSoftLimit

\* The position after a move, in machine coordinates.
LEMMA MovedTo ==
    ASSUME CoordTypeOK, NEW p \in Axis, MoveTo(p)
    PROVE  motor_to_machine(motor') = p
  <1>1. motor' = [a \in Axes |-> p[a] + cm.global[a]]
    BY DEF MoveTo, machine_to_motor
  <1>2. \A a \in Axes : motor'[a] - cm.global[a] = p[a]
    <2> TAKE a \in Axes
    <2>1. p[a] \in Int /\ cm.global[a] \in Int
      BY Typed DEF Axis
    <2> QED BY <1>1, <2>1
  <1> QED BY <1>2 DEF motor_to_machine, Axis

\* No axis is further beyond one of its limits after the step than before.
Inside ==
    \A a \in Axes, limit \in {"pos", "neg"} :
      Beyond(motor_to_machine(motor'), a, limit) <= Beyond(motor_to_machine(motor), a, limit)

\* The moves of a program.
LEMMA LineInside ==
    ASSUME CoordTypeOK, NEW i, NEW c \in Command, Line(i, c) \/ TouchLine(i, c)
    PROVE  Inside
  <1>1. PICK start \in Axis : start = motor_to_machine(motor)
    <2>1. motor_to_machine(motor) \in Axis
      BY Typed DEF motor_to_machine, Axis
    <2> QED BY <2>1
  <1>2. i \in DOMAIN cm.offset
    BY DEF Line, TouchLine
  <1>3. PICK target \in Axis : target = Target(i, start, c)
    BY <1>2, TargetTyped
  <1>4. CASE Line(i, c)
    <2>1. CheckPosandnegSoftLimit(start, target) /\ MoveTo(target)
      BY <1>1, <1>3, <1>4 DEF Line
    <2> QED BY <1>1, <2>1, CheckedInside, MovedTo DEF Inside
  <1>5. CASE TouchLine(i, c)
    <2>1. PICK d : d = Smallest({Left(start, target, a) : a \in Moved(start, target)})
      OBVIOUS
    <2>2. Moved(start, target) # {} /\ d > 0 /\ MoveTo(Along(start, target, d))
      BY <1>1, <1>3, <1>5, <2>1 DEF TouchLine
    <2>3. PICK p \in Axis : p = Along(start, target, d) /\ CheckPosandnegSoftLimit(start, p)
      BY <2>1, <2>2, AlongInside
    <2> QED BY <1>1, <2>2, <2>3, CheckedInside, MovedTo DEF Inside
  <1> QED BY <1>4, <1>5

\* A group: every segment passed the check, wherever the group is stopped.
LEMMA GroupInside ==
    ASSUME CoordTypeOK, NEW i, NEW points \in Groups, NEW m \in 1..Len(points),
           Group(i, points, m)
    PROVE  Inside
  <1>1. PICK start \in Axis : start = motor_to_machine(motor)
    <2>1. motor_to_machine(motor) \in Axis
      BY Typed DEF motor_to_machine, Axis
    <2> QED BY <2>1
  <1>2. i \in DOMAIN cm.offset
    BY DEF Group
  <1>3. PICK n \in Nat : n = Len(points) /\ m \in 1..n
    BY GroupTyped
  <1>4. PICK segs : segs = Segments(i, start, points)
    OBVIOUS
  <1>5. Chain(segs, i, start, points, n)
    BY <1>2, <1>3, <1>4, SegmentsChain
  <1>6. /\ \A k \in 1..n : CheckPosandnegSoftLimit(segs[k - 1].start, segs[k].start)
        /\ MoveTo(GroupEnd(i, start, points, m))
    BY <1>1, <1>3, <1>4 DEF Group
  <1>7. GroupEnd(i, start, points, m) = segs[m].start
    BY <1>2, <1>3, <1>4, GroupEndSegment
  <1>8. \A k \in 0..n : segs[k].start \in Axis
    BY <1>5 DEF Chain, Segment
  <1>9. ASSUME NEW a \in Axes, NEW limit PROVE Beyond(segs[m].start, a, limit) <= Beyond(start, a, limit)
    <2> DEFINE Good == {k \in 0..n : Beyond(segs[k].start, a, limit) <= Beyond(start, a, limit)}
    <2>1. 0 \in Good
      <3>1. segs[0].start = start
        BY <1>5 DEF Chain
      <3>2. Beyond(start, a, limit) \in Int
        BY BeyondTyped
      <3> QED BY <3>1, <3>2
    <2>2. \A k \in 1..n : k - 1 \in Good => k \in Good
      <3> TAKE k \in 1..n
      <3>1. segs[k - 1].start \in Axis /\ segs[k].start \in Axis
        BY <1>8
      <3>2. Beyond(segs[k].start, a, limit) <= Beyond(segs[k - 1].start, a, limit)
        BY <1>6, <3>1, CheckedInside
      <3>3. /\ Beyond(segs[k].start, a, limit) \in Int /\ Beyond(segs[k - 1].start, a, limit) \in Int
            /\ Beyond(start, a, limit) \in Int
        BY <3>1, BeyondTyped
      <3> QED BY <3>2, <3>3
    <2>3. \A k \in 0..n : k \in Good
      <3> HIDE DEF Good
      <3> QED BY <2>1, <2>2, LoopInvariant
    <2>4. m \in 0..n
      BY <1>3
    <2> QED BY <2>3, <2>4
  <1>10. PICK p \in Axis : p = segs[m].start
    <2>1. m \in 0..n
      BY <1>3
    <2> QED BY <1>8, <2>1
  <1> QED BY <1>1, <1>6, <1>7, <1>9, <1>10, MovedTo DEF Inside

\* A move of the panel to a target.
LEMMA PointInside ==
    ASSUME CoordTypeOK, NEW c \in Command, PointMove(c), sys.index \in DOMAIN cm.offset
    PROVE  Inside
  <1>1. PICK start \in Axis : start = motor_to_machine(motor)
    <2>1. motor_to_machine(motor) \in Axis
      BY Typed DEF motor_to_machine, Axis
    <2> QED BY <2>1
  <1>2. PICK target \in Axis : target = Target(sys.index, start, c)
    BY TargetTyped
  <1>3. /\ \A a \in Axes : target[a] <= cm.pos[a] /\ target[a] >= cm.neg[a]
        /\ MoveTo(target)
    BY <1>1, <1>2 DEF PointMove, Fresh
  <1>4. CheckPosandnegSoftLimit(start, target)
    BY <1>3 DEF CheckPosandnegSoftLimit
  <1> QED BY <1>1, <1>3, <1>4, CheckedInside, MovedTo DEF Inside

\* A jog to the nearest limit, or a fine step.
LEMMA VectorInside ==
    ASSUME CoordTypeOK, NEW dir \in [Axes -> {-1, 0, 1}], NEW fine \in BOOLEAN,
           VectorMove(dir, fine), NEW a \in Axes, NEW limit
    PROVE  \/ Beyond(motor_to_machine(motor'), a, limit) <= Beyond(motor_to_machine(motor), a, limit)
           \/ FineStep /\ Beyond(motor_to_machine(motor'), a, limit) < Fine
  <1>1. PICK start \in Axis : start = motor_to_machine(motor)
    <2>1. motor_to_machine(motor) \in Axis
      BY Typed DEF motor_to_machine, Axis
    <2> QED BY <2>1
  <1>2. PICK to \in Axis : to = [x \in Axes |-> start[x] + dir[x]]
    <2>1. \A x \in Axes : start[x] + dir[x] \in Int
      BY DEF Axis
    <2> QED BY <2>1 DEF Axis
  <1>3. PICK d : d = Smallest({Left(start, to, x) : x \in Moved(start, to)})
    OBVIOUS
  <1>4. /\ Moved(start, to) # {} /\ d > 0
        /\ MoveTo(Along(start, to, IF fine THEN Fine ELSE d))
    BY <1>1, <1>2, <1>3 DEF VectorMove, Fresh
  <1>5. /\ d \in Int
        /\ \A x \in Moved(start, to) : d <= Left(start, to, x)
        /\ Along(start, to, d) \in Axis
        /\ CheckPosandnegSoftLimit(start, Along(start, to, d))
    BY <1>3, <1>4, AlongInside
  <1>6. CASE ~fine
    <2>1. PICK p \in Axis : p = Along(start, to, d)
      BY <1>5
    <2> QED BY <1>1, <1>4, <1>5, <1>6, <2>1, CheckedInside, MovedTo
  <1>7. CASE fine
    <2>1. FineStep
      BY <1>7 DEF FineStep
    <2>2. Fine \in Int /\ Fine > 0
      BY CoordinateAssumption
    <2>3. PICK p \in Axis : p = Along(start, to, Fine)
      <3>1. ASSUME NEW x \in Axes PROVE start[x] + Fine \in Int /\ start[x] - Fine \in Int /\ start[x] \in Int
        BY <2>2 DEF Axis
      <3>2. PICK r : r = Along(start, to, Fine)
        OBVIOUS
      <3>3. r = [x \in Axes |-> IF to[x] > start[x] THEN start[x] + Fine
                              ELSE IF to[x] < start[x] THEN start[x] - Fine ELSE start[x]]
        BY <3>2 DEF Along
      <3>4. r \in [Axes -> Int]
        BY <3>1, <3>3
      <3> QED BY <3>2, <3>4 DEF Axis
    <2>4. motor_to_machine(motor') = p
      BY <1>4, <1>7, <2>3, MovedTo
    <2>5. PICK s \in Int, t \in Int, l \in Int, m \in Int :
            s = start[a] /\ t = to[a] /\ l = cm.pos[a] /\ m = cm.neg[a]
      BY Typed DEF Axis
    <2>6. p[a] = IF t > s THEN s + Fine ELSE IF t < s THEN s - Fine ELSE s
      BY <2>3, <2>5 DEF Along
    <2>7. (t > s => d <= l - s) /\ (t < s => d <= s - m)
      BY <1>5, <2>5 DEF Moved, Left
    <2>8. (t > s => s < l) /\ (t < s => s > m)
      BY <1>4, <1>5, <2>5, <2>7
    <2>9. PICK q \in Int : q = p[a]
      BY DEF Axis
    <2>10. /\ Beyond(p, a, limit) = IF limit = "pos" THEN IF q > l THEN q - l ELSE 0
                                                     ELSE IF q < m THEN m - q ELSE 0
           /\ Beyond(start, a, limit) = IF limit = "pos" THEN IF s > l THEN s - l ELSE 0
                                                         ELSE IF s < m THEN m - s ELSE 0
      BY <2>5, <2>9 DEF Beyond
    <2>11. Beyond(p, a, limit) <= Beyond(start, a, limit) \/ Beyond(p, a, limit) < Fine
      <3>1. CASE t > s
        <4>1. q = s + Fine
          BY <2>6, <2>9, <3>1
        <4> QED BY <2>2, <2>5, <2>8, <2>9, <2>10, <3>1, <4>1
      <3>2. CASE t < s
        <4>1. q = s - Fine
          BY <2>5, <2>6, <2>9, <3>2
        <4> QED BY <2>2, <2>5, <2>8, <2>9, <2>10, <3>2, <4>1
      <3>3. CASE t = s
        <4>1. q = s
          BY <2>5, <2>6, <2>9, <3>3
        <4> QED BY <2>5, <2>10, <4>1
      <3> QED BY <2>5, <3>1, <3>2, <3>3
    <2> QED BY <1>1, <2>1, <2>4, <2>11
  <1> QED BY <1>6, <1>7

\* The index is one of the systems that exist.
IndexKnown == sys.index \in DOMAIN cm.offset

\* A setting of an offset and the change of the system keep it.
LEMMA OffsetIndex ==
    ASSUME CoordInv, IndexKnown, NEW i, NEW offset, set_coord_offset(i, offset)
    PROVE  IndexKnown'
  <1>1. cm' = [cm EXCEPT !.offset[i] = offset] /\ sys' = sys
    BY DEF set_coord_offset
  <1>2. DOMAIN cm'.offset = DOMAIN cm.offset
    BY <1>1 DEF CoordInv, CoordTypeOK, Config
  <1> QED BY <1>1, <1>2 DEF IndexKnown

LEMMA IndexStep == CoordInv /\ IndexKnown /\ [CoordNext]_cvars => IndexKnown'
  <1> SUFFICES ASSUME CoordInv, IndexKnown, [CoordNext]_cvars PROVE IndexKnown'
    OBVIOUS
  <1>0. cm \in Config /\ sys \in [motor : Axis, mach : Axis, index : Indexes \cup Defaults]
    BY DEF CoordInv, CoordTypeOK
  <1>1. ASSUME NEW offset, set_global_offset(offset) PROVE IndexKnown'
    <2>1. cm'.offset = cm.offset /\ sys'.index = sys.index
      BY <1>0, <1>1 DEF set_global_offset, Config
    <2> QED BY <2>1 DEF IndexKnown
  <1>2. ASSUME NEW pos, NEW neg, set_soft_limits(pos, neg) PROVE IndexKnown'
    <2>1. cm'.offset = cm.offset /\ sys' = sys
      BY <1>0, <1>2 DEF set_soft_limits, Config
    <2> QED BY <2>1 DEF IndexKnown
  <1>3. ASSUME NEW i, set_coord_index(i) PROVE IndexKnown'
    <2>1. cm' = cm /\ sys'.index = i /\ i \in DOMAIN cm.offset
      BY <1>0, <1>3 DEF set_coord_index
    <2> QED BY <2>1 DEF IndexKnown
  <1>4. CASE Setting
    BY <1>1, <1>2, <1>3, <1>4, OffsetIndex DEF Setting, SetAxisTo, SetOrigin, SetGlobalOrigin, CoordSetZero
  <1>5. CASE Moving
    <2>1. cm' = cm /\ sys' = sys
      BY <1>5 DEF Moving, Line, TouchLine, Group, PointMove, VectorMove, MoveTo
    <2> QED BY <2>1 DEF IndexKnown
  <1>6. CASE Written \/ UNCHANGED cvars
    <2>1. cm' = cm /\ sys' = sys
      BY <1>6 DEF Written, cvars
    <2> QED BY <2>1 DEF IndexKnown
  <1>7. CASE info_updated
    <2>1. cm' = cm /\ sys'.index = sys.index
      BY <1>0, <1>7 DEF info_updated, update_motor_pos
    <2> QED BY <2>1 DEF IndexKnown
  <1>8. CASE Restart
    <2>1. PICK c : Start(c)
      BY <1>8 DEF Restart
    <2>2. sys'.index \in DOMAIN c.offset /\ cm' = c
      BY <2>1 DEF Start
    <2> QED BY <2>2 DEF IndexKnown
  <1> QED BY <1>4, <1>5, <1>6, <1>7, <1>8 DEF CoordNext

LEMMA IndexStart == CoordInit => IndexKnown
  <1> SUFFICES ASSUME CoordInit PROVE IndexKnown
    OBVIOUS
  <1>1. PICK g \in [Axes -> Starts], o \in [Indexes -> [Axes -> Starts]] :
          cm = ToJson([global |-> g, offset |-> o, pos |-> [a \in Axes |-> Bound],
                       neg |-> [a \in Axes |-> -Bound]])
    BY DEF CoordInit
  <1>2. DOMAIN cm.offset = Indexes
    BY <1>1 DEF ToJson
  <1>3. sys.index \in Indexes
    BY DEF CoordInit
  <1> QED BY <1>2, <1>3 DEF IndexKnown

\* Every move, of a program, a group, the panel or the hand box, leaves each
\* axis at most as far beyond each of its two limits as it was, so that none
\* crosses to the other side; only a fine step of a jog ends less than one
\* step beyond.
THEOREM LimitsRespected == CoordSpec => LimitsHold
  <1> DEFINE Held(a, limit) ==
               \/ Beyond(motor_to_machine(motor'), a, limit) <= Beyond(motor_to_machine(motor), a, limit)
               \/ FineStep /\ Beyond(motor_to_machine(motor'), a, limit) < Fine
  <1>1. ASSUME CoordInv, IndexKnown, Moving, NEW a \in Axes, NEW limit \in {"pos", "neg"}
        PROVE  Held(a, limit)
    <2>0. CoordTypeOK
      BY <1>1 DEF CoordInv
    <2>1. ASSUME NEW i, NEW c \in Command, Line(i, c) \/ TouchLine(i, c) PROVE Inside
      BY <2>0, <2>1, LineInside
    <2>2. ASSUME NEW i, NEW points \in Groups, NEW n \in 1..Len(points), Group(i, points, n)
          PROVE  Inside
      BY <2>0, <2>2, GroupInside
    <2>3. ASSUME NEW c \in Command, PointMove(c) PROVE Inside
      BY <1>1, <2>0, <2>3, PointInside DEF IndexKnown
    <2>4. ASSUME NEW dir \in [Axes -> {-1, 0, 1}], NEW fine \in BOOLEAN, VectorMove(dir, fine)
          PROVE  Held(a, limit)
      BY <2>0, <2>4, VectorInside
    <2>5. Inside => Held(a, limit)
      BY DEF Inside
    <2> QED
      <3> HIDE DEF Held
      <3> QED BY <1>1, <2>1, <2>2, <2>3, <2>4, <2>5 DEF Moving
  <1>2. CoordNext => Moving \/ motor' = motor
    BY DEF CoordNext, Setting, set_coord_offset, set_global_offset, set_soft_limits, SetAxisTo,
           SetOrigin, SetGlobalOrigin, CoordSetZero, set_coord_index, Written, info_updated,
           Restart, Start
  <1>3. CoordInv /\ IndexKnown /\ [CoordNext]_cvars =>
          [\A a \in Axes, limit \in {"pos", "neg"} :
             LET before == Beyond(motor_to_machine(motor), a, limit)
                 after  == Beyond(motor_to_machine(motor'), a, limit)
             IN  after <= before \/ (FineStep /\ after < Fine)]_<<motor>>
    <2>1. ASSUME CoordInv, IndexKnown, [CoordNext]_cvars, motor' # motor PROVE Moving
      BY <1>2, <2>1 DEF cvars
    <2> QED BY <1>1, <2>1
  <1> QED BY <1>3, CoordStart, CoordStep, IndexStart, IndexStep, PTL DEF CoordSpec, LimitsHold

=============================================================================

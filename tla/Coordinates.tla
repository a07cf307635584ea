----------------------------- MODULE Coordinates -----------------------------
(***************************************************************************)
(* The coordinate systems (CoordinateManager, CoordinateSystem), the panels *)
(* that set them and the positions that programs and panels compute with    *)
(* them.                                                                    *)
(*                                                                         *)
(*   motor = machine + global offset = coordinate + offset + global offset  *)
(*                                                                         *)
(* Everything runs in the interface thread; only the process may end in     *)
(* the middle of a save.  Lengths are integers, finer than what the file    *)
(* keeps.  The actual positions beside the commanded ones and the cache of  *)
(* the current coordinates are displayed only and left out.                 *)
(***************************************************************************)
EXTENDS Integers, Sequences, FiniteSets

CONSTANTS Axes, FirstAxis, \* the axes, and the one with index 0
          Indexes,         \* coordinate systems of the file
          Defaults,        \* those of a new file, G54 to G59
          Values,          \* lengths an operator or a program gives
          Starts,          \* offsets and positions at the start
          None,            \* no value for an axis
          Far,             \* default limit of the first axis
          Fine,            \* the small step of a jog
          Grid,            \* resolution of the file
          Ops,             \* the operations of the run
          Bound,           \* bound: positions and offsets
          MaxPoints        \* bound: points of a group

ASSUME CoordinateAssumption ==
    /\ IsFiniteSet(Axes) /\ FirstAxis \in Axes /\ Indexes # {} /\ Defaults # {}
    /\ Values \subseteq Int /\ Starts \subseteq Int /\ None \notin Int
    /\ Far \in Nat /\ Fine \in Nat \ {0} /\ Grid \in Nat \ {0}
    /\ Bound \in Nat /\ MaxPoints \in Nat

VARIABLES cm,      \* cm_: the offsets and limits
          file,    \* the configuration file
          saving,  \* the file is open and empty
          saved,   \* the last save could open the file
          motor,   \* where the axes stand
          sys      \* curr_motor_axis_, curr_machine_axis_cache_, curr_coord_index_

cvars == <<cm, file, saving, saved, motor, sys>>

Axis   == [Axes -> Int]
Config == [global : Axis, offset : [Indexes -> Axis] \cup [Defaults -> Axis],
           pos : Axis, neg : Axis]

CoordTypeOK ==
    /\ cm \in Config /\ file \in [torn : BOOLEAN, cm : Config]
    /\ saving \in BOOLEAN /\ saved \in BOOLEAN
    /\ motor \in Axis
    /\ sys \in [motor : Axis, mach : Axis, index : Indexes \cup Defaults]

Zero == [a \in Axes |-> 0]

InBound(p) == \A a \in Axes : p[a] \in -Bound..Bound

----------------------------------------------------------------------------
(* CoordinateManager.                                                      *)

motor_to_machine(m)    == [a \in Axes |-> m[a] - cm.global[a]]
machine_to_motor(p)    == [a \in Axes |-> p[a] + cm.global[a]]
coord_to_machine(i, p) == [a \in Axes |-> p[a] + cm.offset[i][a]]
machine_to_coord(i, p) == [a \in Axes |-> p[a] - cm.offset[i][a]]
motor_to_coord(i, m)   == [a \in Axes |-> m[a] - cm.global[a] - cm.offset[i][a]]

\* What the file keeps of a length: millimetres with six digits.
Kept(v) == ((v + (Grid \div 2)) \div Grid) * Grid

KeptAxis(p) == [a \in Axes |-> Kept(p[a])]

ToJson(c) == [global |-> KeptAxis(c.global),
              offset |-> [i \in DOMAIN c.offset |-> KeptAxis(c.offset[i])],
              pos |-> KeptAxis(c.pos), neg |-> KeptAxis(c.neg)]

\* An aggregate initialiser with one value gives the others 0.
DefaultConfig == [global |-> Zero, offset |-> [i \in Defaults |-> Zero],
                  pos |-> [Zero EXCEPT ![FirstAxis] = Far],
                  neg |-> [Zero EXCEPT ![FirstAxis] = -Far]]

\* save_as: the file is truncated when it is opened; the answer is ignored.
save_as ==
    \/ file' = [torn |-> TRUE, cm |-> file.cm] /\ saving' = TRUE /\ saved' = TRUE
    \/ "NoFile" \in Ops /\ saved' = FALSE /\ UNCHANGED <<file, saving>>

Written ==
    /\ saving /\ saving' = FALSE
    /\ file' = [torn |-> FALSE, cm |-> ToJson(cm)]
    /\ UNCHANGED <<cm, saved, motor, sys>>

----------------------------------------------------------------------------
(* CoordinateSystem.                                                       *)

update_motor_pos(m) == sys' = [sys EXCEPT !.motor = m, !.mach = motor_to_machine(m)]

\* The periodic update of the position.
info_updated == ~saving /\ update_motor_pos(motor) /\ UNCHANGED <<cm, file, saving, saved, motor>>

\* By the operator or by the program; an index that does not exist is refused.
set_coord_index(i) ==
    /\ ~saving /\ i \in DOMAIN cm.offset
    /\ sys' = [sys EXCEPT !.index = i]
    /\ UNCHANGED <<cm, file, saving, saved, motor>>

set_coord_offset(i, offset) ==
    /\ ~saving /\ i \in DOMAIN cm.offset /\ InBound(offset)
    /\ cm' = [cm EXCEPT !.offset[i] = offset]
    /\ save_as
    /\ UNCHANGED <<motor, sys>>

\* Mutant: the cached machine position is left as it is.
set_global_offset_NoRefresh(offset) ==
    /\ ~saving /\ InBound(offset)
    /\ cm' = [cm EXCEPT !.global = offset]
    /\ save_as
    /\ UNCHANGED <<motor, sys>>

set_global_offset(offset) ==
    /\ ~saving /\ InBound(offset)
    /\ cm' = [cm EXCEPT !.global = offset]
    /\ save_as
    /\ sys' = [sys EXCEPT !.mach = [a \in Axes |-> sys.motor[a] - offset[a]]]
    /\ UNCHANGED motor

\* Mutant: the new limits are not saved.
set_soft_limits_NotSaved(pos, neg) ==
    /\ ~saving /\ \A a \in Axes : pos[a] >= neg[a]
    /\ cm' = [cm EXCEPT !.pos = pos, !.neg = neg]
    /\ UNCHANGED <<file, saving, saved, motor, sys>>

\* Limits that exclude each other are refused.
set_soft_limits(pos, neg) ==
    /\ ~saving /\ \A a \in Axes : pos[a] >= neg[a]
    /\ cm' = [cm EXCEPT !.pos = pos, !.neg = neg]
    /\ save_as
    /\ UNCHANGED <<motor, sys>>

\* The constructor: a file that cannot be read is replaced by the defaults.
\* Which system is first in the map is open.
Start(c) ==
    /\ cm' = c /\ motor' = motor /\ saving' = FALSE /\ saved' = TRUE
    /\ file' = [torn |-> FALSE, cm |-> ToJson(c)]
    /\ \E i \in DOMAIN c.offset :
         sys' = [motor |-> Zero, mach |-> [a \in Axes |-> 0 - c.global[a]], index |-> i]

\* The process ends, in a save too, and is started again.
Restart == "Restart" \in Ops /\ Start(IF file.torn THEN DefaultConfig ELSE file.cm)

----------------------------------------------------------------------------
(* The panel of the offsets.                                               *)

\* One axis of a system is to read v; the button "zero" is the case v = 0.
SetAxisTo(i, a, v) ==
    /\ i \in DOMAIN cm.offset
    /\ set_coord_offset(i, [cm.offset[i] EXCEPT ![a] = sys.mach[a] - v])

\* The current point becomes the origin of a system or of the machine.
SetOrigin(i)    == set_coord_offset(i, sys.mach)
SetGlobalOrigin == set_global_offset(sys.motor)

\* coord_set_zero of a program: the axes named, in the current system.  The
\* runner reads the position from the motion thread.
CoordSetZero(axes) ==
    set_coord_offset(sys.index,
        [a \in Axes |-> IF a \in axes THEN motor[a] ELSE cm.offset[sys.index][a]])

----------------------------------------------------------------------------
(* Moves.  A program reads the position from the motion thread, the panel  *)
(* the one of the last update: it starts no move before the end of the     *)
(* last one has been seen.                                                 *)

Fresh == ~saving /\ sys.motor = motor

Command == [mode : {"Increment", "Absolute", "Machine"}, cmd : [Axes -> Values \cup {None}]]

\* The machine position a command of system i leads to.
Target(i, start, c) ==
    LET from == IF c.mode = "Absolute" THEN machine_to_coord(i, start) ELSE start
        to   == [a \in Axes |-> IF c.cmd[a] = None THEN from[a]
                                ELSE IF c.mode = "Increment" THEN from[a] + c.cmd[a]
                                ELSE c.cmd[a]]
    IN  IF c.mode = "Absolute" THEN coord_to_machine(i, to) ELSE to

\* Mutant: only the positive limit is compared.
CheckPosandnegSoftLimit_OneSide(start, target) ==
    \A a \in Axes : target[a] > start[a] => target[a] <= cm.pos[a]

CheckPosandnegSoftLimit(start, target) ==
    \A a \in Axes : /\ target[a] > start[a] => target[a] <= cm.pos[a]
                    /\ target[a] < start[a] => target[a] >= cm.neg[a]

\* The axes come to stand at a machine position.
MoveTo(p) ==
    /\ motor' = machine_to_motor(p) /\ InBound(motor')
    /\ UNCHANGED <<cm, file, saving, saved, sys>>

\* G00 and G01; a move that is refused or has no length ends at once.
Line(i, c) ==
    /\ ~saving /\ i \in DOMAIN cm.offset /\ c.mode # "Machine"
    /\ LET start  == motor_to_machine(motor)
           target == Target(i, start, c)
       IN  start # target /\ CheckPosandnegSoftLimit(start, target) /\ MoveTo(target)

Smallest(S) == CHOOSE x \in S : \A y \in S : x <= y
Dist(x, y)  == IF x < y THEN y - x ELSE x - y

\* How far axis a may go towards a target, negative if it is out already.
Left(start, target, a) ==
    IF target[a] > start[a] THEN cm.pos[a] - start[a] ELSE start[a] - cm.neg[a]

\* The point at a distance along each axis on which the target lies elsewhere.
Along(start, target, d) ==
    [a \in Axes |-> IF target[a] > start[a] THEN start[a] + d
                    ELSE IF target[a] < start[a] THEN start[a] - d ELSE start[a]]

Moved(start, target) == {a \in Axes : target[a] # start[a]}

\* A touch move beyond a limit is shortened along its direction.  Here it
\* goes along an axis or a diagonal, so that it ends on an integer.
TouchLine(i, c) ==
    /\ ~saving /\ i \in DOMAIN cm.offset /\ c.mode # "Machine"
    /\ LET start  == motor_to_machine(motor)
           target == Target(i, start, c)
           axes   == Moved(start, target)
           d      == Smallest({Left(start, target, a) : a \in axes})
       IN  /\ axes # {} /\ ~CheckPosandnegSoftLimit(start, target)
           /\ \A a, b \in axes : Dist(start[a], target[a]) = Dist(start[b], target[b])
           /\ d > 0 /\ MoveTo(Along(start, target, d))

\* Mutant: every point is seen from the start of the group.
Segments_StartKept(i, start, points) ==
    LET f[k \in 0..Len(points)] ==
          IF k = 0 THEN [start |-> start, inc |-> Zero]
          ELSE LET t == Target(i, start, points[k])
               IN  [start |-> t, inc |-> [a \in Axes |-> t[a] - start[a]]]
    IN  f

\* A group: every point from the end of the one before, as increments.
Segments(i, start, points) ==
    LET f[k \in 0..Len(points)] ==
          IF k = 0 THEN [start |-> start, inc |-> Zero]
          ELSE LET s == f[k - 1].start
                   t == Target(i, s, points[k])
               IN  [start |-> t, inc |-> [a \in Axes |-> t[a] - s[a]]]
    IN  f

\* Where the axes stand after the first n increments.
GroupEnd(i, start, points, n) ==
    LET segs == Segments(i, start, points)
        at[k \in 0..Len(points)] ==
          IF k = 0 THEN start ELSE [a \in Axes |-> at[k - 1][a] + segs[k].inc[a]]
    IN  at[n]

\* It runs to its end or is stopped after n points.
Group(i, points, n) ==
    /\ ~saving /\ i \in DOMAIN cm.offset
    /\ LET start == motor_to_machine(motor)
           segs  == Segments(i, start, points)
       IN  /\ \A k \in 1..Len(points) :
                CheckPosandnegSoftLimit(segs[k - 1].start, segs[k].start)
           /\ MoveTo(GroupEnd(i, start, points, n))

\* The move panel with a target: both limits of every axis.
PointMove(c) ==
    /\ Fresh
    /\ LET start  == motor_to_machine(sys.motor)
           target == Target(sys.index, start, c)
       IN  /\ start # target
           /\ \A a \in Axes : target[a] <= cm.pos[a] /\ target[a] >= cm.neg[a]
           /\ MoveTo(target)

\* The move panel and the hand box: towards the nearest limit, or a fine step
\* that looks only whether the limit is already reached.
VectorMove(dir, fine) ==
    /\ Fresh
    /\ LET start == motor_to_machine(sys.motor)
           to    == [a \in Axes |-> start[a] + dir[a]]
           axes  == Moved(start, to)
           d     == Smallest({Left(start, to, a) : a \in axes})
       IN  /\ axes # {} /\ d > 0
           /\ MoveTo(Along(start, to, IF fine THEN Fine ELSE d))

----------------------------------------------------------------------------
Given == [Axes -> Values]

CoordInit ==
    /\ \E g \in [Axes -> Starts], o \in [Indexes -> [Axes -> Starts]] :
         cm = ToJson([global |-> g, offset |-> o, pos |-> [a \in Axes |-> Bound],
                      neg |-> [a \in Axes |-> -Bound]])
    /\ file = [torn |-> FALSE, cm |-> cm]
    /\ saving = FALSE /\ saved = TRUE
    /\ motor \in [Axes -> Starts]
    /\ \E i \in Indexes : sys = [motor |-> Zero, mach |-> motor_to_machine(Zero), index |-> i]

Setting ==
    \/ "Offset" \in Ops /\ \E i \in DOMAIN cm.offset, offset \in Given : set_coord_offset(i, offset)
    \/ "Global" \in Ops /\ \E offset \in Given : set_global_offset(offset)
    \/ "Limits" \in Ops /\ \E pos, neg \in Given : set_soft_limits(pos, neg)
    \/ "Axis" \in Ops /\ \E i \in DOMAIN cm.offset, a \in Axes, v \in Values : SetAxisTo(i, a, v)
    \/ "Origin" \in Ops /\ ((\E i \in DOMAIN cm.offset : SetOrigin(i)) \/ SetGlobalOrigin)
    \/ "SetZero" \in Ops /\ \E axes \in SUBSET Axes : CoordSetZero(axes)
    \/ \E i \in DOMAIN cm.offset : set_coord_index(i)

Groups == UNION {[1..n -> {c \in Command : c.mode # "Machine"}] : n \in 1..MaxPoints}

Moving ==
    \/ "Line" \in Ops /\ \E i \in DOMAIN cm.offset, c \in Command : Line(i, c) \/ TouchLine(i, c)
    \/ "Group" \in Ops /\ \E i \in DOMAIN cm.offset, points \in Groups :
                            \E n \in 1..Len(points) : Group(i, points, n)
    \/ "Panel" \in Ops /\ \E c \in Command : PointMove(c)
    \/ "Jog" \in Ops /\ \E dir \in [Axes -> {-1, 0, 1}], fine \in BOOLEAN : VectorMove(dir, fine)

CoordNext == Setting \/ Moving \/ Written \/ info_updated \/ Restart

CoordSpec == CoordInit /\ [][CoordNext]_cvars

----------------------------------------------------------------------------
\* The machine position that the buttons of the panel use is the one of the
\* present position and the present global offset (_update_machine_axis_cache
\* is called by the two operations that change one of them).
MachineCacheFresh == sys.mach = motor_to_machine(sys.motor)

\* After an axis of a system has been set to a value, or the origin set, the
\* axis reads that value at the position the operator saw.  The panel computes
\* the new offset from a cached machine position, which a change of the global
\* offset must have refreshed.
SetMeansRead ==
    [][/\ \A i \in DOMAIN cm.offset, a \in Axes, v \in Values :
            SetAxisTo(i, a, v) => motor_to_coord(i, sys.motor)'[a] = v
       /\ \A i \in DOMAIN cm.offset :
            SetOrigin(i) => motor_to_coord(i, sys.motor)' = Zero]_cvars

\* coord_set_zero makes the named axes of the current system read zero.
SetZeroReadsZero ==
    [][\A axes \in SUBSET Axes :
         CoordSetZero(axes) => \A a \in axes : motor_to_coord(sys.index, motor)'[a] = 0]_cvars

\* A restart finds every offset and limit that was set before it, up to the
\* resolution of the file and however often it happens, unless the process
\* ended inside a save or the file could not be opened.
RestartKeeps == [][Restart /\ ~file.torn /\ saved => cm' = ToJson(cm)]_cvars

\* How far axis a of a machine position is beyond one of its two limits.
Beyond(p, a, limit) ==
    LET d == IF limit = "pos" THEN p[a] - cm.pos[a] ELSE cm.neg[a] - p[a]
    IN  IF d > 0 THEN d ELSE 0

FineStep == \E dir \in [Axes -> {-1, 0, 1}] : VectorMove(dir, TRUE)

\* No move, of a program, a group or a panel, takes an axis beyond a limit or
\* further beyond one.  The limits are looked at one by one: an axis that is
\* outside may come back, but not cross to the other side.  Only the fine step
\* of a jog, which replaces the target that was computed from the limits, may
\* end less than a step beyond.
LimitsHold ==
    [][\A a \in Axes, limit \in {"pos", "neg"} :
         LET before == Beyond(motor_to_machine(motor), a, limit)
             after  == Beyond(motor_to_machine(motor'), a, limit)
         IN  after <= before \/ (FineStep /\ after < Fine)]_<<motor>>

\* Where axis a of system i reads after the first n points of a group: the
\* last absolute value of the axis and the increments after it.
ReadsAfter(i, points, n, a) ==
    LET r[k \in 0..n] ==
          IF k = 0 THEN motor_to_coord(i, motor)[a]
          ELSE IF points[k].cmd[a] = None THEN r[k - 1]
          ELSE IF points[k].mode = "Increment" THEN r[k - 1] + points[k].cmd[a]
          ELSE points[k].cmd[a]
    IN  r[n]

\* A group of lines, sent as increments, reads what its points say wherever
\* it is stopped, with the two modes mixed and axes left out.
GroupAsWritten ==
    \A i \in DOMAIN cm.offset, points \in Groups : \A n \in 1..Len(points), a \in Axes :
      motor_to_coord(i, machine_to_motor(
          GroupEnd(i, motor_to_machine(motor), points, n)))[a] = ReadsAfter(i, points, n, a)

=============================================================================

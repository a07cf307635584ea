----------------------- MODULE MotionPositionTheorems -----------------------
(***************************************************************************)
(* Where the axis is commanded to.  Four objects write the one commanded   *)
(* position: the manual move, the task, its jump, and the pause-move       *)
(* controller.  Each goes on from its own remembered position, so each     *)
(* has to stand where the axis stands whenever its turn comes.  The        *)
(* inductive invariant PosInv says so phase by phase; from it follow that  *)
(* the task holds the axis, that the way back is kept, that the axis never *)
(* jumps, and that a latched contact holds it.                             *)
(***************************************************************************)
EXTENDS MotionTheorems

\* A line and the points of its jump lie on the segment; a jump in progress
\* runs to its target, up first and then down to the start of the buffer.
OnLine(t) ==
    /\ {t.pos, t.before, t.down} \subseteq Between(t.start, t.end)
    /\ Jumping(t) =>
         /\ t.jump.st = "Running" /\ t.jump.goal = t.jump.target
         /\ (t.jump.target = t.down) <=> (t.servo = "JumpDowning")

LineKept == task.kind = "G01" => OnLine(task)

\* The task commands the axis from where it stands.
TaskAtAxis == Moves(task) => cmd_axis = TaskPos(task)

\* In a pause the recorded moves, and the move being made, lead from the task
\* to the axis.
ManualInPause ==
    \/ pmc_state = "AllowManualPointMove" /\ Recorded(cmd_axis)
    \/ /\ pmc_state = "ManualPointMoving"
       /\ Recorded(pmc_pm.start) /\ pmc_pm.curr = cmd_axis

\* One recorded move is being undone, or the undoing is paused; the others
\* lead from the task to where it ends.
Undoing ==
    /\ pmc_pm.curr = cmd_axis
    /\ Recorded(pmc_pm.target)
    /\ \/ /\ state = "NormalMoving" /\ pmc_state = "Recovering"
          /\ \/ pmc_pm.st = "Running" /\ pmc_pm.goal = pmc_pm.target
             \/ pmc_pm.st = "Stopped" /\ pmc_pm.curr = pmc_pm.target
       \/ /\ state = "Pausing" /\ pmc_state = "RecoveringPausing"
          /\ pmc_pm.st \in {"Pausing", "Paused"}
       \/ /\ state = "Paused" /\ pmc_state = "RecoveringPaused"
          /\ pmc_pm.st = "Paused"

\* Every recorded move is undone.
Undone ==
    /\ state = "NormalMoving" /\ pmc_state = "RecorverOver"
    /\ axis_recorder = <<>> /\ Recorded(cmd_axis)

\* The way back is left by a stop.
Leaving ==
    /\ state = "Stopping"
    /\ \/ pmc_state = "OutSideStopping" /\ pmc_pm.curr = cmd_axis
       \/ pmc_state = "OutSideOrErrorStopped"

\* The phases of an auto task.
TaskPhase ==
    /\ ~Recovery
    /\ \/ state \in {"NormalMoving", "Pausing", "Resuming", "Stopping"} /\ TaskAtAxis
       \/ state = "Paused" /\ ManualInPause
       \/ state = "Stopped"

RecoveryPhase == Recovery /\ (Undoing \/ Undone \/ Leaving)

ManualKept == main_mode = "Manual" => pm.curr = cmd_axis

AutoKept == main_mode = "Auto" => TaskPhase \/ RecoveryPhase

\* The inductive invariant of the commanded position.
PosInv == LineKept /\ ManualKept /\ AutoKept

\* What a step of the machine may do to the commanded position.
ShortStep == Abs(cmd_axis' - cmd_axis) <= MaxStep

\* Points of the axis are integers, and standing still is a short step.
LEMMA PosFacts ==
    /\ Pos \subseteq Int /\ MaxStep \in Nat /\ MaxStep > 0
    /\ \A x \in Pos : Abs(x - x) <= MaxStep
BY PointMoveAssumption DEF Pos, Abs

----------------------------------------------------------------------------
(* Point moves.                                                            *)

\* pause, resume and stop leave a move where it stands, with its ends.
LEMMA PmCallKeeps ==
    ASSUME NEW p \in PointMoves, NEW immediate \in BOOLEAN,
           NEW r \in PmPause(p) \cup {PmResume(p)} \cup PmStop(p, immediate)
    PROVE  r.pm.curr = p.curr /\ r.pm.start = p.start /\ r.pm.target = p.target
<1>1. ASSUME NEW st, r \in PmDecelerate(p, st)
      PROVE  r.pm.curr = p.curr /\ r.pm.start = p.start /\ r.pm.target = p.target
  <2>1. PICK g \in Between(p.curr, p.target) :
          r = PmResult(TRUE, [p EXCEPT !.st = st, !.goal = g, !.moving = FALSE])
      BY <1>1 DEF PmDecelerate
  <2> QED BY <2>1 DEF PmResult, PointMoves
<1>2. CASE r \in PmPause(p)
    BY <1>1, <1>2 DEF PmPause, PmResult, PointMoves
<1>3. CASE r = PmResume(p)
    BY <1>3 DEF PmResume, PmResult, PointMoves
<1>4. CASE r \in PmStop(p, immediate)
    BY <1>1, <1>4 DEF PmStop, PmResult, PointMoves
<1> QED BY <1>2, <1>3, <1>4

\* A pause that is granted leaves a move that pauses; one that is refused
\* leaves the move alone.
LEMMA PmPauseAnswers ==
    ASSUME NEW p \in PointMoves, NEW r \in PmPause(p)
    PROVE  \/ r.ok = TRUE /\ r.pm.st \in {"Pausing", "Paused"}
           \/ r.ok = FALSE /\ r.pm = p
<1>1. CASE p.st \in {"Pausing", "Paused"}
    BY <1>1 DEF PmPause, PmResult
<1>2. CASE p.st = "Running" /\ PmAtRest(p)
    BY <1>2 DEF PmPause, PmResult, PointMoves
<1>3. CASE p.st = "Running" /\ ~PmAtRest(p)
  <2>1. PICK g \in Between(p.curr, p.target) :
          r = PmResult(TRUE, [p EXCEPT !.st = "Pausing", !.goal = g, !.moving = FALSE])
      BY <1>3 DEF PmPause, PmDecelerate
  <2> QED BY <2>1 DEF PmResult, PointMoves
<1>4. CASE p.st \notin {"Pausing", "Paused", "Running"}
    BY <1>4 DEF PmPause, PmResult
<1> QED BY <1>1, <1>2, <1>3, <1>4

\* A control cycle covers at most MaxStep, ends a plan only at its goal, and
\* keeps the ends of the move.
LEMMA PmCycle ==
    ASSUME NEW p \in PointMoves, NEW q \in PmRunOnce(p)
    PROVE  /\ q \in PointMoves
           /\ q.start = p.start /\ q.target = p.target /\ q.goal = p.goal
           /\ Abs(q.curr - p.curr) <= MaxStep
           /\ p.st \in {"NotStarted", "Stopped", "Paused"} => q = p
           /\ q.st # p.st => /\ p.st \in {"Running", "Pausing", "Stopping"}
                             /\ q.st = IF p.st = "Pausing" THEN "Paused" ELSE "Stopped"
                             /\ p.curr = p.goal /\ q.curr = p.curr
<1>0. q \in PointMoves
    BY PmRunOnceType
<1>1. CASE p.st \notin {"Running", "Pausing", "Stopping"}
    BY <1>0, <1>1, PosFacts DEF PmRunOnce, PointMoves
<1>2. CASE p.st \in {"Running", "Pausing", "Stopping"} /\ p.curr = p.goal
    BY <1>0, <1>2, PosFacts DEF PmRunOnce, PointMoves
<1>3. CASE p.st \in {"Running", "Pausing", "Stopping"} /\ p.curr # p.goal
  <2>1. PICK c \in Toward(p.curr, p.goal) : q = [p EXCEPT !.curr = c, !.moving = TRUE]
      BY <1>3 DEF PmRunOnce
  <2>2. Abs(c - p.curr) <= MaxStep
      BY DEF Toward
  <2> QED BY <1>0, <1>3, <2>1, <2>2 DEF PointMoves
<1> QED BY <1>1, <1>2, <1>3

\* A move that starts stands at its start.
LEMMA PmStarted ==
    ASSUME NEW p \in PointMoves, NEW from \in Pos, NEW to \in Pos
    PROVE  /\ PmStart(p, from, to).pm.curr = from
           /\ PmStart(p, from, to).pm.start = from
           /\ PmStart(p, from, to).pm.target = to
           /\ PmStart(p, from, to).ok <=> from # to
           /\ from # to => /\ PmStart(p, from, to).pm.st = "Running"
                           /\ PmStart(p, from, to).pm.goal = to
<1>1. CASE from = to
    BY <1>1 DEF PmStart, PmResult, PointMoves
<1>2. CASE from # to
    BY <1>2 DEF PmStart, PmResult, PointMoves
<1> QED BY <1>1, <1>2

----------------------------------------------------------------------------
(* The recorded moves.                                                     *)

\* Recording a move from the end of the path continues it.
LEMMA PathAppend ==
    ASSUME NEW s \in Seq(AxisRecord), NEW a \in Pos, NEW b \in Pos, a # b, Path(s, a)
    PROVE  LET recs == Append(s, [start |-> a, stop |-> b])
           IN  Path(recs, b) /\ Origin(recs, b) = Origin(s, a)
<1> DEFINE rec == [start |-> a, stop |-> b]
           recs == Append(s, rec)
<1>1. /\ Len(recs) = Len(s) + 1 /\ Len(s) \in Nat
      /\ \A i \in 1..Len(s) : recs[i] = s[i]
      /\ recs[Len(s) + 1] = rec /\ recs # <<>>
    OBVIOUS
<1>2. Path(recs, b)
  <2> HIDE DEF recs
  <2>1. ASSUME NEW i \in 1..Len(recs), i = Len(s) + 1
        PROVE  recs[i].stop = b /\ i = Len(recs) /\ recs[i].start # recs[i].stop
      BY <1>1, <2>1
  <2>2. ASSUME NEW i \in 1..Len(recs), i # Len(s) + 1
        PROVE  recs[i].stop = recs[i + 1].start /\ i # Len(recs)
                 /\ recs[i].start # recs[i].stop
    <3>1. i \in 1..Len(s)
        BY <1>1, <2>2
    <3>2. CASE i = Len(s)
        BY <1>1, <3>1, <3>2 DEF Path
    <3>3. CASE i # Len(s)
      <4>1. i + 1 \in 1..Len(s)
          BY <1>1, <3>1, <3>3
      <4> QED BY <1>1, <3>1, <3>3, <4>1 DEF Path
    <3> QED BY <3>2, <3>3
  <2> QED BY <2>1, <2>2 DEF Path
<1>3. Origin(recs, b) = Origin(s, a)
  <2> HIDE DEF recs
  <2>1. CASE s = <<>>
      BY <1>1, <2>1 DEF Origin
  <2>2. CASE s # <<>>
    <3>1. 1 \in 1..Len(s)
        BY <2>2
    <3> QED BY <1>1, <2>2, <3>1 DEF Origin
  <2> QED BY <2>1, <2>2
<1> QED BY <1>2, <1>3

\* The last recorded move ends where the path ends; without it the path ends
\* where that move started.
LEMMA PathPop ==
    ASSUME NEW s \in Seq(AxisRecord), s # <<>>, NEW a, Path(s, a)
    PROVE  /\ Top(s) \in AxisRecord /\ Pop(s) \in Seq(AxisRecord)
           /\ Top(s).stop = a /\ Top(s).start # a
           /\ Path(Pop(s), Top(s).start)
           /\ Origin(Pop(s), Top(s).start) = Origin(s, a)
<1> DEFINE n == Len(s)
           rest == Pop(s)
<1>0. n \in Nat \ {0} /\ n \in 1..n
    OBVIOUS
<1>1. /\ Len(rest) = n - 1 /\ rest \in Seq(AxisRecord)
      /\ \A i \in 1..(n - 1) : rest[i] = s[i]
      /\ n = 1 => rest = <<>>
      /\ n # 1 => rest # <<>>
  <2>1. /\ rest \in Seq(AxisRecord) /\ Len(rest) = n - 1
        /\ \A i \in 1..(n - 1) : rest[i] = s[i]
    <3>1. /\ \A i \in 1..(n - 1) : s[i] \in AxisRecord
          /\ n - 1 \in Int /\ 1 \in Int
        OBVIOUS
    <3>2. rest = SubSeq(s, 1, n - 1)
        BY DEF Pop
    <3> HIDE DEF n, rest
    <3>3. /\ rest \in Seq(AxisRecord)
          /\ Len(rest) = IF 1 <= n - 1 THEN (n - 1) - 1 + 1 ELSE 0
          /\ \A i \in 1..((n - 1) - 1 + 1) : rest[i] = s[1 + i - 1]
        BY <3>1, <3>2, SubSeqProperties
    <3>4. (n - 1) - 1 + 1 = n - 1 /\ \A i \in 1..(n - 1) : 1 + i - 1 = i
        BY <1>0
    <3> QED BY <1>0, <3>3, <3>4
  <2> HIDE DEF rest
  <2> QED BY <1>0, <2>1
<1>2. Top(s) = s[n] /\ s[n] \in AxisRecord /\ s[n].stop = a /\ s[n].start # a
    BY <1>0 DEF Top, Path
<1>3. Path(rest, s[n].start)
  <2> HIDE DEF rest
  <2>1. ASSUME NEW i \in 1..(n - 1)
        PROVE  /\ rest[i].stop = IF i = n - 1 THEN s[n].start ELSE rest[i + 1].start
               /\ rest[i].start # rest[i].stop
    <3>1. i \in 1..n /\ i # n
        BY <1>0
    <3>2. s[i].stop = s[i + 1].start /\ s[i].start # s[i].stop
        BY <3>1 DEF Path
    <3>3. i # n - 1 => i + 1 \in 1..(n - 1)
        BY <1>0
    <3> QED BY <1>0, <1>1, <3>2, <3>3
  <2> QED BY <1>1, <2>1 DEF Path
<1>4. Origin(rest, s[n].start) = Origin(s, a)
  <2> HIDE DEF rest
  <2>1. CASE n = 1
      BY <1>1, <2>1 DEF Origin
  <2>2. CASE n # 1
    <3>1. 1 \in 1..(n - 1) /\ s # <<>>
      <4> HIDE DEF n
      <4> QED BY <1>0, <2>2
    <3> QED BY <1>1, <2>2, <3>1 DEF Origin
  <2> QED BY <2>1, <2>2
<1> QED BY <1>1, <1>2, <1>3, <1>4

----------------------------------------------------------------------------
(* The tasks.                                                              *)

\* pause, resume and stop move nothing: the position a task commands and the
\* points of its line stay.
LEMMA CallKeepsPos ==
    ASSUME NEW t \in RealTasks, NEW immediate \in BOOLEAN,
           NEW r \in TaskPause(t) \cup TaskResume(t) \cup TaskStop(t, immediate)
    PROVE  /\ r.task.kind = t.kind
           /\ Moves(r.task) <=> Moves(t)
           /\ Moves(t) => TaskPos(r.task) = TaskPos(t)
           /\ t.kind = "G01" /\ OnLine(t) => OnLine(r.task)
<1>0. r.task.kind = t.kind /\ (Moves(r.task) <=> Moves(t))
    BY CallKeepsKind DEF Moves
<1>1. CASE t.kind = "G00" /\ t \in G00Tasks
  <2>0. t.pm \in PointMoves
      BY <1>1 DEF G00Tasks
  <2>1. PICK q \in PmPause(t.pm) \cup {PmResume(t.pm)} \cup PmStop(t.pm, immediate) :
          r = TaskResult(q.ok, [t EXCEPT !.pm = q.pm])
      BY <1>1 DEF TaskPause, TaskResume, TaskStop, G00Call
  <2>2. q.pm.curr = t.pm.curr
      BY <2>0, <2>1, PmCallKeeps
  <2> QED BY <1>0, <1>1, <2>1, <2>2 DEF TaskResult, G00Tasks, TaskPos
<1>2. CASE t.kind = "G01" /\ t \in G01Tasks
  <2>1. r \in {G01Pause(t), G01Resume(t), G01Stop(t)}
      BY <1>2 DEF TaskPause, TaskResume, TaskStop
  <2>2. \E st, sub : r.task = [t EXCEPT !.st = st, !.sub = sub]
    <3>1. t = [t EXCEPT !.st = t.st, !.sub = t.sub]
        BY <1>2 DEF G01Tasks
    <3>2. \A st : [t EXCEPT !.st = st] = [t EXCEPT !.st = st, !.sub = t.sub]
        BY <1>2 DEF G01Tasks
    <3>3. CASE r = G01Pause(t)
        BY <3>1, <3>3 DEF G01Pause, TaskResult
    <3>4. CASE r = G01Resume(t)
        BY <3>1, <3>2, <3>4 DEF G01Resume, Goto, TaskResult
    <3>5. CASE r = G01Stop(t)
        BY <3>1, <3>2, <3>5 DEF G01Stop, Goto, TaskResult
    <3> QED BY <2>1, <3>3, <3>4, <3>5
  <2>3. /\ r.task.pos = t.pos /\ r.task.before = t.before /\ r.task.down = t.down
        /\ r.task.start = t.start /\ r.task.end = t.end
        /\ r.task.jump = t.jump /\ r.task.servo = t.servo
      BY <1>2, <2>2 DEF G01Tasks
  <2> QED BY <1>0, <1>2, <2>3 DEF TaskPos, OnLine, Jumping
<1>3. CASE t.kind = "G01Group" /\ t \in GroupTasks
  <2>1. r.task.pos = t.pos
    <3>1. \A st : [t EXCEPT !.st = st].pos = t.pos
        BY <1>3 DEF GroupTasks
    <3>2. r \in {GroupPause(t), G01Resume(t), GroupStop(t)}
        BY <1>3 DEF TaskPause, TaskResume, TaskStop
    <3>3. CASE r = GroupPause(t)
        BY <3>1, <3>3 DEF GroupPause, Goto, TaskResult
    <3>4. CASE r = G01Resume(t)
        BY <3>1, <3>4 DEF G01Resume, Goto, TaskResult
    <3>5. CASE r = GroupStop(t)
        BY <3>1, <3>5 DEF GroupStop, Goto, TaskResult
    <3> QED BY <3>2, <3>3, <3>4, <3>5
  <2> QED BY <1>0, <1>3, <2>1 DEF TaskPos
<1>4. CASE t.kind \in {"G04", "M00"}
    BY <1>0, <1>4 DEF Moves
<1> QED BY <1>1, <1>2, <1>3, <1>4, RealTaskKinds

\* A fed line stays on its segment and goes at most as far as it is told.
LEMMA FedStep ==
    ASSUME NEW t \in G01Tasks, NEW d \in Int, t.pos \in Between(t.start, t.end)
    PROVE  Fed(t, d) \in Between(t.start, t.end) /\ Abs(Fed(t, d) - t.pos) <= Abs(d)
<1>1. /\ t.pos \in Int /\ t.start \in Int /\ t.end \in Int
      /\ t.start \in Pos /\ t.end \in Pos
    BY PosFacts DEF G01Tasks
<1>2. \A x \in Int : x \in Pos <=> 0 <= x /\ x <= MaxPos
    BY PointMoveAssumption DEF Pos
<1>3. MaxPos \in Int
    BY PointMoveAssumption
<1> QED BY <1>1, <1>2, <1>3 DEF Fed, Between, Abs

\* What a control cycle of the task leaves: the line is kept, the axis stands
\* where the task does, and it has got there in one step.
TaskStep == LineKept' /\ TaskAtAxis' /\ ShortStep

\* The cycles that feed a line from point to point.
LEMMA FeedStep ==
    ASSUME CycleTypeOK, task \in G01Tasks, task'.kind = "G01",
           task'.start = task.start, task'.end = task.end,
           task'.before = task.before, task'.down = task.down,
           ~Jumping(task'), LineKept,
           task'.pos \in Between(task.start, task.end),
           cmd_axis' = task'.pos, Abs(task'.pos - cmd_axis) <= MaxStep
    PROVE  TaskStep
<1>1. task.kind = "G01"
    BY DEF G01Tasks
<1> QED BY <1>1 DEF TaskStep, LineKept, OnLine, TaskAtAxis, TaskPos, ShortStep, Moves

\* The points of a line and the distances between them.
LEMMA LineFacts ==
    ASSUME CycleTypeOK, task \in G01Tasks, LineKept, TaskAtAxis
    PROVE  /\ task.kind = "G01" /\ OnLine(task) /\ cmd_axis = TaskPos(task)
           /\ task.pos \in Pos /\ task.before \in Pos /\ task.down \in Pos
           /\ task.start \in Pos /\ task.end \in Pos
           /\ task.jump \in PointMoves /\ cmd_axis \in Pos
           /\ task.jump.curr \in Pos /\ task.jump.target \in Pos
BY DEF CycleTypeOK, G01Tasks, LineKept, TaskAtAxis, Moves, PointMoves

\* A jump starts where the line is.
LEMMA StartJumpStep ==
    ASSUME CycleTypeOK, task \in G01Tasks, LineKept, TaskAtAxis,
           task.servo = "Servoing", G01StartJump
    PROVE  TaskStep
<1>1. PICK up \in Pos : \E down \in Between(task.start, task.pos) :
          /\ up # task.pos
          /\ Abs(task.pos - down) < Abs(task.pos - up)
          /\ task' = [task EXCEPT !.servo = "JumpUping", !.before = task.pos,
                        !.down = down, !.jump = PmStart(task.jump, task.pos, up).pm]
          /\ cmd_axis' = cmd_axis
    BY DEF G01StartJump
<1>2. PICK down \in Between(task.start, task.pos) :
          /\ up # task.pos
          /\ Abs(task.pos - down) < Abs(task.pos - up)
          /\ task' = [task EXCEPT !.servo = "JumpUping", !.before = task.pos,
                        !.down = down, !.jump = PmStart(task.jump, task.pos, up).pm]
          /\ cmd_axis' = cmd_axis
    BY <1>1
<1> DEFINE jump == PmStart(task.jump, task.pos, up).pm
<1>3. /\ jump.curr = task.pos /\ jump.target = up /\ jump.goal = up
      /\ jump.st = "Running"
    BY <1>2, LineFacts, PmStarted
<1> HIDE DEF jump
<1>4. /\ task'.kind = "G01" /\ task'.servo = "JumpUping" /\ task'.pos = task.pos
      /\ task'.before = task.pos /\ task'.down = down /\ task'.jump = jump
      /\ task'.start = task.start /\ task'.end = task.end
    BY <1>2, LineFacts DEF G01Tasks, jump
<1>5. down \in Between(task.start, task.end) /\ up # down
  <2>1. task.pos \in Between(task.start, task.end)
      BY LineFacts DEF OnLine
  <2>2. down \in Int /\ up \in Int /\ task.pos \in Int /\ task.start \in Int /\ task.end \in Int
      BY PosFacts, LineFacts, BetweenPos
  <2> QED BY <1>2, <2>1, <2>2 DEF Between, Abs
<1>6. cmd_axis = task.pos
    BY LineFacts DEF TaskPos, Jumping
<1>7. ShortStep
    BY <1>2, LineFacts, PosFacts DEF ShortStep
<1> QED BY <1>2, <1>3, <1>4, <1>5, <1>6, <1>7, LineFacts
        DEF TaskStep, LineKept, OnLine, TaskAtAxis, TaskPos, Jumping, Moves

\* Up, down, and the buffer after it.
LEMMA JumpStep ==
    ASSUME CycleTypeOK, task \in G01Tasks, LineKept, TaskAtAxis, G01Jump
    PROVE  TaskStep
<1>0. /\ task.jump \in PointMoves /\ OnLine(task)
      /\ cmd_axis \in Pos /\ cmd_axis = TaskPos(task)
    BY LineFacts
<1>1. CASE task.servo = "JumpUping" /\ G01JumpUping
  <2>1. PICK p \in PmRunOnce(task.jump) :
          /\ cmd_axis' = p.curr
          /\ \/ /\ ~PmOver(p)
                /\ task' = [task EXCEPT !.jump = p]
             \/ /\ PmOver(p)
                /\ task' = [task EXCEPT !.servo = "JumpDowning",
                              !.jump = PmStart(p, p.target, task.down).pm]
      BY <1>1 DEF G01JumpUping
  <2>2. /\ cmd_axis = task.jump.curr /\ task.jump.st = "Running"
        /\ task.jump.goal = task.jump.target /\ task.jump.target # task.down
      BY <1>0, <1>1 DEF OnLine, Jumping, TaskPos, G01Tasks
  <2>3. ShortStep
      BY <1>0, <2>1, <2>2, PmCycle DEF ShortStep
  <2>4. CASE ~PmOver(p)
    <3>1. /\ p.st = "Running" /\ p.goal = p.target /\ p.target = task.jump.target
        BY <1>0, <2>1, <2>2, <2>4, PmCycle DEF PmOver
    <3>2. /\ task'.kind = "G01" /\ task'.servo = "JumpUping" /\ task'.pos = task.pos
          /\ task'.before = task.before /\ task'.down = task.down /\ task'.jump = p
          /\ task'.start = task.start /\ task'.end = task.end
        BY <1>1, <2>1, <2>4 DEF G01Tasks
    <3> QED BY <1>0, <2>1, <2>2, <2>3, <3>1, <3>2
            DEF TaskStep, LineKept, OnLine, TaskAtAxis, TaskPos, Jumping
  <2>5. CASE PmOver(p)
    <3>1. p.curr = p.target /\ p.target = task.jump.target /\ p.target \in Pos
          /\ p \in PointMoves
        BY <1>0, <2>1, <2>2, <2>5, PmCycle DEF PmOver, PointMoves
    <3> DEFINE jump == PmStart(p, p.target, task.down).pm
    <3>2. /\ jump.curr = p.target /\ jump.target = task.down /\ jump.goal = task.down
          /\ jump.st = "Running"
        BY <2>2, <3>1, LineFacts, PmStarted
    <3> HIDE DEF jump
    <3>3. /\ task'.kind = "G01" /\ task'.servo = "JumpDowning" /\ task'.pos = task.pos
          /\ task'.before = task.before /\ task'.down = task.down /\ task'.jump = jump
          /\ task'.start = task.start /\ task'.end = task.end
        BY <2>1, <2>5 DEF G01Tasks, jump
    <3> QED BY <1>0, <2>1, <2>3, <3>1, <3>2, <3>3
            DEF TaskStep, LineKept, OnLine, TaskAtAxis, TaskPos, Jumping
  <2> QED BY <2>4, <2>5
<1>2. CASE task.servo = "JumpDowning" /\ G01JumpDowning
  <2>1. PICK p \in PmRunOnce(task.jump) :
          /\ cmd_axis' = p.curr
          /\ task' = IF PmOver(p)
                       THEN [task EXCEPT !.jump = p, !.servo = "JumpDowningBuffer",
                                         !.pos = task.down]
                       ELSE [task EXCEPT !.jump = p]
      BY <1>2 DEF G01JumpDowning
  <2>2. /\ cmd_axis = task.jump.curr /\ task.jump.st = "Running"
        /\ task.jump.goal = task.jump.target /\ task.jump.target = task.down
      BY <1>0, <1>2 DEF OnLine, Jumping, TaskPos, G01Tasks
  <2>3. ShortStep
      BY <1>0, <2>1, <2>2, PmCycle DEF ShortStep
  <2>4. CASE ~PmOver(p)
    <3>1. /\ p.st = "Running" /\ p.goal = p.target /\ p.target = task.jump.target
        BY <1>0, <2>1, <2>2, <2>4, PmCycle DEF PmOver
    <3>2. /\ task'.kind = "G01" /\ task'.servo = "JumpDowning" /\ task'.pos = task.pos
          /\ task'.before = task.before /\ task'.down = task.down /\ task'.jump = p
          /\ task'.start = task.start /\ task'.end = task.end
        BY <1>2, <2>1, <2>4 DEF G01Tasks
    <3> QED BY <1>0, <2>1, <2>2, <2>3, <3>1, <3>2
            DEF TaskStep, LineKept, OnLine, TaskAtAxis, TaskPos, Jumping
  <2>5. CASE PmOver(p)
    <3>1. p.curr = task.down
        BY <1>0, <2>1, <2>2, <2>5, PmCycle DEF PmOver
    <3>2. /\ task'.kind = "G01" /\ task'.servo = "JumpDowningBuffer"
          /\ task'.pos = task.down
          /\ task'.before = task.before /\ task'.down = task.down
          /\ task'.start = task.start /\ task'.end = task.end
        BY <2>1, <2>5 DEF G01Tasks
    <3> QED BY <1>0, <2>1, <2>3, <3>1, <3>2
            DEF TaskStep, LineKept, OnLine, TaskAtAxis, TaskPos, Jumping
  <2> QED BY <2>4, <2>5
<1>3. CASE task.servo = "JumpDowningBuffer" /\ G01JumpDowningBuffer
  <2>0. cmd_axis = task.pos
      BY <1>0, <1>3 DEF TaskPos, Jumping, G01Tasks
  <2>1. PICK d \in 0..MaxStep :
          LET over == d = 0 \/ d >= Abs(task.before - task.pos)
              reached == IF over THEN task.before ELSE Fed(task, d)
          IN  /\ task' = [task EXCEPT !.pos = IF d = 0 THEN @ ELSE reached,
                            !.servo = IF over THEN "Servoing" ELSE @]
              /\ cmd_axis' = IF d = 0 THEN cmd_axis ELSE reached
      BY <1>3 DEF G01JumpDowningBuffer
  <2>2. PICK x \in {task.pos, task.before, Fed(task, d)} :
          /\ \E servo \in {"Servoing", "JumpDowningBuffer"} :
               task' = [task EXCEPT !.pos = x, !.servo = servo]
          /\ cmd_axis' = x
          /\ x = task.before /\ x # task.pos => d >= Abs(task.before - task.pos) \/ x = Fed(task, d)
      BY <1>3, <2>0, <2>1
  <2>3. /\ Fed(task, d) \in Between(task.start, task.end)
        /\ Abs(Fed(task, d) - task.pos) <= Abs(d)
      BY <1>0, FedStep DEF OnLine
  <2>4. x \in Between(task.start, task.end) /\ Abs(x - cmd_axis) <= MaxStep
    <3>1. x \in Between(task.start, task.end)
        BY <1>0, <2>3 DEF OnLine
    <3>2. task.pos \in Int /\ task.before \in Int /\ x \in Int /\ d \in Int
        BY <2>1, <3>1, LineFacts, PosFacts, BetweenPos
    <3> QED BY <2>0, <2>1, <2>2, <2>3, <3>1, <3>2, PosFacts DEF Abs
  <2>5. /\ task'.kind = "G01" /\ ~Jumping(task') /\ task'.pos = x
        /\ task'.before = task.before /\ task'.down = task.down
        /\ task'.start = task.start /\ task'.end = task.end
      BY <2>2 DEF G01Tasks, Jumping
  <2> QED BY <2>2, <2>4, <2>5, FeedStep
<1> QED BY <1>1, <1>2, <1>3 DEF G01Jump

\* A control cycle that leaves the axis and the points of the line alone.
LEMMA StillStep ==
    ASSUME CycleTypeOK, task \in G01Tasks, LineKept, TaskAtAxis,
           task'.kind = "G01", task'.servo = task.servo, task'.jump = task.jump,
           task'.pos = task.pos, task'.before = task.before, task'.down = task.down,
           task'.start = task.start, task'.end = task.end, cmd_axis' = cmd_axis
    PROVE  TaskStep
BY LineFacts, PosFacts
   DEF TaskStep, LineKept, OnLine, TaskAtAxis, TaskPos, Jumping, ShortStep, Moves

\* A control cycle of a line.
LEMMA LineCycleStep ==
    ASSUME CycleTypeOK, task \in G01Tasks, LineKept, TaskAtAxis, NoBackOffInJump, G01RunOnce
    PROVE  TaskStep
<1>0. OnLine(task) /\ cmd_axis = TaskPos(task) /\ task.kind = "G01"
    BY LineFacts
<1>1. CASE task.servo = "Servoing" /\ G01StartJump
    BY <1>1, StartJumpStep
<1>2. CASE task.servo = "Servoing" /\ G01Servo
  <2>1. PICK d \in -MaxStep..MaxStep :
          G01Feed([task EXCEPT !.pos = Fed(task, d),
                    !.st = IF d > 0 /\ Fed(task, d) = task.end THEN "Stopping" ELSE @])
      BY <1>2 DEF G01Servo
  <2>2. d \in Int /\ Abs(d) <= MaxStep
      BY <2>1, PosFacts DEF Abs
  <2>3. /\ task'.kind = "G01" /\ task'.servo = "Servoing" /\ task'.pos = Fed(task, d)
        /\ task'.before = task.before /\ task'.down = task.down
        /\ task'.start = task.start /\ task'.end = task.end
        /\ cmd_axis' = Fed(task, d)
      BY <1>2, <2>1 DEF G01Feed, G01Tasks
  <2>4. /\ Fed(task, d) \in Between(task.start, task.end)
        /\ Abs(Fed(task, d) - task.pos) <= Abs(d)
      BY <1>0, <2>2, FedStep DEF OnLine
  <2>5. cmd_axis = task.pos /\ ~Jumping(task')
      BY <1>0, <1>2, <2>3 DEF TaskPos, Jumping
  <2>6. Abs(Fed(task, d) - task.pos) <= MaxStep
    <3>1. Fed(task, d) \in Int /\ task.pos \in Int
        BY <2>4, LineFacts, PosFacts, BetweenPos
    <3> QED BY <2>2, <2>4, <3>1, PosFacts DEF Abs
  <2> QED BY <2>3, <2>4, <2>5, <2>6, FeedStep
<1>3. CASE G01Jump
    BY <1>3, JumpStep
<1>4. CASE task.sub = "WaitingForJumpEnd" /\ task.servo = "Servoing" /\ G01JumpEnded
    BY <1>0, <1>4, StillStep DEF G01JumpEnded, G01Tasks
<1>5. CASE task' = [task EXCEPT !.st = "Stopped"] /\ UNCHANGED cmd_axis
    BY <1>0, <1>5, StillStep DEF G01Tasks
<1>6. CASE task.st = "Pausing" /\ task.sub = "BackingToBegin" /\ ~Jumping(task) /\ G01BackOff
  <2> DEFINE back == IF task.gone = BackDist THEN task.pos ELSE Fed(task, -1)
  <2>1. /\ task'.kind = "G01" /\ task'.servo = task.servo /\ task'.pos = back
        /\ task'.before = task.before /\ task'.down = task.down
        /\ task'.start = task.start /\ task'.end = task.end
        /\ cmd_axis' = back
      BY <1>6 DEF G01BackOff, G01Feed, G01Tasks
  <2>2. -1 \in Int /\ Abs(-1) = 1
    <3>1. \A x \in Int : x < 0 => Abs(x) = 0 - x
        BY DEF Abs
    <3>2. -1 \in Int /\ -1 < 0 /\ -1 = 0 - 1
        OBVIOUS
    <3> QED BY <3>1, <3>2
  <2>3. /\ Fed(task, -1) \in Between(task.start, task.end)
        /\ Abs(Fed(task, -1) - task.pos) <= 1
      BY <1>0, <2>2, FedStep DEF OnLine
  <2>4. cmd_axis = task.pos
      BY <1>0, <1>6 DEF TaskPos
  <2>6. back \in Between(task.start, task.end) /\ Abs(back - cmd_axis) <= MaxStep
    <3>1. back \in Between(task.start, task.end)
        BY <1>0, <2>1, <2>3 DEF OnLine
    <3>2. Fed(task, -1) \in Int /\ task.pos \in Int
        BY <2>3, LineFacts, PosFacts, BetweenPos
    <3> QED BY <2>1, <2>3, <2>4, <3>1, <3>2, PosFacts DEF Abs
  <2> QED BY <1>6, <2>1, <2>6, FeedStep DEF Jumping
<1>7. CASE G01Resuming
    BY <1>0, <1>7, StillStep DEF G01Resuming, G01Tasks
<1>8. CASE UNCHANGED <<task, cmd_axis>>
    BY <1>0, <1>8, StillStep
<1> QED BY <1>0, <1>1, <1>2, <1>3, <1>4, <1>5, <1>6, <1>7, <1>8
        DEF G01RunOnce, G01NormalRunning, G01PausingOrStopping, NoBackOffInJump, Jumping

\* A control cycle of a fast move; a latched contact stops it before it moves.
LEMMA FastCycleStep ==
    ASSUME CycleTypeOK, task \in G00Tasks, TaskAtAxis, G00RunOnce
    PROVE  TaskStep /\ (touch.warning => cmd_axis' = cmd_axis)
<1>1. PICK hit \in BOOLEAN :
        /\ touch.warning => hit
        /\ \E p \in PmRunOnce([task.pm EXCEPT !.st = IF hit THEN "Stopped" ELSE @]) :
             task' = [task EXCEPT !.pm = p] /\ cmd_axis' = p.curr
    BY DEF G00RunOnce, TouchHit, SetDetectEnable, CycleTypeOK
<1> DEFINE halted == [task.pm EXCEPT !.st = IF hit THEN "Stopped" ELSE @]
<1>2. halted \in PointMoves /\ halted.curr = task.pm.curr /\ (hit => halted.st = "Stopped")
    BY DEF G00Tasks, PointMoves, MrtState
<1>3. PICK p \in PmRunOnce(halted) : task' = [task EXCEPT !.pm = p] /\ cmd_axis' = p.curr
    BY <1>1
<1> HIDE DEF halted
<1>4. Abs(p.curr - halted.curr) <= MaxStep /\ (halted.st = "Stopped" => p = halted)
    BY <1>2, <1>3, PmCycle
<1>5. task.kind = "G00" /\ cmd_axis = task.pm.curr
    BY DEF TaskAtAxis, TaskPos, Moves, G00Tasks
<1>6. task'.kind = "G00" /\ task'.pm = p
    BY <1>3 DEF G00Tasks
<1> QED BY <1>1, <1>2, <1>3, <1>4, <1>5, <1>6
        DEF TaskStep, LineKept, TaskAtAxis, TaskPos, Moves, ShortStep

\* A control cycle of a group of lines.
LEMMA GroupCycleStep ==
    ASSUME CycleTypeOK, task \in GroupTasks, TaskAtAxis, GroupRunOnce
    PROVE  TaskStep
<1>0. task.kind = "G01Group" /\ cmd_axis = task.pos /\ task.pos \in Pos /\ cmd_axis \in Pos
    BY DEF TaskAtAxis, TaskPos, Moves, GroupTasks, CycleTypeOK
<1>1. /\ task'.kind = "G01Group" /\ task'.pos = cmd_axis'
      /\ cmd_axis' \in {task.pos} \cup Toward(task.pos, task.pts[task.seg + 1])
  <2>1. CASE GroupNormalRunning
    <3>1. PICK x \in {task.pos} \cup Toward(task.pos, task.pts[task.seg + 1]) :
            /\ \E a, b \in BOOLEAN :
                 task' = [task EXCEPT !.pos = x,
                              !.seg = IF a THEN @ + 1 ELSE @,
                              !.st = IF b THEN "Stopped" ELSE @]
            /\ cmd_axis' = x
        BY <2>1 DEF GroupNormalRunning
    <3> QED BY <3>1 DEF GroupTasks
  <2>2. CASE task' = [task EXCEPT !.st = GroupNext[task.st]] /\ UNCHANGED cmd_axis
      BY <1>0, <2>2 DEF GroupTasks
  <2> QED BY <2>1, <2>2 DEF GroupRunOnce
<1>2. ShortStep
    BY <1>0, <1>1, PosFacts DEF ShortStep, Toward
<1> QED BY <1>1, <1>2 DEF TaskStep, LineKept, TaskAtAxis, TaskPos, Moves

\* A control cycle of the task moves the axis by a step at most, and not at
\* all where the class forbids it.
LEMMA CycleMoves ==
    ASSUME CycleTypeOK, LineKept, TaskAtAxis, NoBackOffInJump, TaskRunOnce
    PROVE  /\ TaskStep
           /\ ~Moves(task) => cmd_axis' = cmd_axis
           /\ touch.warning /\ cmd_axis' # cmd_axis => task.kind \in {"G01", "G01Group"}
<1>0. task \in RealTasks /\ cmd_axis \in Pos
    BY DEF CycleTypeOK
<1>1. CASE task.kind = "G00" /\ task \in G00Tasks /\ G00RunOnce
    BY <1>1, FastCycleStep DEF Moves
<1>2. CASE task.kind = "G01" /\ task \in G01Tasks /\ G01RunOnce
    BY <1>2, LineCycleStep DEF Moves
<1>3. CASE task.kind = "G01Group" /\ task \in GroupTasks /\ GroupRunOnce
    BY <1>3, GroupCycleStep DEF Moves
<1>4. CASE task.kind \in {"G04", "M00"} /\ UNCHANGED cmd_axis
  <2>1. task'.kind = task.kind
      BY <1>0, CycleKeepsKind
  <2> QED BY <1>0, <1>4, <2>1, PosFacts
          DEF TaskStep, LineKept, TaskAtAxis, ShortStep, Moves
<1> QED BY <1>0, <1>1, <1>2, <1>3, <1>4, RealTaskKinds DEF TaskRunOnce, G04RunOnce

----------------------------------------------------------------------------
(* The pause-move controller.                                              *)

\* A stop at once leaves a move that stays where it is.
LEMMA StoppedStays ==
    ASSUME NEW p \in PointMoves, NEW r \in PmStop(p, TRUE), NEW q \in PmRunOnce(r.pm)
    PROVE  q \in PointMoves /\ q.curr = p.curr /\ q.start = p.start
<1>1. r.pm = [p EXCEPT !.st = "Stopped"]
    BY DEF PmStop, PmResult
<1>2. r.pm \in PointMoves /\ r.pm.st = "Stopped" /\ r.pm.curr = p.curr /\ r.pm.start = p.start
    BY <1>1 DEF PointMoves, MrtState
<1> QED BY <1>2, PmCycle

\* The recorded moves lead on from the task as long as neither changes.
LEMMA RecordedUnchanged ==
    ASSUME NEW to, Recorded(to), UNCHANGED axis_recorder,
           Moves(task') <=> Moves(task), Moves(task) => TaskPos(task') = TaskPos(task)
    PROVE  Path(axis_recorder', to) /\ (Moves(task') => Origin(axis_recorder', to) = TaskPos(task'))
BY DEF Recorded

\* A control cycle in a pause: a manual move goes on, and is recorded when it
\* has ended.
LEMMA PauseCycleStep ==
    ASSUME PmcTypeOK, cmd_axis \in Pos, UNCHANGED task, ManualInPause, pmc_run_once
    PROVE  ManualInPause' /\ ShortStep /\ (touch.warning => cmd_axis' = cmd_axis)
<1>0. /\ pmc_pm \in PointMoves /\ pmc_pm.curr \in Pos /\ pmc_pm.start \in Pos
      /\ axis_recorder \in Seq(AxisRecord)
    BY DEF PmcTypeOK, PointMoves
<1>1. CASE pmc_state = "AllowManualPointMove"
  <2>1. UNCHANGED <<pmcVars, cmd_axis, touch>> /\ Recorded(cmd_axis)
      BY <1>1 DEF pmc_run_once, ManualInPause
  <2> QED BY <1>1, <2>1, PosFacts DEF pmcVars, ManualInPause, Recorded, ShortStep
<1>2. CASE pmc_state = "ManualPointMoving"
  <2>0. Recorded(pmc_pm.start) /\ pmc_pm.curr = cmd_axis /\ pmc_manual_pointmoving
      BY <1>2 DEF ManualInPause, pmc_run_once
  <2>1. CASE PmOver(pmc_pm)
    <3>1. /\ axis_recorder' =
               IF pmc_pm.start = pmc_pm.curr THEN axis_recorder
               ELSE Append(axis_recorder, [start |-> pmc_pm.start, stop |-> pmc_pm.curr])
          /\ pmc_state' = "AllowManualPointMove"
          /\ UNCHANGED cmd_axis
        BY <2>0, <2>1 DEF pmc_manual_pointmoving
    <3>2. CASE pmc_pm.start = pmc_pm.curr
        BY <2>0, <3>1, <3>2, PosFacts DEF Recorded, ManualInPause, ShortStep
    <3>3. CASE pmc_pm.start # pmc_pm.curr
      <4>1. /\ Path(axis_recorder', pmc_pm.curr)
            /\ Origin(axis_recorder', pmc_pm.curr) = Origin(axis_recorder, pmc_pm.start)
          BY <1>0, <2>0, <3>1, <3>3, PathAppend DEF Recorded
      <4> QED BY <2>0, <3>1, <4>1, PosFacts DEF Recorded, ManualInPause, ShortStep
    <3> QED BY <3>2, <3>3
  <2>2. CASE ~PmOver(pmc_pm)
    <3>1. PICK contact \in BOOLEAN :
            IF TouchHit(touch, contact)
              THEN \E r \in PmStop(pmc_pm, TRUE) : Follow(PmRunOnce(r.pm))
              ELSE Follow(PmRunOnce(pmc_pm))
        BY <2>0, <2>2 DEF pmc_manual_pointmoving
    <3>2. UNCHANGED <<pmc_state, axis_recorder>>
        BY <2>0, <2>2 DEF pmc_manual_pointmoving
    <3>3. CASE \E r \in PmStop(pmc_pm, TRUE) : Follow(PmRunOnce(r.pm))
      <4>1. pmc_pm'.curr = pmc_pm.curr /\ pmc_pm'.start = pmc_pm.start /\ cmd_axis' = pmc_pm'.curr
          BY <1>0, <3>3, StoppedStays DEF Follow
      <4> QED BY <1>2, <2>0, <3>2, <4>1, PosFacts DEF Recorded, ManualInPause, ShortStep
    <3>4. CASE Follow(PmRunOnce(pmc_pm)) /\ ~TouchHit(touch, contact)
      <4>1. PICK q \in PmRunOnce(pmc_pm) : pmc_pm' = q /\ cmd_axis' = q.curr
          BY <3>4 DEF Follow
      <4>2. q.start = pmc_pm.start /\ Abs(q.curr - pmc_pm.curr) <= MaxStep
          BY <1>0, <4>1, PmCycle
      <4> QED BY <1>2, <2>0, <3>2, <3>4, <4>1, <4>2
              DEF Recorded, ManualInPause, ShortStep, TouchHit
    <3> QED BY <3>1, <3>3, <3>4
  <2> QED BY <2>1, <2>2
<1> QED BY <1>1, <1>2 DEF ManualInPause

\* Undoing the last recorded move from where it ended.
LEMMA UndoStep ==
    ASSUME PmcTypeOK, NEW to \in Pos, Recorded(to), axis_recorder # <<>>,
           pmc_pm' = UndoTop.pm, axis_recorder' = Pop(axis_recorder), UNCHANGED task
    PROVE  /\ UndoTop.ok
           /\ pmc_pm'.st = "Running" /\ pmc_pm'.goal = pmc_pm'.target /\ pmc_pm'.curr = to
           /\ Path(axis_recorder', pmc_pm'.target)
           /\ Moves(task) => Origin(axis_recorder', pmc_pm'.target) = TaskPos(task)
<1>1. /\ Top(axis_recorder) \in AxisRecord
      /\ Top(axis_recorder).stop = to /\ Top(axis_recorder).start # to
      /\ Path(Pop(axis_recorder), Top(axis_recorder).start)
      /\ Origin(Pop(axis_recorder), Top(axis_recorder).start) = Origin(axis_recorder, to)
    BY PathPop DEF PmcTypeOK, Recorded
<1>2. Top(axis_recorder).start \in Pos /\ pmc_pm \in PointMoves
    BY <1>1 DEF AxisRecord, PmcTypeOK
<1>3. /\ UndoTop.ok
      /\ UndoTop.pm.st = "Running" /\ UndoTop.pm.curr = to
      /\ UndoTop.pm.goal = Top(axis_recorder).start
      /\ UndoTop.pm.target = Top(axis_recorder).start
    BY <1>1, <1>2, PmStarted DEF UndoTop
<1> QED BY <1>1, <1>3 DEF Recorded

\* What resuming the task at the end of the way back leaves.
LEMMA ResumeTask ==
    ASSUME task \in RealTasks, NEW r \in TaskResume(task), task' = r.task, LineKept
    PROVE  /\ LineKept'
           /\ Moves(task') <=> Moves(task)
           /\ Moves(task) => TaskPos(task') = TaskPos(task)
BY CallKeepsPos DEF LineKept

\* A control cycle of the way back.
LEMMA RecoveryCycleStep ==
    ASSUME TypeOK, task # NoTask, RecoveryPhase, LineKept, recovery_run_once
    PROVE  LineKept' /\ (TaskPhase' \/ RecoveryPhase') /\ ShortStep
<1>0. /\ PmcTypeOK /\ pmc_pm \in PointMoves /\ pmc_pm.curr \in Pos /\ pmc_pm.target \in Pos
      /\ axis_recorder \in Seq(AxisRecord) /\ cmd_axis \in Pos /\ task \in RealTasks
    BY RunnerTask DEF TypeOK, PmcTypeOK, SharedTypeOK, PointMoves
<1>a. Recovery
    BY DEF RecoveryPhase
<1>s. cmd_axis' = cmd_axis => ShortStep
    BY <1>0, PosFacts DEF ShortStep
<1>k. task' = task => LineKept'
    BY DEF LineKept
\* The way back has ended: the task goes on from where the axis stands.
<1>1. ASSUME state = "NormalMoving", pmc_state' = "RecorverOver", axis_recorder = <<>>,
             Recorded(cmd_axis), recovery_normal_moving, axis_recorder' = axis_recorder,
             cmd_axis' = cmd_axis
      PROVE  LineKept' /\ (TaskPhase' \/ RecoveryPhase') /\ ShortStep
  <2>1. PICK r \in TaskResume(task) :
          /\ task' = r.task
          /\ state' = IF r.ok THEN "Resuming" ELSE state
          /\ domin' = IF r.ok THEN "AutoTaskRunning" ELSE domin
      BY <1>1 DEF recovery_normal_moving
  <2>2. /\ LineKept' /\ (Moves(task') <=> Moves(task))
        /\ Moves(task) => TaskPos(task') = TaskPos(task)
      BY <1>0, <2>1, ResumeTask
  <2>3. Recorded(cmd_axis)'
      BY <1>1, <2>2, RecordedUnchanged DEF Recorded
  <2>4. CASE r.ok
    <3>1. TaskAtAxis'
        BY <1>1, <2>2, <2>3 DEF Recorded, Origin, TaskAtAxis
    <3> QED BY <1>1, <1>s, <2>1, <2>2, <2>4, <3>1 DEF TaskPhase, Recovery
  <2>5. CASE ~r.ok
      BY <1>1, <1>a, <1>s, <2>1, <2>2, <2>3, <2>5 DEF RecoveryPhase, Undone, Recovery
  <2> QED BY <2>4, <2>5
<1>2. CASE Undoing /\ state = "NormalMoving"
  <2>0. /\ pmc_pm.curr = cmd_axis /\ Recorded(pmc_pm.target) /\ pmc_state = "Recovering"
        /\ \/ pmc_pm.st = "Running" /\ pmc_pm.goal = pmc_pm.target
           \/ pmc_pm.st = "Stopped" /\ pmc_pm.curr = pmc_pm.target
        /\ recovery_normal_moving /\ pmc_recovering
      BY <1>2 DEF Undoing, recovery_run_once, recovery_normal_moving, pmc_run_once
  <2>1. CASE PmOver(pmc_pm) /\ axis_recorder = <<>>
    <3>1. pmc_state' = "RecorverOver" /\ UNCHANGED <<axis_recorder, cmd_axis>>
        BY <2>0, <2>1 DEF pmc_recovering
    <3>2. pmc_pm.curr = pmc_pm.target
        BY <2>0, <2>1 DEF PmOver
    <3> QED BY <1>1, <1>2, <2>0, <2>1, <3>1, <3>2
  <2>2. CASE PmOver(pmc_pm) /\ axis_recorder # <<>>
    <3>1. /\ pmc_pm' = UndoTop.pm /\ axis_recorder' = Pop(axis_recorder)
          /\ UNCHANGED <<pmc_state, cmd_axis>>
        BY <2>0, <2>2 DEF pmc_recovering
    <3>2. UNCHANGED runnerVars
        BY <2>0, <3>1 DEF recovery_normal_moving
    <3>3. pmc_pm.curr = pmc_pm.target
        BY <2>0, <2>2 DEF PmOver
    <3>4. /\ pmc_pm'.st = "Running" /\ pmc_pm'.goal = pmc_pm'.target
          /\ pmc_pm'.curr = cmd_axis /\ Recorded(pmc_pm.target)'
        BY <1>0, <2>0, <2>2, <3>1, <3>2, <3>3, UndoStep DEF Recorded, runnerVars
    <3> QED BY <1>2, <1>a, <1>s, <1>k, <2>0, <3>1, <3>2, <3>4
            DEF RecoveryPhase, Undoing, Recovery, runnerVars
  <2>3. CASE ~PmOver(pmc_pm)
    <3>1. UNCHANGED <<pmc_state, axis_recorder>> /\ Follow(PmRunOnce(pmc_pm))
        BY <2>0, <2>3 DEF pmc_recovering
    <3>2. UNCHANGED runnerVars
        BY <2>0, <3>1 DEF recovery_normal_moving
    <3>3. PICK q \in PmRunOnce(pmc_pm) : pmc_pm' = q /\ cmd_axis' = q.curr
        BY <3>1 DEF Follow
    <3>4. /\ q.target = pmc_pm.target
          /\ \/ q.st = "Running" /\ q.goal = q.target
             \/ q.st = "Stopped" /\ q.curr = q.target
          /\ Abs(q.curr - pmc_pm.curr) <= MaxStep
        BY <1>0, <2>0, <2>3, <3>3, PmCycle DEF PmOver
    <3>5. ShortStep
        BY <2>0, <3>3, <3>4 DEF ShortStep
    <3>6. Recorded(pmc_pm.target)'
        BY <2>0, <3>1, <3>2, <3>3, <3>4 DEF Recorded, runnerVars
    <3>7. Undoing'
        BY <1>2, <2>0, <3>1, <3>2, <3>3, <3>4, <3>6 DEF Undoing, runnerVars
    <3> QED BY <1>a, <1>k, <3>2, <3>5, <3>7 DEF RecoveryPhase, Recovery, runnerVars
  <2> QED BY <2>1, <2>2, <2>3
<1>3. CASE Undoing /\ state = "Pausing"
  <2>0. /\ pmc_pm.curr = cmd_axis /\ Recorded(pmc_pm.target)
        /\ pmc_state = "RecoveringPausing" /\ pmc_pm.st \in {"Pausing", "Paused"}
        /\ recovery_pausing /\ pmc_recovering_pausing
      BY <1>3 DEF Undoing, recovery_run_once, recovery_pausing, pmc_run_once
  <2>1. UNCHANGED <<task, domin, axis_recorder>>
      BY <2>0 DEF recovery_pausing, pmc_recovering_pausing
  <2>2. CASE pmc_pm.st = "Paused"
    <3>1. /\ pmc_state' = "RecoveringPaused" /\ state' = "Paused"
          /\ UNCHANGED <<pmc_pm, cmd_axis>>
        BY <2>0, <2>2 DEF recovery_pausing, pmc_recovering_pausing
    <3> QED BY <1>a, <1>s, <1>k, <2>0, <2>1, <2>2, <3>1
            DEF RecoveryPhase, Undoing, Recovery, Recorded
  <2>3. CASE pmc_pm.st # "Paused"
    <3>1. UNCHANGED <<pmc_state, state>> /\ Follow(PmRunOnce(pmc_pm))
        BY <2>0, <2>3 DEF recovery_pausing, pmc_recovering_pausing
    <3>2. PICK q \in PmRunOnce(pmc_pm) : pmc_pm' = q /\ cmd_axis' = q.curr
        BY <3>1 DEF Follow
    <3>3. /\ q.target = pmc_pm.target /\ q.st \in {"Pausing", "Paused"}
          /\ Abs(q.curr - pmc_pm.curr) <= MaxStep
        BY <1>0, <2>0, <2>3, <3>2, PmCycle
    <3>4. ShortStep
        BY <2>0, <3>2, <3>3 DEF ShortStep
    <3> QED BY <1>3, <1>a, <1>k, <2>0, <2>1, <3>1, <3>2, <3>3, <3>4
            DEF RecoveryPhase, Undoing, Recovery, Recorded
  <2> QED BY <2>2, <2>3
<1>4. CASE Undoing /\ state = "Paused"
    BY <1>4, <1>a, <1>s, <1>k
       DEF recovery_run_once, RecoveryPhase, Undoing, Recovery, Recorded, runnerVars, pmcVars
<1>5. CASE Undone
  <2>1. recovery_normal_moving /\ UNCHANGED <<pmcVars, cmd_axis>>
      BY <1>5 DEF Undone, recovery_run_once, recovery_normal_moving, pmc_run_once
  <2> QED BY <1>1, <1>5, <2>1 DEF Undone, pmcVars
<1>6. CASE Leaving
  <2>0. recovery_stopping /\ state = "Stopping"
      BY <1>6 DEF Leaving, recovery_run_once
  <2>1. /\ ShortStep
        /\ \/ pmc_state' = "OutSideOrErrorStopped"
           \/ pmc_state' = "OutSideStopping" /\ pmc_pm'.curr = cmd_axis'
    <3>1. CASE pmc_state = "OutSideOrErrorStopped"
        BY <1>s, <2>0, <3>1 DEF recovery_stopping, pmc_run_once, pmcVars
    <3>2. CASE pmc_state = "OutSideStopping" /\ pmc_outside_stopping /\ pmc_pm.curr = cmd_axis
      <4>1. CASE PmOver(pmc_pm)
          BY <1>s, <3>2, <4>1 DEF pmc_outside_stopping
      <4>2. CASE ~PmOver(pmc_pm)
        <5>1. UNCHANGED pmc_state /\ Follow(PmRunOnce(pmc_pm))
            BY <3>2, <4>2 DEF pmc_outside_stopping
        <5>2. PICK q \in PmRunOnce(pmc_pm) : pmc_pm' = q /\ cmd_axis' = q.curr
            BY <5>1 DEF Follow
        <5>3. Abs(q.curr - pmc_pm.curr) <= MaxStep
            BY <1>0, <5>2, PmCycle
        <5> QED BY <3>2, <5>1, <5>2, <5>3 DEF ShortStep
      <4> QED BY <4>1, <4>2
    <3> QED BY <1>6, <2>0, <3>1, <3>2 DEF Leaving, recovery_stopping, pmc_run_once
  <2>2. CASE pmc_state' = "OutSideOrErrorStopped"
      BY <1>k, <2>0, <2>1, <2>2 DEF recovery_stopping, TaskPhase, Recovery
  <2>3. CASE pmc_state' # "OutSideOrErrorStopped"
      BY <1>a, <1>k, <2>0, <2>1, <2>3 DEF recovery_stopping, RecoveryPhase, Leaving, Recovery
  <2> QED BY <2>2, <2>3
<1> QED BY <1>2, <1>3, <1>4, <1>5, <1>6 DEF RecoveryPhase, Undoing

----------------------------------------------------------------------------
(* The runner and the machine.                                             *)

\* What a control cycle in Auto may do with the axis.
AutoCycleMoves ==
    /\ LineKept' /\ (TaskPhase' \/ RecoveryPhase') /\ ShortStep
    /\ touch.warning /\ cmd_axis' # cmd_axis =>
         Recovery \/ (state # "Paused" /\ task.kind \in {"G01", "G01Group"})

\* Nothing changes that the phases speak of.
LEMMA PhaseUnchanged ==
    ASSUME UNCHANGED <<runnerVars, pmcVars, cmd_axis>>
    PROVE  /\ LineKept => LineKept'
           /\ TaskPhase => TaskPhase'
           /\ RecoveryPhase => RecoveryPhase'
<1>1. LineKept => LineKept'
    BY DEF LineKept, runnerVars
<1>2. \A to : Recorded(to) => Path(axis_recorder', to)
                  /\ (Moves(task') => Origin(axis_recorder', to) = TaskPos(task'))
    BY DEF Recorded, runnerVars, pmcVars
<1>3. TaskPhase => TaskPhase'
    BY <1>2 DEF TaskPhase, TaskAtAxis, ManualInPause, Recovery, Recorded, runnerVars, pmcVars
<1>4. RecoveryPhase => RecoveryPhase'
    BY <1>2 DEF RecoveryPhase, Undoing, Undone, Leaving, Recovery, Recorded, runnerVars,
                pmcVars
<1> QED BY <1>1, <1>3, <1>4

\* A control cycle in Auto.
LEMMA AutoCycleStep ==
    ASSUME TypeOK, NoBackOffInJump, main_mode = "Auto", LineKept, TaskPhase \/ RecoveryPhase,
           runner_run_once
    PROVE  AutoCycleMoves
<1>0. /\ RunnerOK /\ PmcTypeOK /\ cmd_axis \in Pos
      /\ task # NoTask => CycleTypeOK
    BY TypeOKParts, RunnerTask
       DEF TypeOK, SharedTypeOK, RunnerOK, CycleTypeOK, TouchTypeOK
<1>1. CASE UNCHANGED <<runnerVars, pmcVars, cmd_axis>>
    BY <1>0, <1>1, PhaseUnchanged, PosFacts DEF AutoCycleMoves, ShortStep
<1>2. CASE task # NoTask /\ Recovery /\ recovery_run_once
    BY <1>2, RecoveryCycleStep DEF AutoCycleMoves, TaskPhase
<1>3. CASE task # NoTask /\ ~Recovery /\ state = "Paused" /\ runner_paused
  <2>1. ManualInPause /\ pmc_run_once /\ UNCHANGED runnerVars
      BY <1>3 DEF TaskPhase, RecoveryPhase, runner_paused
  <2>2. ManualInPause' /\ ShortStep /\ (touch.warning => cmd_axis' = cmd_axis)
      BY <1>0, <2>1, PauseCycleStep DEF runnerVars
  <2> QED BY <1>3, <2>1, <2>2 DEF AutoCycleMoves, TaskPhase, LineKept, Recovery, runnerVars
\* The task runs from where the axis stands.
<1>4. ASSUME task # NoTask, ~Recovery, UNCHANGED domin, TaskRunOnce,
             state \in {"NormalMoving", "Pausing", "Resuming", "Stopping"},
             \/ state' \in {"NormalMoving", "Pausing", "Resuming", "Stopping", "Stopped"}
             \/ state' = "Paused" /\ pmc_init
      PROVE  AutoCycleMoves
  <2>1. TaskAtAxis
      BY <1>4 DEF TaskPhase, RecoveryPhase
  <2>2. /\ TaskStep
        /\ touch.warning /\ cmd_axis' # cmd_axis => task.kind \in {"G01", "G01Group"}
      BY <1>0, <1>4, <2>1, CycleMoves
  <2>3. pmc_init => ManualInPause'
      BY <2>2 DEF pmc_init, ManualInPause, Recorded, Path, Origin, TaskStep, TaskAtAxis
  <2>4. TaskPhase'
      BY <1>4, <2>2, <2>3 DEF TaskPhase, TaskStep, Recovery
  <2> QED BY <1>4, <2>2, <2>4 DEF AutoCycleMoves, TaskStep
<1>5. CASE task # NoTask /\ ~Recovery /\ state = "NormalMoving" /\ runner_normal_moving
    BY <1>4, <1>5 DEF runner_normal_moving
<1>6. CASE task # NoTask /\ ~Recovery /\ state = "Pausing" /\ runner_pausing
    BY <1>4, <1>6 DEF runner_pausing
<1>7. CASE task # NoTask /\ ~Recovery /\ state = "Resuming" /\ runner_resuming
    BY <1>4, <1>7 DEF runner_resuming
<1>8. CASE task # NoTask /\ ~Recovery /\ state = "Stopping" /\ runner_stopping
    BY <1>4, <1>8 DEF runner_stopping
<1> QED BY <1>1, <1>2, <1>3, <1>5, <1>6, <1>7, <1>8 DEF runner_run_once

\* pause, resume and stop of the runner.
LEMMA AutoCallPhase ==
    ASSUME TypeOK, LineKept, TaskPhase \/ RecoveryPhase, UNCHANGED cmd_axis,
           NEW ret \in BOOLEAN, NEW immediate \in BOOLEAN,
           runner_pause(ret) \/ runner_resume(ret) \/ runner_stop(ret, immediate)
    PROVE  LineKept' /\ (TaskPhase' \/ RecoveryPhase')
<1>0. /\ PmcTypeOK /\ pmc_pm \in PointMoves /\ cmd_axis \in Pos
      /\ task # NoTask => task \in RealTasks
    BY RunnerTask DEF TypeOK, PmcTypeOK, SharedTypeOK
<1>k. UNCHANGED task => LineKept'
    BY DEF LineKept
<1>1. ASSUME NEW value, Answer(ret, value)
      PROVE  LineKept' /\ (TaskPhase' \/ RecoveryPhase')
    BY <1>1, PhaseUnchanged DEF Answer
\* A call of the task itself.
<1>2. ASSUME task # NoTask, ~Recovery, state \in {"NormalMoving", "Resuming", "Pausing"},
             \E r \in TaskPause(task) \cup TaskStop(task, immediate) : task' = r.task,
             state' \in {state, "Pausing", "Stopping"}, UNCHANGED domin
      PROVE  LineKept' /\ (TaskPhase' \/ RecoveryPhase')
  <2>1. TaskAtAxis
      BY <1>2 DEF TaskPhase, RecoveryPhase
  <2>2. /\ LineKept' /\ (Moves(task') <=> Moves(task))
        /\ Moves(task) => TaskPos(task') = TaskPos(task)
      BY <1>0, <1>2, CallKeepsPos DEF LineKept
  <2>3. TaskAtAxis'
      BY <2>1, <2>2 DEF TaskAtAxis
  <2> QED BY <1>2, <2>2, <2>3 DEF TaskPhase, Recovery
<1>3. CASE runner_pause(ret)
  <2>1. CASE /\ task # NoTask /\ Recovery /\ state = "NormalMoving"
             /\ pmc_pause_recover(ret)
             /\ state' = IF ret THEN "Pausing" ELSE state
             /\ UNCHANGED <<task, domin>>
    <3>0. RecoveryPhase /\ pmc_state \in {"Recovering", "RecorverOver"}
        BY <2>1 DEF TaskPhase, RecoveryPhase, Undoing, Undone, Leaving
    <3>1. CASE pmc_state = "RecorverOver"
      <4>1. UNCHANGED <<runnerVars, pmcVars>>
          BY <2>1, <3>1 DEF pmc_pause_recover, runnerVars
      <4> QED BY <3>0, <4>1, PhaseUnchanged
    <3>2. CASE pmc_state = "Recovering"
      <4>0. /\ pmc_pm.curr = cmd_axis /\ Recorded(pmc_pm.target)
            /\ \/ pmc_pm.st = "Running" /\ pmc_pm.goal = pmc_pm.target
               \/ pmc_pm.st = "Stopped" /\ pmc_pm.curr = pmc_pm.target
          BY <2>1, <3>0, <3>2 DEF RecoveryPhase, Undoing, Undone, Leaving
      <4>1. PICK r \in PmPause(pmc_pm) :
              /\ ret = r.ok /\ pmc_pm' = r.pm
              /\ pmc_state' = IF r.ok THEN "RecoveringPausing" ELSE pmc_state
          BY <2>1, <3>2 DEF pmc_pause_recover
      <4>2. UNCHANGED axis_recorder
          BY <2>1, <3>2 DEF pmc_pause_recover
      <4>3. r.pm.curr = pmc_pm.curr /\ r.pm.target = pmc_pm.target
          BY <1>0, <4>1, PmCallKeeps
      <4>4. \/ r.ok = TRUE /\ r.pm.st \in {"Pausing", "Paused"}
            \/ r.ok = FALSE /\ r.pm = pmc_pm
          BY <1>0, <4>1, PmPauseAnswers
      <4>5. Recorded(pmc_pm.target)'
          BY <2>1, <4>0, <4>1, <4>2, <4>3 DEF Recorded
      <4> QED BY <1>k, <2>1, <3>2, <4>0, <4>1, <4>3, <4>4, <4>5
              DEF RecoveryPhase, Undoing, Recovery
    <3> QED BY <3>0, <3>1, <3>2
  <2>2. CASE /\ task # NoTask /\ ~Recovery /\ state \in {"NormalMoving", "Resuming"}
             /\ \E r \in TaskPause(task) : ret = r.ok /\ task' = r.task
             /\ state' = IF ret THEN "Pausing" ELSE state
             /\ UNCHANGED domin
      BY <1>2, <2>2
  <2> QED BY <1>1, <1>3, <2>1, <2>2 DEF runner_pause
<1>4. CASE runner_resume(ret)
  <2>1. CASE /\ task # NoTask /\ state = "Paused"
             /\ IF Recovery THEN pmc_resume_recover(ret) ELSE pmc_activate_recover(ret)
             /\ state' = IF ret THEN "NormalMoving" ELSE state
             /\ domin' = IF ret THEN "PauseMoveRecoverRunning" ELSE domin
             /\ UNCHANGED task
    <3>1. CASE Recovery
      <4>0. /\ pmc_pm.curr = cmd_axis /\ Recorded(pmc_pm.target)
            /\ pmc_state = "RecoveringPaused" /\ pmc_pm.st = "Paused"
            /\ pmc_resume_recover(ret)
          BY <2>1, <3>1 DEF TaskPhase, RecoveryPhase, Undoing, Undone, Leaving
      <4>1. /\ pmc_pm' = PmResume(pmc_pm).pm /\ ret = PmResume(pmc_pm).ok
            /\ pmc_state' = IF PmResume(pmc_pm).ok THEN "Recovering" ELSE pmc_state
            /\ UNCHANGED axis_recorder
          BY <4>0 DEF pmc_resume_recover
      <4>2. /\ PmResume(pmc_pm).ok = TRUE
            /\ pmc_pm'.curr = pmc_pm.curr /\ pmc_pm'.target = pmc_pm.target
            /\ \/ pmc_pm'.st = "Running" /\ pmc_pm'.goal = pmc_pm'.target
               \/ pmc_pm'.st = "Stopped" /\ pmc_pm'.curr = pmc_pm'.target
          BY <1>0, <4>0, <4>1 DEF PmResume, PmResult, PointMoves
      <4>3. Recorded(pmc_pm.target)'
          BY <2>1, <4>0, <4>1, <4>2 DEF Recorded
      <4> QED BY <1>k, <2>1, <4>0, <4>1, <4>2, <4>3 DEF RecoveryPhase, Undoing, Recovery
    <3>2. CASE ~Recovery
      <4>0. ManualInPause /\ pmc_activate_recover(ret)
          BY <2>1, <3>2 DEF TaskPhase, RecoveryPhase
      <4>1. CASE pmc_state = "ManualPointMoving"
          BY <2>1, <4>0, <4>1, PhaseUnchanged DEF pmc_activate_recover, runnerVars
      <4>2. CASE pmc_state = "AllowManualPointMove" /\ axis_recorder = <<>>
        <5>1. ret = TRUE /\ pmc_state' = "RecorverOver" /\ UNCHANGED <<pmc_pm, axis_recorder>>
            BY <4>0, <4>2 DEF pmc_activate_recover
        <5>2. Recorded(cmd_axis)'
            BY <2>1, <4>0, <4>2, <5>1 DEF ManualInPause, Recorded
        <5> QED BY <1>k, <2>1, <4>2, <5>1, <5>2 DEF RecoveryPhase, Undone, Recovery
      <4>3. CASE pmc_state = "AllowManualPointMove" /\ axis_recorder # <<>>
        <5>1. /\ ret = UndoTop.ok /\ pmc_pm' = UndoTop.pm /\ axis_recorder' = Pop(axis_recorder)
              /\ pmc_state' = IF UndoTop.ok THEN "Recovering" ELSE "OutSideOrErrorStopped"
            BY <4>0, <4>3 DEF pmc_activate_recover
        <5>2. Recorded(cmd_axis)
            BY <4>0, <4>3 DEF ManualInPause
        <5>3. /\ UndoTop.ok
              /\ pmc_pm'.st = "Running" /\ pmc_pm'.goal = pmc_pm'.target
              /\ pmc_pm'.curr = cmd_axis
              /\ Recorded(pmc_pm.target)'
            BY <1>0, <2>1, <4>3, <5>1, <5>2, UndoStep DEF Recorded
        <5> QED BY <1>k, <2>1, <5>1, <5>3 DEF RecoveryPhase, Undoing, Recovery
      <4> QED BY <4>0, <4>1, <4>2, <4>3 DEF ManualInPause
    <3> QED BY <3>1, <3>2
  <2> QED BY <1>1, <1>4, <2>1 DEF runner_resume
<1>5. CASE runner_stop(ret, immediate)
  <2>1. CASE /\ task # NoTask /\ Recovery /\ state \in {"NormalMoving", "Pausing", "Paused"}
             /\ pmc_stop(ret, immediate)
             /\ state' = IF ret THEN "Stopping" ELSE state
             /\ UNCHANGED <<task, domin>>
    <3>1. CASE Undone \/ pmc_state = "RecoveringPaused"
        BY <1>k, <2>1, <3>1 DEF Undone, pmc_stop, RecoveryPhase, Leaving, Recovery
    <3>2. CASE Undoing /\ pmc_state \in {"Recovering", "RecoveringPausing"}
      <4>1. PICK r \in PmStop(pmc_pm, immediate) : pmc_pm' = r.pm
          BY <2>1, <3>2 DEF pmc_stop
      <4>2. ret = TRUE /\ pmc_state' = "OutSideStopping"
          BY <2>1, <3>2 DEF pmc_stop
      <4>3. pmc_pm'.curr = pmc_pm.curr
          BY <1>0, <4>1, PmCallKeeps
      <4> QED BY <1>k, <2>1, <3>2, <4>2, <4>3 DEF Undoing, RecoveryPhase, Leaving, Recovery
    <3> QED BY <2>1, <3>1, <3>2 DEF TaskPhase, RecoveryPhase, Leaving, Undoing
  <2>2. CASE /\ task # NoTask /\ ~Recovery
             /\ state \in {"NormalMoving", "Resuming", "Pausing"}
             /\ \E r \in TaskStop(task, immediate) : ret = r.ok /\ task' = r.task
             /\ state' = IF ret THEN "Stopping" ELSE state
             /\ UNCHANGED domin
      BY <1>2, <2>2
  <2>3. CASE ~Recovery /\ state' = "Stopped" /\ UNCHANGED <<task, domin>>
      BY <1>k, <2>3 DEF TaskPhase, Recovery
  <2> QED BY <1>1, <1>5, <2>1, <2>2, <2>3 DEF runner_stop
<1> QED BY <1>3, <1>4, <1>5

\* Starting and stopping a manual move, in Idle, Manual or a pause.
LEMMA ManualCallPos ==
    ASSUME TypeOK, PosInv, UNCHANGED cmd_axis, NEW ret, NEW target \in Pos,
           NEW immediate \in BOOLEAN,
           start_manual_pointmove(ret, target) \/ stop_manual_pointmove(ret, immediate)
    PROVE  PosInv'
<1>0. /\ PmcTypeOK /\ pmc_pm \in PointMoves /\ pm \in PointMoves /\ cmd_axis \in Pos
    BY DEF TypeOK, PmcTypeOK, SharedTypeOK, MachineTypeOK
<1>1. CASE UNCHANGED <<machineVars, runnerVars, pmcVars>>
    BY <1>1, PhaseUnchanged DEF PosInv, ManualKept, AutoKept, machineVars
<1>2. CASE main_mode = "Idle" /\ start_manual_pointmove(ret, target)
  <2>1. /\ pm' = PmStart(pm, cmd_axis, target).pm /\ main_mode' # "Auto"
        /\ UNCHANGED <<runnerVars, pmcVars>>
      BY <1>2 DEF start_manual_pointmove
  <2>2. pm'.curr = cmd_axis
      BY <1>0, <2>1, PmStarted
  <2> QED BY <2>1, <2>2, PhaseUnchanged DEF PosInv, ManualKept, AutoKept
<1>3. CASE main_mode = "Manual" /\ stop_manual_pointmove(ret, immediate)
  <2>1. PICK r \in PmStop(pm, immediate) : pm' = r.pm
      BY <1>3 DEF stop_manual_pointmove
  <2>2. UNCHANGED <<main_mode, runnerVars, pmcVars>>
      BY <1>3 DEF stop_manual_pointmove
  <2>3. pm'.curr = pm.curr
      BY <1>0, <2>1, PmCallKeeps
  <2> QED BY <1>3, <2>2, <2>3, PhaseUnchanged DEF PosInv, ManualKept, AutoKept
\* A call of the pause-move controller.
<1>4. ASSUME main_mode = "Auto", ManualAllowed, UNCHANGED <<machineVars, runnerVars>>,
             ManualInPause'
      PROVE  PosInv'
    BY <1>4 DEF PosInv, ManualKept, AutoKept, TaskPhase, LineKept, ManualAllowed, Recovery,
                machineVars, runnerVars
<1>5. CASE main_mode = "Auto" /\ runner_start_manual_pointmove(ret, target)
             /\ UNCHANGED machineVars
  <2>1. CASE ManualAllowed /\ pmc_start_manual_pointmove(ret, target) /\ UNCHANGED runnerVars
    <3>0. ManualInPause
        BY <1>5, <2>1 DEF PosInv, AutoKept, TaskPhase, RecoveryPhase, ManualAllowed
    <3>1. CASE UNCHANGED pmcVars
        BY <1>1, <1>5, <2>1, <3>1
    <3>2. CASE /\ pmc_state = "AllowManualPointMove"
               /\ pmc_pm' = PmStart(pmc_pm, cmd_axis, target).pm
               /\ pmc_state' \in {pmc_state, "ManualPointMoving"}
               /\ UNCHANGED axis_recorder
      <4>1. pmc_pm'.curr = cmd_axis /\ pmc_pm'.start = cmd_axis
          BY <1>0, <3>2, PmStarted
      <4>2. ManualInPause'
          BY <2>1, <3>0, <3>2, <4>1 DEF ManualInPause, Recorded, runnerVars
      <4> QED BY <1>4, <1>5, <2>1, <4>2
    <3> QED BY <2>1, <3>1, <3>2 DEF pmc_start_manual_pointmove
  <2> QED BY <1>1, <1>5, <2>1 DEF runner_start_manual_pointmove, Answer
<1>6. CASE main_mode = "Auto" /\ runner_stop_manual_pointmove(ret, immediate)
             /\ UNCHANGED machineVars
  <2>1. CASE ManualAllowed /\ pmc_stop_manual_pointmove(ret, immediate)
               /\ UNCHANGED runnerVars
    <3>0. ManualInPause
        BY <1>6, <2>1 DEF PosInv, AutoKept, TaskPhase, RecoveryPhase, ManualAllowed
    <3>1. CASE UNCHANGED pmcVars
        BY <1>1, <1>6, <2>1, <3>1
    <3>2. CASE /\ pmc_state = "ManualPointMoving"
               /\ \E r \in PmStop(pmc_pm, immediate) : pmc_pm' = r.pm
               /\ UNCHANGED <<pmc_state, axis_recorder>>
      <4>1. pmc_pm'.curr = pmc_pm.curr /\ pmc_pm'.start = pmc_pm.start
          BY <1>0, <3>2, PmCallKeeps
      <4>2. ManualInPause'
          BY <2>1, <3>0, <3>2, <4>1 DEF ManualInPause, Recorded, runnerVars
      <4> QED BY <1>4, <1>6, <2>1, <4>2
    <3> QED BY <2>1, <3>1, <3>2 DEF pmc_stop_manual_pointmove
  <2> QED BY <1>1, <1>6, <2>1 DEF runner_stop_manual_pointmove, Answer
<1> QED BY <1>1, <1>2, <1>3, <1>5, <1>6
        DEF start_manual_pointmove, stop_manual_pointmove, Answer

\* A new task stands where the axis does.
LEMMA StartPos ==
    ASSUME PosInv, cmd_axis \in Pos, UNCHANGED cmd_axis, NEW ret, NEW t, start_auto(ret, t),
           Moves(t) => TaskPos(t) = cmd_axis, t.kind = "G01" => OnLine(t)
    PROVE  PosInv'
<1>1. CASE UNCHANGED <<machineVars, runnerVars, pmcVars>>
    BY <1>1, PhaseUnchanged DEF PosInv, ManualKept, AutoKept, machineVars
<1>2. CASE runner_restart_task(t) /\ main_mode' = "Auto"
    BY <1>2 DEF runner_restart_task, PosInv, LineKept, ManualKept, AutoKept, TaskPhase,
                TaskAtAxis, Recovery
<1> QED BY <1>1, <1>2 DEF start_auto, Answer

\* The tasks the commands construct stand where the axis does.
LEMMA NewTaskPos ==
    ASSUME NEW from \in Pos, NEW to \in Pos, NEW detect \in BOOLEAN, NEW corners, NEW delay
    PROVE  /\ TaskPos(NewG00(from, to, detect)) = from /\ NewG00(from, to, detect).kind = "G00"
           /\ TaskPos(NewG01(from, to)) = from /\ OnLine(NewG01(from, to))
           /\ TaskPos(NewG01Group(from, corners)) = from
           /\ NewG01Group(from, corners).kind = "G01Group"
           /\ ~Moves(NewG04(delay)) /\ ~Moves(NewM00)
           /\ NewG04(delay).kind # "G01" /\ NewM00.kind # "G01"
<1>1. PmStart(IdlePm, from, to).pm.curr = from
    BY IdlePmType, PmStarted
<1>2. from \in Between(from, to)
    BY PosFacts DEF Between
<1> QED BY <1>1, <1>2 DEF NewG00, NewG01, NewG01Group, NewG04, NewM00, TaskPos, Moves,
                          OnLine, Jumping

\* What a step of a ready thread may do with the axis.
AxisMoves ==
    Ready => /\ ShortStep
             /\ touch.warning /\ cmd_axis' # cmd_axis =>
                  /\ main_mode = "Auto"
                  /\ Recovery \/ (state # "Paused" /\ task.kind \in {"G01", "G01Group"})

\* A step that leaves the axis where it is.
LEMMA AxisRests ==
    ASSUME cmd_axis \in Pos, cmd_axis' = cmd_axis
    PROVE  AxisMoves
BY PosFacts DEF AxisMoves, ShortStep

\* A control cycle of the machine.
LEMMA MachineCyclePos ==
    ASSUME TypeOK, NoBackOffInJump, PosInv, run_once
    PROVE  PosInv' /\ AxisMoves
<1>0. cmd_axis \in Pos /\ pm \in PointMoves
    BY DEF TypeOK, SharedTypeOK, MachineTypeOK
<1>1. CASE UNCHANGED <<machineVars, runnerVars, pmcVars, cmd_axis>>
    BY <1>0, <1>1, AxisRests, PhaseUnchanged DEF PosInv, ManualKept, AutoKept, machineVars
<1>2. CASE main_mode = "Manual" /\ mainmode_manual
  <2>0. pm.curr = cmd_axis /\ UNCHANGED <<runnerVars, pmcVars>>
      BY <1>2 DEF PosInv, ManualKept, mainmode_manual
  <2>1. LineKept' /\ main_mode' # "Auto"
      BY <1>2, <2>0 DEF PosInv, LineKept, runnerVars, mainmode_manual
  <2>2. CASE UNCHANGED cmd_axis /\ main_mode' = "Idle"
      BY <1>0, <2>1, <2>2, AxisRests DEF PosInv, ManualKept, AutoKept
  <2>3. CASE ~touch.warning /\ \E p \in PmRunOnce(pm) : pm' = p /\ cmd_axis' = p.curr
    <3>1. PICK p \in PmRunOnce(pm) : pm' = p /\ cmd_axis' = p.curr
        BY <2>3
    <3>2. Abs(p.curr - pm.curr) <= MaxStep
        BY <1>0, <3>1, PmCycle
    <3> QED BY <2>0, <2>1, <2>3, <3>1, <3>2
            DEF PosInv, ManualKept, AutoKept, AxisMoves, ShortStep
  <2> QED BY <1>2, <2>2, <2>3 DEF mainmode_manual, TouchHit
<1>3. CASE main_mode = "Auto" /\ mainmode_auto
  <2>1. AutoCycleMoves
      BY <1>3, AutoCycleStep DEF PosInv, AutoKept, mainmode_auto
  <2>2. main_mode' # "Manual"
      BY <1>3 DEF mainmode_auto
  <2> QED BY <1>3, <2>1, <2>2 DEF AutoCycleMoves, AxisMoves, PosInv, ManualKept, AutoKept
<1> QED BY <1>1, <1>2, <1>3 DEF run_once, mainmode_idle

\* A command moves nothing, and leaves the phases as they should be.
LEMMA CommandPos ==
    ASSUME TypeOK, PosInv, NEW ret \in BOOLEAN, MotionCommand(ret)
    PROVE  PosInv' /\ cmd_axis' = cmd_axis
<1>0. cmd_axis \in Pos
    BY DEF TypeOK, SharedTypeOK
<1>1. CASE UNCHANGED <<machineVars, runnerVars, pmcVars, cmd_axis>>
    BY <1>1, PhaseUnchanged DEF PosInv, ManualKept, AutoKept, machineVars
<1>2. CASE StartPointMove(ret) \/ StopPointMove(ret)
    BY <1>0, <1>1, <1>2, ManualCallPos, ZeroPos
       DEF StartPointMove, StopPointMove, Ignored, motionVars
<1>3. ASSUME NEW t, start_auto(ret, t), UNCHANGED cmd_axis,
             Moves(t) => TaskPos(t) = cmd_axis, t.kind = "G01" => OnLine(t)
      PROVE  PosInv' /\ cmd_axis' = cmd_axis
    BY <1>0, <1>3, StartPos
<1>4. CASE StartG00FastMove(ret)
  <2>1. \A target \in Pos, detect \in BOOLEAN :
          LET t == NewG00(cmd_axis, target, detect)
          IN  TaskPos(t) = cmd_axis /\ t.kind # "G01"
      BY <1>0, NewTaskPos
  <2> QED BY <1>1, <1>3, <1>4, <2>1 DEF StartG00FastMove, Ignored, motionVars
<1>5. CASE StartG01ServoMove(ret)
  <2>1. \A target \in Pos :
          LET t == NewG01(cmd_axis, target)
          IN  TaskPos(t) = cmd_axis /\ OnLine(t)
      BY <1>0, NewTaskPos
  <2> QED BY <1>1, <1>3, <1>5, <2>1 DEF StartG01ServoMove, start_auto_g01, Ignored, motionVars
<1>6. CASE G04Delay(ret) \/ M00FakePauseTask(ret)
  <2>1. /\ \A delay : ~Moves(NewG04(delay)) /\ NewG04(delay).kind # "G01"
        /\ ~Moves(NewM00) /\ NewM00.kind # "G01"
      BY <1>0, NewTaskPos
  <2> QED BY <1>1, <1>3, <1>6, <2>1 DEF G04Delay, M00FakePauseTask, Ignored, motionVars
<1>7. CASE G01Group(ret)
  <2>1. \A corners : LET t == NewG01Group(cmd_axis, corners)
                     IN  TaskPos(t) = cmd_axis /\ t.kind # "G01"
      BY <1>0, NewTaskPos
  <2> QED BY <1>3, <1>7, <2>1 DEF G01Group
<1>8. CASE Auto_Stop(ret) \/ Auto_Pause(ret) \/ Auto_Resume(ret)
  <2>1. UNCHANGED <<machineVars, cmd_axis>>
      BY <1>8 DEF Auto_Stop, Auto_Pause, Auto_Resume, stop_auto, pause_auto, resume_auto
  <2>2. CASE main_mode = "Auto"
    <3>1. \E immediate \in BOOLEAN :
            runner_pause(ret) \/ runner_resume(ret) \/ runner_stop(ret, immediate)
        BY <1>8, <2>2 DEF Auto_Stop, Auto_Pause, Auto_Resume, stop_auto, pause_auto,
                          resume_auto
    <3>2. LineKept' /\ (TaskPhase' \/ RecoveryPhase')
        BY <2>1, <2>2, <3>1, AutoCallPhase DEF PosInv, AutoKept
    <3> QED BY <2>1, <2>2, <3>2 DEF PosInv, ManualKept, AutoKept, machineVars
  <2>3. CASE main_mode # "Auto"
      BY <1>1, <1>8, <2>1, <2>3
         DEF Auto_Stop, Auto_Pause, Auto_Resume, stop_auto, pause_auto, resume_auto, Answer
  <2> QED BY <2>2, <2>3
<1>9. CASE EmergencyStopAllMove(ret)
    BY <1>9 DEF EmergencyStopAllMove, reset_and_enable, runner_reset, NoTask, PosInv,
                LineKept, ManualKept, AutoKept
<1>10. CASE Setting_ClearWarning(ret)
    BY <1>1, <1>10 DEF Setting_ClearWarning
<1> QED BY <1>2, <1>4, <1>5, <1>6, <1>7, <1>8, <1>9, <1>10 DEF MotionCommand

\* Every step keeps the phases and moves the axis as it may.
LEMMA PosInvStep ==
    TypeOK /\ NoBackOffInJump /\ PosInv /\ [Next]_vars => PosInv' /\ AxisMoves
<1> SUFFICES ASSUME TypeOK, NoBackOffInJump, PosInv, [Next]_vars PROVE PosInv' /\ AxisMoves
    OBVIOUS
<1>0. cmd_axis \in Pos
    BY DEF TypeOK, SharedTypeOK
<1>1. CASE UNCHANGED motionVars
    BY <1>0, <1>1, AxisRests, PhaseUnchanged
       DEF PosInv, ManualKept, AutoKept, machineVars, motionVars
<1>2. CASE /\ \E enable \in BOOLEAN : reset_and_enable(enable)
           /\ cmd_axis' = cmd_axis \/ ~Ready
  <2>1. PosInv'
      BY <1>2 DEF reset_and_enable, runner_reset, NoTask, PosInv, LineKept, ManualKept,
                  AutoKept
  <2> QED BY <1>0, <1>2, <2>1, AxisRests DEF AxisMoves
<1>3. CASE run_once
    BY <1>3, MachineCyclePos
<1>4. CASE \E ret \in BOOLEAN : MotionCommand(ret)
    BY <1>0, <1>4, CommandPos, AxisRests
<1> QED BY <1>1, <1>2, <1>3, <1>4, StepCases

----------------------------------------------------------------------------
\* The invariant holds when the thread starts.
LEMMA PosInvInit == Init => PosInv
BY DEF Init, MachineInit, NoTask, PosInv, LineKept, ManualKept, AutoKept

\* Every reachable state has the invariant, and every step moves the axis as
\* it may.
LEMMA PosInvHolds == Spec => []PosInv /\ [][AxisMoves]_vars
<1>1. TypeOK /\ NoBackOffInJump /\ PosInv /\ [Next]_vars => PosInv'
    BY PosInvStep
<1>2. TypeOK /\ NoBackOffInJump /\ PosInv /\ [Next]_vars => [AxisMoves]_vars
    BY PosInvStep
<1> QED BY <1>1, <1>2, PosInvInit, TypeCorrect, BackOffAfterJump, PTL DEF Spec

\* Whenever the task commands the axis, whatever pauses, manual moves in them,
\* ways back and stops came before, it goes on from where the axis stands.
THEOREM TaskGoesOnFromAxis == Spec => []TaskHoldsAxis
<1>1. PosInv => TaskHoldsAxis
    BY DEF PosInv, AutoKept, TaskPhase, RecoveryPhase, TaskAtAxis, TaskHoldsAxis
<1> QED BY <1>1, PosInvHolds, PTL

\* The way back is never lost: in a pause and on the way back the recorded
\* moves and the move being made lead from the task to the axis, for every
\* number and length of manual moves.
THEOREM WayBackLeadsHome == Spec => []WayBackKept
<1>1. PosInv => WayBackKept
  <2> SUFFICES ASSUME PosInv PROVE WayBackKept
      OBVIOUS
  <2>1. CASE main_mode = "Auto" /\ state = "Paused" /\ ~Recovery
      BY <2>1 DEF PosInv, AutoKept, TaskPhase, RecoveryPhase, ManualInPause, WayBackKept
  <2>2. CASE main_mode = "Auto" /\ Recovery
      BY <2>2 DEF PosInv, AutoKept, TaskPhase, RecoveryPhase, Undoing, Undone, Leaving,
                  WayBackKept, PmOver
  <2> QED BY <2>1, <2>2 DEF WayBackKept
<1> QED BY <1>1, PosInvHolds, PTL

\* The axis never jumps: whoever wrote the commanded position last, one control
\* cycle of a ready link changes it by MaxStep at most.
THEOREM AxisNeverJumps == Spec => NoCmdAxisJump
<1>1. AxisMoves => ecat_state # "EcatReady" \/ Abs(cmd_axis' - cmd_axis) <= MaxStep
    BY DEF AxisMoves, ShortStep, Ready
<1> QED BY <1>1, PosInvHolds, PTL DEF NoCmdAxisJump

\* A latched contact holds the axis against manual moves, moves in a pause and
\* fast moves, started before or after it.
THEOREM ContactHoldsAxis == Spec => WarningHoldsAxis
<1>1. AxisMoves => ((Ready /\ touch.warning /\ cmd_axis' # cmd_axis) =>
         /\ main_mode = "Auto"
         /\ Recovery \/ (state # "Paused" /\ task.kind \in {"G01", "G01Group"}))
    BY DEF AxisMoves
<1> QED BY <1>1, PosInvHolds, PTL DEF WarningHoldsAxis

=============================================================================

--------------------------- MODULE MotionTheorems ---------------------------
(***************************************************************************)
(* The motion thread, for every travel, step, delay and number of segments.*)
(*                                                                         *)
(* First its type correctness, Spec => []TypeOK, one lemma per layer: the  *)
(* point move, the tasks, the pause-move controller, the runner, the       *)
(* machine and the thread.  Then its control: the modes of the machine and *)
(* of the runner match, the task rests while the runner is paused or on    *)
(* its way back, a ready link has an enabled machine, no jump backs off,   *)
(* and the power outputs are on only while a task machines.                *)
(***************************************************************************)
EXTENDS MotionProperties, SequenceTheorems, TLAPS

----------------------------------------------------------------------------
(* What every call of a point move returns.  The owners of a point move    *)
(* (machine, pause-move controller, G00, jump) rest on these facts.        *)

PmResults == [ok : BOOLEAN, pm : PointMoves]

\* The points between two points, and those ahead, are on the axis.
LEMMA BetweenPos == \A a, b : Between(a, b) \subseteq Pos /\ Toward(a, b) \subseteq Pos
BY DEF Between, Toward, Ahead

\* A handler that was never started is a point move.
LEMMA IdlePmType == IdlePm \in PointMoves
BY PointMoveAssumption DEF IdlePm, PointMoves, MrtState, Pos

\* start answers a Boolean and leaves a point move.
LEMMA PmStartType ==
    ASSUME NEW p \in PointMoves, NEW from \in Pos, NEW to \in Pos
    PROVE  PmStart(p, from, to) \in PmResults
BY DEF PmStart, PmResult, PmResults, PointMoves, MrtState

\* So does the replan that decelerates.
LEMMA PmDecelerateType ==
    ASSUME NEW p \in PointMoves, NEW st \in MrtState
    PROVE  PmDecelerate(p, st) \subseteq PmResults
<1> SUFFICES ASSUME NEW g \in Between(p.curr, p.target)
             PROVE  PmResult(TRUE, [p EXCEPT !.st = st, !.goal = g, !.moving = FALSE])
                      \in PmResults
    BY DEF PmDecelerate
<1> g \in Pos
    BY BetweenPos
<1> QED BY DEF PmResult, PmResults, PointMoves

\* Only the state of a point move changes.
LEMMA PmGoto ==
    ASSUME NEW p \in PointMoves, NEW st \in MrtState, NEW ok \in BOOLEAN
    PROVE  /\ PmResult(ok, p) \in PmResults
           /\ PmResult(ok, [p EXCEPT !.st = st]) \in PmResults
BY DEF PmResult, PmResults, PointMoves

\* A pause answers and keeps the move well typed.
LEMMA PmPauseType ==
    ASSUME NEW p \in PointMoves
    PROVE  PmPause(p) \subseteq PmResults
<1>1. PmDecelerate(p, "Pausing") \subseteq PmResults
    BY PmDecelerateType DEF MrtState
<1>2. PmResult(TRUE, p) \in PmResults /\ PmResult(FALSE, p) \in PmResults
    BY PmGoto DEF MrtState
<1>3. PmResult(TRUE, [p EXCEPT !.st = "Paused"]) \in PmResults
    BY PmGoto DEF MrtState
<1> QED BY <1>1, <1>2, <1>3 DEF PmPause

\* So does a resume.
LEMMA PmResumeType ==
    ASSUME NEW p \in PointMoves
    PROVE  PmResume(p) \in PmResults
BY DEF PmResume, PmResult, PmResults, PointMoves, MrtState

\* So does a stop, immediate or not.
LEMMA PmStopType ==
    ASSUME NEW p \in PointMoves, NEW immediate \in BOOLEAN
    PROVE  PmStop(p, immediate) \subseteq PmResults
<1>1. PmDecelerate(p, "Stopping") \subseteq PmResults
    BY PmDecelerateType DEF MrtState
<1>2. PmResult(TRUE, p) \in PmResults /\ PmResult(FALSE, p) \in PmResults
    BY PmGoto DEF MrtState
<1>3. /\ PmResult(TRUE, [p EXCEPT !.st = "Stopped"]) \in PmResults
      /\ PmResult(TRUE, [p EXCEPT !.st = "Stopping"]) \in PmResults
    BY PmGoto DEF MrtState
<1> QED BY <1>1, <1>2, <1>3 DEF PmStop

\* A control cycle stays on the axis.
LEMMA PmRunOnceType ==
    ASSUME NEW p \in PointMoves
    PROVE  PmRunOnce(p) \subseteq PointMoves
<1>1. CASE p.st \notin {"Running", "Pausing", "Stopping"}
    BY <1>1 DEF PmRunOnce
<1>2. CASE p.st \in {"Running", "Pausing", "Stopping"} /\ p.curr = p.goal
    BY <1>2 DEF PmRunOnce, PointMoves, MrtState
<1>3. CASE p.st \in {"Running", "Pausing", "Stopping"} /\ p.curr # p.goal
  <2> SUFFICES ASSUME NEW c \in Toward(p.curr, p.goal)
               PROVE  [p EXCEPT !.curr = c, !.moving = TRUE] \in PointMoves
      BY <1>3 DEF PmRunOnce
  <2> c \in Pos
      BY BetweenPos
  <2> QED BY DEF PointMoves
<1> QED BY <1>1, <1>2, <1>3

----------------------------------------------------------------------------
(* The tasks.                                                              *)

RealTasks == G00Tasks \cup G01Tasks \cup GroupTasks \cup G04Tasks \cup M00Tasks

TaskResults == [ok : BOOLEAN, task : RealTasks]

\* The kind of a task tells its class.
LEMMA TaskKinds ==
    ASSUME NEW t \in Tasks
    PROVE  /\ t.kind = "G00" => t \in G00Tasks
           /\ t.kind = "G01" => t \in G01Tasks
           /\ t.kind = "G01Group" => t \in GroupTasks
           /\ t.kind = "G04" => t \in G04Tasks
           /\ t.kind = "M00" => t \in M00Tasks
           /\ t # NoTask => t \in RealTasks
           /\ t \in RealTasks => t.kind \in {"G00", "G01", "G01Group", "G04", "M00"}
<1>1. CASE t = NoTask
    BY <1>1 DEF NoTask, RealTasks, G00Tasks, G01Tasks, GroupTasks, G04Tasks, M00Tasks
<1>2. CASE t \in G00Tasks
    BY <1>2 DEF G00Tasks, RealTasks
<1>3. CASE t \in G01Tasks
    BY <1>3 DEF G01Tasks, RealTasks
<1>4. CASE t \in GroupTasks
    BY <1>4 DEF GroupTasks, RealTasks
<1>5. CASE t \in G04Tasks
    BY <1>5 DEF G04Tasks, RealTasks
<1>6. CASE t \in M00Tasks
    BY <1>6 DEF M00Tasks, RealTasks
<1> QED BY <1>1, <1>2, <1>3, <1>4, <1>5, <1>6 DEF Tasks

\* The same for the tasks a runner may hold other than none.
LEMMA RealTaskKinds ==
    ASSUME NEW t \in RealTasks
    PROVE  /\ t \in Tasks
           /\ \/ t.kind = "G00" /\ t \in G00Tasks
              \/ t.kind = "G01" /\ t \in G01Tasks
              \/ t.kind = "G01Group" /\ t \in GroupTasks
              \/ t.kind = "G04" /\ t \in G04Tasks
              \/ t.kind = "M00" /\ t \in M00Tasks
BY DEF RealTasks, Tasks, G00Tasks, G01Tasks, GroupTasks, G04Tasks, M00Tasks

----------------------------------------------------------------------------
\* A G00 keeps its class under every call of its point move.
LEMMA G00CallType ==
    ASSUME NEW t \in G00Tasks, NEW results, results \subseteq PmResults
    PROVE  G00Call(t, results) \subseteq TaskResults
<1> SUFFICES ASSUME NEW r \in results
             PROVE  TaskResult(r.ok, [t EXCEPT !.pm = r.pm]) \in TaskResults
    BY DEF G00Call
<1>1. r.ok \in BOOLEAN /\ r.pm \in PointMoves
    BY DEF PmResults
<1>2. [t EXCEPT !.pm = r.pm] \in G00Tasks
    BY <1>1 DEF G00Tasks
<1> QED BY <1>1, <1>2 DEF TaskResult, TaskResults, RealTasks

\* The parts of an answer.
LEMMA TaskResultType ==
    ASSUME NEW t \in RealTasks, NEW ok \in BOOLEAN
    PROVE  TaskResult(ok, t) \in TaskResults
BY DEF TaskResult, TaskResults

\* Pausing a task answers and keeps it a task.
LEMMA TaskPauseType ==
    ASSUME NEW t \in RealTasks
    PROVE  TaskPause(t) \subseteq TaskResults
<1>1. CASE t.kind = "G00" /\ t \in G00Tasks
  <2> t.pm \in PointMoves
      BY <1>1 DEF G00Tasks
  <2> QED BY <1>1, PmPauseType, G00CallType DEF TaskPause
<1>2. CASE t.kind = "G01" /\ t \in G01Tasks
  <2>1. [t EXCEPT !.st = "Pausing", !.sub = "WaitingForJumpEnd"] \in G01Tasks
      BY <1>2 DEF G01Tasks, TaskState
  <2>2. G01Pause(t) \in TaskResults
      BY <2>1, TaskResultType DEF G01Pause, RealTasks
  <2> QED BY <1>2, <2>2 DEF TaskPause
<1>3. CASE t.kind = "G01Group" /\ t \in GroupTasks
  <2>1. [t EXCEPT !.st = "Pausing"] \in GroupTasks
      BY <1>3 DEF GroupTasks, TaskState
  <2>2. GroupPause(t) \in TaskResults
      BY <2>1, TaskResultType DEF GroupPause, Goto, RealTasks
  <2> QED BY <1>3, <2>2 DEF TaskPause
<1>4. CASE t.kind = "G04" /\ t \in G04Tasks
  <2>1. t.st # "Stopped" => [t EXCEPT !.st = "Paused"] \in G04Tasks
      BY <1>4 DEF G04Tasks
  <2>2. G04Pause(t) \in TaskResults
      BY <2>1, TaskResultType DEF G04Pause, Goto, RealTasks
  <2> QED BY <1>4, <2>2 DEF TaskPause
<1>5. CASE t.kind = "M00" /\ t \in M00Tasks
  <2>1. M00Pause(t) \in TaskResults
      BY TaskResultType DEF M00Pause
  <2> QED BY <1>5, <2>1 DEF TaskPause
<1> QED BY <1>1, <1>2, <1>3, <1>4, <1>5, RealTaskKinds

\* Resuming a task answers and keeps it a task.
LEMMA TaskResumeType ==
    ASSUME NEW t \in RealTasks
    PROVE  TaskResume(t) \subseteq TaskResults
<1>1. CASE t.kind = "G00" /\ t \in G00Tasks
  <2> t.pm \in PointMoves
      BY <1>1 DEF G00Tasks
  <2> {PmResume(t.pm)} \subseteq PmResults
      BY PmResumeType
  <2> QED BY <1>1, G00CallType DEF TaskResume
<1>2. CASE t.kind = "G01" /\ t \in G01Tasks
  <2>1. [t EXCEPT !.st = "Resuming"] \in G01Tasks
      BY <1>2 DEF G01Tasks, TaskState
  <2>2. G01Resume(t) \in TaskResults
      BY <2>1, TaskResultType DEF G01Resume, Goto, RealTasks
  <2> QED BY <1>2, <2>2 DEF TaskResume
<1>3. CASE t.kind = "G01Group" /\ t \in GroupTasks
  <2>1. [t EXCEPT !.st = "Resuming"] \in GroupTasks
      BY <1>3 DEF GroupTasks, TaskState
  <2>2. G01Resume(t) \in TaskResults
      BY <2>1, TaskResultType DEF G01Resume, Goto, RealTasks
  <2> QED BY <1>3, <2>2 DEF TaskResume
<1>4. CASE t.kind = "G04" /\ t \in G04Tasks
  <2>1. t.st = "Paused" => [t EXCEPT !.st = "NormalRunning"] \in G04Tasks
      BY <1>4 DEF G04Tasks
  <2>2. G04Resume(t) \in TaskResults
      BY <2>1, TaskResultType DEF G04Resume, Goto, RealTasks
  <2> QED BY <1>4, <2>2 DEF TaskResume
<1>5. CASE t.kind = "M00" /\ t \in M00Tasks
  <2>1. [t EXCEPT !.st = "Stopped"] \in M00Tasks
      BY <1>5 DEF M00Tasks
  <2>2. M00Resume(t) \in TaskResults
      BY <2>1, TaskResultType DEF M00Resume, Goto, RealTasks
  <2> QED BY <1>5, <2>2 DEF TaskResume
<1> QED BY <1>1, <1>2, <1>3, <1>4, <1>5, RealTaskKinds

\* Stopping a task answers and keeps it a task.
LEMMA TaskStopType ==
    ASSUME NEW t \in RealTasks, NEW immediate \in BOOLEAN
    PROVE  TaskStop(t, immediate) \subseteq TaskResults
<1>1. CASE t.kind = "G00" /\ t \in G00Tasks
  <2> t.pm \in PointMoves
      BY <1>1 DEF G00Tasks
  <2> QED BY <1>1, PmStopType, G00CallType DEF TaskStop
<1>2. CASE t.kind = "G01" /\ t \in G01Tasks
  <2>1. /\ [t EXCEPT !.st = "Stopping", !.sub = "WaitingForJumpEnd"] \in G01Tasks
        /\ [t EXCEPT !.st = "Stopping"] \in G01Tasks
        /\ [t EXCEPT !.st = "Stopped"] \in G01Tasks
      BY <1>2 DEF G01Tasks, TaskState
  <2>2. G01Stop(t) \in TaskResults
      BY <2>1, TaskResultType DEF G01Stop, Goto, RealTasks
  <2> QED BY <1>2, <2>2 DEF TaskStop
<1>3. CASE t.kind = "G01Group" /\ t \in GroupTasks
  <2>1. [t EXCEPT !.st = "Stopping"] \in GroupTasks
      BY <1>3 DEF GroupTasks, TaskState
  <2>2. GroupStop(t) \in TaskResults
      BY <2>1, TaskResultType DEF GroupStop, Goto, RealTasks
  <2> QED BY <1>3, <2>2 DEF TaskStop
<1>4. CASE t.kind = "G04" /\ t \in G04Tasks
  <2>1. [t EXCEPT !.st = "Stopped"] \in G04Tasks
      BY <1>4 DEF G04Tasks
  <2>2. Goto(t, "Stopped") \in TaskResults
      BY <2>1, TaskResultType DEF Goto, RealTasks
  <2> QED BY <1>4, <2>2 DEF TaskStop
<1>5. CASE t.kind = "M00" /\ t \in M00Tasks
  <2>1. [t EXCEPT !.st = "Stopped"] \in M00Tasks
      BY <1>5 DEF M00Tasks
  <2>2. Goto(t, "Stopped") \in TaskResults
      BY <2>1, TaskResultType DEF Goto, RealTasks
  <2> QED BY <1>5, <2>2 DEF TaskStop
<1> QED BY <1>1, <1>2, <1>3, <1>4, <1>5, RealTaskKinds

----------------------------------------------------------------------------
\* The tasks the commands construct.
LEMMA NewTaskTypes ==
    ASSUME NEW from \in Pos, NEW to \in Pos, NEW detect \in BOOLEAN,
           NEW corners \in Seq(Pos), NEW delay \in 1..MaxDelay
    PROVE  /\ NewG00(from, to, detect) \in RealTasks
           /\ NewG01(from, to) \in RealTasks
           /\ NewG01Group(from, corners) \in RealTasks
           /\ NewG04(delay) \in RealTasks
           /\ NewM00 \in RealTasks
<1>1. NewG00(from, to, detect) \in G00Tasks
  <2> PmStart(IdlePm, from, to).pm \in PointMoves
      BY IdlePmType, PmStartType DEF PmResults
  <2> QED BY DEF NewG00, G00Tasks
<1>2. NewG01(from, to) \in G01Tasks
    BY IdlePmType, AutoTasksAssumption DEF NewG01, G01Tasks, TaskState
<1>3. NewG01Group(from, corners) \in GroupTasks
  <2> <<from>> \o corners \in Seq(Pos)
      OBVIOUS
  <2> QED BY DEF NewG01Group, GroupTasks, TaskState
<1>4. NewG04(delay) \in G04Tasks
    BY AutoTasksAssumption DEF NewG04, G04Tasks
<1>5. NewM00 \in M00Tasks
    BY DEF NewM00, M00Tasks
<1> QED BY <1>1, <1>2, <1>3, <1>4, <1>5 DEF RealTasks

\* A fed line stays on its segment, whatever the servo asks for.
LEMMA FedType ==
    ASSUME NEW t \in G01Tasks, NEW d \in Int
    PROVE  Fed(t, d) \in Pos
BY BetweenPos DEF Fed, G01Tasks

\* What a control cycle of a task leaves.
CycleTypeOK ==
    /\ task \in RealTasks
    /\ cmd_axis \in Pos
    /\ touch \in [enabled : BOOLEAN, warning : BOOLEAN]
    /\ power \in [gate : BOOLEAN, mach : BOOLEAN]

\* One cycle of a fast move.
LEMMA G00RunOnceType ==
    ASSUME CycleTypeOK, task \in G00Tasks, G00RunOnce
    PROVE  CycleTypeOK'
<1> PICK contact \in BOOLEAN :
      LET armed == SetDetectEnable(touch, task.detect)
          hit == TouchHit(armed, contact)
          seen == TouchAfter(armed, contact)
          halted == [task.pm EXCEPT !.st = IF hit THEN "Stopped" ELSE @]
      IN  \E p \in PmRunOnce(halted) :
            /\ task' = [task EXCEPT !.pm = p]
            /\ cmd_axis' = p.curr
            /\ touch' = IF PmOver(p) \/ p.st = "Paused"
                          THEN SetDetectEnable(seen, FALSE) ELSE seen
            /\ UNCHANGED power
    BY DEF G00RunOnce
<1> DEFINE armed == SetDetectEnable(touch, task.detect)
           hit == TouchHit(armed, contact)
           seen == TouchAfter(armed, contact)
           halted == [task.pm EXCEPT !.st = IF hit THEN "Stopped" ELSE @]
<1>1. armed \in [enabled : BOOLEAN, warning : BOOLEAN]
    BY DEF CycleTypeOK, SetDetectEnable, G00Tasks
<1>2. seen \in [enabled : BOOLEAN, warning : BOOLEAN]
    BY <1>1 DEF TouchAfter
<1>3. halted \in PointMoves
    BY DEF G00Tasks, PointMoves, MrtState
<1>4. PICK p \in PmRunOnce(halted) :
            /\ task' = [task EXCEPT !.pm = p]
            /\ cmd_axis' = p.curr
            /\ touch' = IF PmOver(p) \/ p.st = "Paused"
                          THEN SetDetectEnable(seen, FALSE) ELSE seen
            /\ UNCHANGED power
    OBVIOUS
<1>5. p \in PointMoves
    BY <1>3, PmRunOnceType
<1> HIDE DEF armed, hit, seen, halted
<1>6. task' \in G00Tasks
    BY <1>4, <1>5 DEF G00Tasks
<1>7. cmd_axis' \in Pos
    BY <1>4, <1>5 DEF PointMoves
<1>8. touch' \in [enabled : BOOLEAN, warning : BOOLEAN]
    BY <1>2, <1>4 DEF SetDetectEnable
<1> QED BY <1>4, <1>6, <1>7, <1>8 DEF CycleTypeOK, RealTasks

\* The jump states of a G01.
LEMMA G01JumpType ==
    ASSUME CycleTypeOK, task \in G01Tasks, G01Jump
    PROVE  task' \in G01Tasks /\ cmd_axis' \in Pos
             /\ power' \in [gate : BOOLEAN, mach : BOOLEAN]
<1>0. /\ task.jump \in PointMoves
      /\ PmRunOnce(task.jump) \subseteq PointMoves
      /\ task.down \in Pos /\ task.before \in Pos /\ task.pos \in Pos
    BY PmRunOnceType DEF G01Tasks
<1>1. CASE G01JumpUping
  <2>1. PICK p \in PmRunOnce(task.jump) :
          /\ cmd_axis' = p.curr
          /\ \/ /\ ~PmOver(p)
                /\ task' = [task EXCEPT !.jump = p]
                /\ UNCHANGED power
             \/ /\ PmOver(p)
                /\ task' = [task EXCEPT !.servo = "JumpDowning",
                              !.jump = PmStart(p, p.target, task.down).pm]
                /\ power' = [power EXCEPT !.gate = TRUE]
      BY <1>1 DEF G01JumpUping
  <2>2. p \in PointMoves /\ p.target \in Pos /\ p.curr \in Pos
      BY <1>0 DEF PointMoves
  <2>3. PmStart(p, p.target, task.down).pm \in PointMoves
      BY <1>0, <2>2, PmStartType DEF PmResults
  <2> QED BY <2>1, <2>2, <2>3 DEF G01Tasks, CycleTypeOK
<1>2. CASE G01JumpDowning
  <2>1. PICK p \in PmRunOnce(task.jump) :
          /\ cmd_axis' = p.curr
          /\ task' = IF PmOver(p)
                       THEN [task EXCEPT !.jump = p, !.servo = "JumpDowningBuffer",
                                         !.pos = task.down]
                       ELSE [task EXCEPT !.jump = p]
          /\ UNCHANGED power
      BY <1>2 DEF G01JumpDowning
  <2>2. p \in PointMoves /\ p.curr \in Pos
      BY <1>0 DEF PointMoves
  <2> QED BY <2>1, <2>2 DEF G01Tasks, CycleTypeOK
<1>3. CASE G01JumpDowningBuffer
  <2>1. PICK d \in 0..MaxStep :
          LET over == d = 0 \/ d >= Abs(task.before - task.pos)
              reached == IF over THEN task.before ELSE Fed(task, d)
          IN  /\ task' = [task EXCEPT !.pos = IF d = 0 THEN @ ELSE reached,
                            !.servo = IF over THEN "Servoing" ELSE @]
              /\ cmd_axis' = IF d = 0 THEN cmd_axis ELSE reached
              /\ UNCHANGED power
      BY <1>3 DEF G01JumpDowningBuffer
  <2>2. Fed(task, d) \in Pos
      BY FedType
  <2> QED BY <1>0, <2>1, <2>2 DEF G01Tasks, CycleTypeOK
<1> QED BY <1>1, <1>2, <1>3 DEF G01Jump

\* One cycle of a machining line in any of its states.
LEMMA G01RunOnceType ==
    ASSUME CycleTypeOK, task \in G01Tasks, G01RunOnce
    PROVE  CycleTypeOK'
<1> SUFFICES /\ task' \in G01Tasks
             /\ cmd_axis' \in Pos
             /\ power' \in [gate : BOOLEAN, mach : BOOLEAN]
    BY DEF CycleTypeOK, RealTasks, G01RunOnce
<1> USE DEF CycleTypeOK
<1>1. CASE G01StartJump
  <2>1. PICK up \in Pos, down \in Between(task.start, task.pos) :
          /\ task' = [task EXCEPT !.servo = "JumpUping", !.before = task.pos,
                        !.down = down, !.jump = PmStart(task.jump, task.pos, up).pm]
          /\ power' = [power EXCEPT !.gate = FALSE]
          /\ UNCHANGED cmd_axis
      BY <1>1 DEF G01StartJump
  <2>2. task.pos \in Pos /\ task.jump \in PointMoves
      BY DEF G01Tasks
  <2>3. PmStart(task.jump, task.pos, up).pm \in PointMoves
      BY <2>2, PmStartType DEF PmResults
  <2>4. down \in Pos
      BY BetweenPos
  <2> QED BY <2>1, <2>2, <2>3, <2>4 DEF G01Tasks
<1>2. CASE G01Servo
  <2>1. PICK d \in -MaxStep..MaxStep :
          /\ G01Feed([task EXCEPT !.pos = Fed(task, d),
                       !.st = IF d > 0 /\ Fed(task, d) = task.end
                                THEN "Stopping" ELSE @])
          /\ UNCHANGED power
      BY <1>2 DEF G01Servo
  <2>2. Fed(task, d) \in Pos
      BY FedType
  <2> QED BY <2>1, <2>2 DEF G01Tasks, G01Feed, TaskState
<1>3. CASE G01Jump
    BY <1>3, G01JumpType
<1>4. CASE G01PausingOrStopping
  <2>1. CASE G01JumpEnded
    <3>1. 0 \in 0..BackDist /\ task.gone \in 0..BackDist
        BY AutoTasksAssumption DEF G01Tasks
    <3>2. PICK g \in 0..BackDist :
            task' = [task EXCEPT !.sub = "BackingToBegin", !.gone = g]
        BY <2>1, <3>1 DEF G01JumpEnded
    <3> QED BY <2>1, <3>2 DEF G01JumpEnded, G01Tasks
  <2>2. CASE task.sub = "BackingToBegin" /\ task' = [task EXCEPT !.st = "Stopped"]
                /\ UNCHANGED <<cmd_axis, power>>
      BY <2>2 DEF G01Tasks, TaskState
  <2>3. CASE G01BackOff /\ UNCHANGED power
    <3>1. Fed(task, -1) \in Pos
        BY FedType
    <3>2. /\ task.gone \in 0..BackDist
          /\ task.gone # BackDist => task.gone + 1 \in 0..BackDist
          /\ task.pos \in Pos /\ task.st \in TaskState /\ "Paused" \in TaskState
        BY AutoTasksAssumption DEF G01Tasks, TaskState
    <3>3. PICK x \in Pos, g \in 0..BackDist, st \in TaskState :
            /\ task' = [task EXCEPT !.pos = x, !.gone = g, !.st = st]
            /\ cmd_axis' = [task EXCEPT !.pos = x, !.gone = g, !.st = st].pos
        BY <2>3, <3>1, <3>2 DEF G01BackOff, G01Feed
    <3> QED BY <2>3, <3>3 DEF G01Tasks
  <2> QED BY <1>3, <1>4, <2>1, <2>2, <2>3 DEF G01PausingOrStopping
<1>5. CASE G01Resuming
    BY <1>5 DEF G01Resuming, G01Tasks, TaskState
<1> QED BY <1>1, <1>2, <1>3, <1>4, <1>5 DEF G01RunOnce, G01NormalRunning

\* One cycle of a group of lines.
LEMMA GroupRunOnceType ==
    ASSUME CycleTypeOK, task \in GroupTasks, GroupRunOnce
    PROVE  CycleTypeOK'
<1>1. CASE task.st = "NormalRunning" /\ GroupNormalRunning
  <2>1. PICK x \in {task.pos} \cup Toward(task.pos, task.pts[task.seg + 1]) :
          /\ \E a, b \in BOOLEAN :
               task' = [task EXCEPT !.pos = x,
                            !.seg = IF a THEN @ + 1 ELSE @,
                            !.st = IF b THEN "Stopped" ELSE @]
          /\ cmd_axis' = x
      BY <1>1 DEF GroupNormalRunning
  <2>2. x \in Pos
      BY BetweenPos DEF GroupTasks
  <2>3. PICK s \in Nat \ {0}, st \in TaskState :
          task' = [task EXCEPT !.pos = x, !.seg = s, !.st = st]
    <3>1. /\ task.seg \in Nat \ {0} /\ task.seg + 1 \in Nat \ {0}
          /\ task.st \in TaskState /\ "Stopped" \in TaskState
        BY DEF GroupTasks, TaskState
    <3> QED BY <2>1, <3>1
  <2>4. task' \in GroupTasks
      BY <2>2, <2>3 DEF GroupTasks
  <2> QED BY <2>1, <2>2, <2>4 DEF CycleTypeOK, RealTasks, GroupRunOnce
<1>2. CASE task.st # "NormalRunning" /\ task' = [task EXCEPT !.st = GroupNext[task.st]]
             /\ UNCHANGED cmd_axis
  <2>1. GroupNext[task.st] \in TaskState
      BY <1>2 DEF GroupNext, GroupTasks, TaskState
  <2>2. task' \in GroupTasks
      BY <1>2, <2>1 DEF GroupTasks
  <2> QED BY <1>2, <2>2 DEF CycleTypeOK, RealTasks, GroupRunOnce
<1> QED BY <1>1, <1>2 DEF GroupRunOnce

\* One cycle of a delay.
LEMMA G04RunOnceType ==
    ASSUME CycleTypeOK, task \in G04Tasks, G04RunOnce
    PROVE  CycleTypeOK'
<1>1. task' \in G04Tasks
  <2>1. CASE task.st # "NormalRunning"
      BY <2>1 DEF G04RunOnce
  <2>2. CASE task.st = "NormalRunning" /\ task.left <= 1
    <3>1. task.left - 1 \in 0..MaxDelay
        BY <2>2, AutoTasksAssumption DEF G04Tasks
    <3>2. task' = [task EXCEPT !.left = task.left - 1, !.st = "Stopped"]
        BY <2>2 DEF G04RunOnce
    <3> QED BY <3>1, <3>2 DEF G04Tasks
  <2>3. CASE task.st = "NormalRunning" /\ ~(task.left <= 1)
    <3>1. task.left - 1 \in 0..MaxDelay /\ task.left - 1 > 0
        BY <2>3, AutoTasksAssumption DEF G04Tasks
    <3>2. task' = [task EXCEPT !.left = task.left - 1, !.st = task.st]
        BY <2>3 DEF G04RunOnce
    <3> QED BY <3>1, <3>2 DEF G04Tasks
  <2> QED BY <2>1, <2>2, <2>3
<1> QED BY <1>1 DEF G04RunOnce, CycleTypeOK, RealTasks

\* A control cycle keeps the task in its class, the axis on its travel and
\* the detector and the outputs well formed.
LEMMA TaskRunOnceType ==
    ASSUME CycleTypeOK, TaskRunOnce
    PROVE  CycleTypeOK'
<1>1. task \in Tasks
    BY RealTaskKinds DEF CycleTypeOK
<1>2. CASE task.kind = "M00" /\ UNCHANGED <<task, cmd_axis, touch, power>>
    BY <1>2 DEF CycleTypeOK
<1> QED BY <1>1, <1>2, TaskKinds, G00RunOnceType, G01RunOnceType, GroupRunOnceType,
           G04RunOnceType DEF TaskRunOnce

----------------------------------------------------------------------------
(* The types of the machine and of the thread.                             *)

TouchTypeOK == touch \in [enabled : BOOLEAN, warning : BOOLEAN]

----------------------------------------------------------------------------
(* The pause-move controller.                                              *)

\* A call on the stack of recorded moves keeps it a stack of moves.
LEMMA RecorderType ==
    ASSUME NEW s \in Seq(AxisRecord)
    PROVE  /\ \A r \in AxisRecord : Append(s, r) \in Seq(AxisRecord)
           /\ s # <<>> => Pop(s) \in Seq(AxisRecord) /\ Top(s) \in AxisRecord
BY DEF Pop, Top

\* Undoing the last recorded move starts a well-typed move.
LEMMA UndoTopType ==
    ASSUME PmcTypeOK, axis_recorder # <<>>
    PROVE  UndoTop \in PmResults
<1>1. Top(axis_recorder) \in AxisRecord
    BY RecorderType DEF PmcTypeOK
<1>2. Top(axis_recorder).stop \in Pos /\ Top(axis_recorder).start \in Pos
    BY <1>1 DEF AxisRecord
<1> QED BY <1>2, PmStartType DEF UndoTop, PmcTypeOK

\* Every call of the controller.
LEMMA PmcCallType ==
    ASSUME PmcTypeOK, cmd_axis \in Pos, NEW ret, NEW target \in Pos,
           NEW immediate \in BOOLEAN,
           \/ pmc_init
           \/ pmc_start_manual_pointmove(ret, target)
           \/ pmc_stop_manual_pointmove(ret, immediate)
           \/ pmc_pause_recover(ret)
           \/ pmc_resume_recover(ret)
           \/ pmc_activate_recover(ret)
           \/ pmc_stop(ret, immediate)
           \/ UNCHANGED pmcVars
    PROVE  PmcTypeOK'
<1>0. /\ PmcTypeOK' <=> /\ pmc_state' \in PmcState
                        /\ pmc_pm' \in PointMoves
                        /\ axis_recorder' \in Seq(AxisRecord)
      /\ pmc_state \in PmcState /\ pmc_pm \in PointMoves
      /\ axis_recorder \in Seq(AxisRecord)
    BY DEF PmcTypeOK
<1>1. CASE pmc_init
    BY <1>0, <1>1, IdlePmType DEF pmc_init, PmClear, PmcState
<1>2. CASE pmc_start_manual_pointmove(ret, target)
  <2>1. PmStart(pmc_pm, cmd_axis, target) \in PmResults
      BY <1>0, PmStartType
  <2>2. PmStart(pmc_pm, cmd_axis, target).pm \in PointMoves
      BY <2>1 DEF PmResults
  <2> QED BY <1>0, <1>2, <2>2 DEF pmc_start_manual_pointmove, pmcVars, PmcState
<1>3. CASE pmc_stop_manual_pointmove(ret, immediate)
  <2>1. \A r \in PmStop(pmc_pm, immediate) : r.pm \in PointMoves
      BY <1>0, PmStopType DEF PmResults
  <2> QED BY <1>0, <1>3, <2>1 DEF pmc_stop_manual_pointmove, pmcVars
<1>4. CASE pmc_pause_recover(ret)
  <2>1. \A r \in PmPause(pmc_pm) : r.pm \in PointMoves
      BY <1>0, PmPauseType DEF PmResults
  <2> QED BY <1>0, <1>4, <2>1 DEF pmc_pause_recover, pmcVars, PmcState
<1>5. CASE pmc_resume_recover(ret)
  <2>1. PmResume(pmc_pm).pm \in PointMoves
      BY <1>0, PmResumeType DEF PmResults
  <2> QED BY <1>0, <1>5, <2>1 DEF pmc_resume_recover, pmcVars, PmcState
<1>6. CASE pmc_activate_recover(ret)
  <2>1. axis_recorder # <<>> => UndoTop.pm \in PointMoves
      BY UndoTopType DEF PmResults
  <2>2. axis_recorder # <<>> => Pop(axis_recorder) \in Seq(AxisRecord)
      BY <1>0, RecorderType
  <2> QED BY <1>0, <1>5, <1>6, <2>1, <2>2 DEF pmc_activate_recover, pmcVars, PmcState
<1>7. CASE pmc_stop(ret, immediate)
  <2>1. \A r \in PmStop(pmc_pm, immediate) : r.pm \in PointMoves
      BY <1>0, PmStopType DEF PmResults
  <2> QED BY <1>0, <1>7, <2>1 DEF pmc_stop, pmcVars, PmcState
<1>8. CASE UNCHANGED pmcVars
    BY <1>0, <1>8 DEF pmcVars
<1> QED BY <1>1, <1>2, <1>3, <1>4, <1>5, <1>6, <1>7, <1>8

\* Following a point move keeps the axis on its travel.
LEMMA FollowType ==
    ASSUME NEW p \in PointMoves, Follow(PmRunOnce(p))
    PROVE  pmc_pm' \in PointMoves /\ cmd_axis' \in Pos
<1>1. PICK q \in PmRunOnce(p) : pmc_pm' = q /\ cmd_axis' = q.curr
    BY DEF Follow
<1>2. q \in PointMoves
    BY PmRunOnceType
<1> QED BY <1>1, <1>2 DEF PointMoves

\* A control cycle of the controller.
LEMMA PmcRunOnceType ==
    ASSUME PmcTypeOK, cmd_axis \in Pos, TouchTypeOK, pmc_run_once
    PROVE  PmcTypeOK' /\ cmd_axis' \in Pos /\ TouchTypeOK'
<1>0. /\ PmcTypeOK' <=> /\ pmc_state' \in PmcState
                        /\ pmc_pm' \in PointMoves
                        /\ axis_recorder' \in Seq(AxisRecord)
      /\ pmc_state \in PmcState /\ pmc_pm \in PointMoves
      /\ axis_recorder \in Seq(AxisRecord)
    BY DEF PmcTypeOK
<1>f. Follow(PmRunOnce(pmc_pm)) => pmc_pm' \in PointMoves /\ cmd_axis' \in Pos
    BY <1>0, FollowType
<1>1. CASE pmc_manual_pointmoving
  <2>1. CASE PmOver(pmc_pm)
    <3>1. axis_recorder' \in Seq(AxisRecord)
      <4>1. [start |-> pmc_pm.start, stop |-> pmc_pm.curr] \in AxisRecord
          BY <1>0 DEF PointMoves, AxisRecord
      <4> QED BY <1>0, <1>1, <2>1, <4>1, RecorderType DEF pmc_manual_pointmoving
    <3>2. touch' = SetDetectEnable(touch, FALSE) /\ UNCHANGED <<pmc_pm, cmd_axis>>
            /\ pmc_state' = "AllowManualPointMove"
        BY <1>1, <2>1 DEF pmc_manual_pointmoving
    <3> QED BY <1>0, <3>1, <3>2 DEF TouchTypeOK, SetDetectEnable, PmcState
  <2>2. CASE ~PmOver(pmc_pm)
    <3>1. PICK contact \in BOOLEAN :
            /\ touch' = TouchAfter(touch, contact)
            /\ IF TouchHit(touch, contact)
                 THEN \E r \in PmStop(pmc_pm, TRUE) : Follow(PmRunOnce(r.pm))
                 ELSE Follow(PmRunOnce(pmc_pm))
        BY <1>1, <2>2 DEF pmc_manual_pointmoving
    <3>2. \A r \in PmStop(pmc_pm, TRUE) : r.pm \in PointMoves
        BY <1>0, PmStopType DEF PmResults
    <3>3. pmc_pm' \in PointMoves /\ cmd_axis' \in Pos
        BY <1>f, <3>1, <3>2, FollowType
    <3>4. UNCHANGED <<pmc_state, axis_recorder>>
        BY <1>1, <2>2 DEF pmc_manual_pointmoving
    <3> QED BY <1>0, <3>1, <3>3, <3>4 DEF TouchTypeOK, TouchAfter
  <2> QED BY <2>1, <2>2
<1>2. CASE pmc_recovering
  <2>1. axis_recorder # <<>> => /\ UndoTop.pm \in PointMoves
                                /\ Pop(axis_recorder) \in Seq(AxisRecord)
      BY <1>0, UndoTopType, RecorderType DEF PmResults
  <2> QED BY <1>0, <1>f, <1>2, <2>1 DEF pmc_recovering, TouchTypeOK, PmcState
<1>3. CASE pmc_recovering_pausing
    BY <1>0, <1>f, <1>3 DEF pmc_recovering_pausing, TouchTypeOK, PmcState
<1>4. CASE pmc_outside_stopping
    BY <1>0, <1>f, <1>4 DEF pmc_outside_stopping, TouchTypeOK, PmcState
<1>5. CASE UNCHANGED <<pmcVars, cmd_axis, touch>>
    BY <1>0, <1>5 DEF pmcVars, TouchTypeOK
<1> QED BY <1>1, <1>2, <1>3, <1>4, <1>5 DEF pmc_run_once

----------------------------------------------------------------------------
(* The task runner.                                                        *)

SignalsTypeOK == signals \in SUBSET Signal

\* Everything the runner reads and writes.
RunnerOK ==
    /\ RunnerTypeOK /\ PmcTypeOK /\ SignalsTypeOK
    /\ cmd_axis \in Pos /\ TouchTypeOK
    /\ power \in [gate : BOOLEAN, mach : BOOLEAN]

\* A task that is there is one of the five classes.
LEMMA RunnerTask ==
    ASSUME RunnerTypeOK, task # NoTask
    PROVE  task \in RealTasks
BY TaskKinds DEF RunnerTypeOK

\* pause, resume and stop of the runner keep the types.
LEMMA RunnerCallType ==
    ASSUME RunnerOK, NEW ret \in BOOLEAN, NEW target \in Pos, NEW immediate \in BOOLEAN,
           \/ runner_pause(ret)
           \/ runner_resume(ret)
           \/ runner_stop(ret, immediate)
           \/ runner_start_manual_pointmove(ret, target)
           \/ runner_stop_manual_pointmove(ret, immediate)
           \/ \E value : Answer(ret, value)
    PROVE  RunnerTypeOK' /\ PmcTypeOK' /\ SignalsTypeOK'
<1> USE DEF AutoState, SignalsTypeOK, Signal
<1>0. /\ RunnerTypeOK' <=> /\ task' \in Tasks /\ state' \in AutoState
                           /\ domin' \in {"AutoTaskRunning", "PauseMoveRecoverRunning"}
      /\ task \in Tasks /\ state \in AutoState
      /\ domin \in {"AutoTaskRunning", "PauseMoveRecoverRunning"}
      /\ PmcTypeOK /\ cmd_axis \in Pos
      /\ task # NoTask => task \in RealTasks
    BY RunnerTask DEF RunnerOK, RunnerTypeOK
<1>a. \A t \in RealTasks : t \in Tasks
    BY RealTaskKinds
<1>1. ASSUME NEW value, Answer(ret, value)
      PROVE  RunnerTypeOK' /\ PmcTypeOK' /\ SignalsTypeOK'
  <2>1. PmcTypeOK'
      BY <1>0, <1>1, PmcCallType DEF Answer
  <2> QED BY <1>0, <1>1, <2>1 DEF Answer, runnerVars
<1>2. CASE runner_pause(ret)
  <2>1. CASE /\ task # NoTask /\ Recovery /\ state = "NormalMoving"
             /\ pmc_pause_recover(ret)
             /\ state' = IF ret THEN "Pausing" ELSE state
             /\ signals' = {}
             /\ UNCHANGED <<task, domin>>
      BY <1>0, <2>1, PmcCallType
  <2>2. CASE /\ task # NoTask /\ ~Recovery /\ state \in {"NormalMoving", "Resuming"}
             /\ \E r \in TaskPause(task) : ret = r.ok /\ task' = r.task
             /\ state' = IF ret THEN "Pausing" ELSE state
             /\ signals' = {}
             /\ UNCHANGED <<domin, pmcVars>>
    <3>1. \A r \in TaskPause(task) : r.task \in RealTasks
        BY <1>0, <2>2, TaskPauseType DEF TaskResults
    <3>2. PmcTypeOK'
        BY <1>0, <2>2, PmcCallType
    <3> QED BY <1>0, <1>a, <2>2, <3>1, <3>2
  <2> QED BY <1>1, <1>2, <2>1, <2>2 DEF runner_pause
<1>3. CASE runner_resume(ret)
  <2>1. CASE /\ IF Recovery THEN pmc_resume_recover(ret) ELSE pmc_activate_recover(ret)
             /\ state' = IF ret THEN "NormalMoving" ELSE state
             /\ domin' = IF ret THEN "PauseMoveRecoverRunning" ELSE domin
             /\ signals' = IF ret THEN {"AutoResumed"} ELSE {}
             /\ UNCHANGED task
    <3>1. PmcTypeOK'
        BY <1>0, <2>1, PmcCallType
    <3> QED BY <1>0, <2>1, <3>1
  <2> QED BY <1>1, <1>3, <2>1 DEF runner_resume
<1>4. CASE runner_stop(ret, immediate)
  <2>1. CASE /\ pmc_stop(ret, immediate)
             /\ state' = IF ret THEN "Stopping" ELSE state
             /\ signals' = {}
             /\ UNCHANGED <<task, domin>>
      BY <1>0, <2>1, PmcCallType
  <2>2. CASE /\ task # NoTask
             /\ \E r \in TaskStop(task, immediate) : ret = r.ok /\ task' = r.task
             /\ state' = IF ret THEN "Stopping" ELSE state
             /\ signals' = {}
             /\ UNCHANGED <<domin, pmcVars>>
    <3>1. \A r \in TaskStop(task, immediate) : r.task \in RealTasks
        BY <1>0, <2>2, TaskStopType DEF TaskResults
    <3>2. PmcTypeOK'
        BY <1>0, <2>2, PmcCallType
    <3> QED BY <1>0, <1>a, <2>2, <3>1, <3>2
  <2>3. CASE state' = "Stopped" /\ signals' = {} /\ UNCHANGED <<task, domin, pmcVars>>
    <3>1. PmcTypeOK'
        BY <1>0, <2>3, PmcCallType
    <3> QED BY <1>0, <2>3, <3>1
  <2> QED BY <1>1, <1>4, <2>1, <2>2, <2>3 DEF runner_stop
<1>5. CASE runner_start_manual_pointmove(ret, target)
  <2>1. CASE /\ pmc_start_manual_pointmove(ret, target)
             /\ signals' = IF ret THEN {"ManualPointMoveStarted"} ELSE {}
             /\ UNCHANGED runnerVars
    <3>1. PmcTypeOK'
        BY <1>0, <2>1, PmcCallType
    <3> QED BY <1>0, <2>1, <3>1 DEF runnerVars
  <2> QED BY <1>1, <1>5, <2>1 DEF runner_start_manual_pointmove
<1>6. CASE runner_stop_manual_pointmove(ret, immediate)
  <2>1. CASE /\ pmc_stop_manual_pointmove(ret, immediate)
             /\ signals' = {}
             /\ UNCHANGED runnerVars
    <3>1. PmcTypeOK'
        BY <1>0, <2>1, PmcCallType
    <3> QED BY <1>0, <2>1, <3>1 DEF runnerVars
  <2> QED BY <1>1, <1>6, <2>1 DEF runner_stop_manual_pointmove
<1> QED BY <1>1, <1>2, <1>3, <1>4, <1>5, <1>6

\* A control cycle of the runner.
LEMMA RunnerRunOnceType ==
    ASSUME RunnerOK, runner_run_once
    PROVE  RunnerOK'
<1> USE DEF AutoState, SignalsTypeOK, Signal
<1>0. /\ RunnerTypeOK' <=> /\ task' \in Tasks /\ state' \in AutoState
                           /\ domin' \in {"AutoTaskRunning", "PauseMoveRecoverRunning"}
      /\ task \in Tasks /\ state \in AutoState
      /\ domin \in {"AutoTaskRunning", "PauseMoveRecoverRunning"}
      /\ PmcTypeOK /\ cmd_axis \in Pos /\ TouchTypeOK
      /\ task # NoTask => task \in RealTasks
      /\ power \in [gate : BOOLEAN, mach : BOOLEAN]
    BY RunnerTask DEF RunnerOK, RunnerTypeOK
<1>a. \A t \in RealTasks : t \in Tasks
    BY RealTaskKinds
\* While the task dominates.
<1>1. ASSUME task # NoTask, TaskRunOnce, state' \in AutoState, UNCHANGED domin,
             signals' \in SUBSET Signal, pmc_init \/ UNCHANGED pmcVars
      PROVE  RunnerOK'
  <2>1. CycleTypeOK'
      BY <1>0, <1>1, TaskRunOnceType DEF CycleTypeOK, TouchTypeOK
  <2>2. PmcTypeOK'
      BY <1>0, <1>1, PmcCallType, PointMoveAssumption DEF Pos
  <2> QED BY <1>0, <1>a, <1>1, <2>1, <2>2 DEF RunnerOK, CycleTypeOK, TouchTypeOK
<1>2. ASSUME runner_normal_moving, task # NoTask PROVE RunnerOK'
    BY <1>0, <1>1, <1>2 DEF runner_normal_moving
<1>3. ASSUME runner_pausing, task # NoTask PROVE RunnerOK'
    BY <1>0, <1>1, <1>3 DEF runner_pausing
<1>4. ASSUME runner_resuming, task # NoTask PROVE RunnerOK'
    BY <1>0, <1>1, <1>4 DEF runner_resuming
<1>5. ASSUME runner_stopping, task # NoTask PROVE RunnerOK'
    BY <1>0, <1>1, <1>5 DEF runner_stopping
\* While the pause-move controller runs.
<1>6. ASSUME pmc_run_once, RunnerTypeOK', signals' \in SUBSET Signal, UNCHANGED power
      PROVE  RunnerOK'
    BY <1>0, <1>6, PmcRunOnceType DEF RunnerOK
<1>7. CASE runner_paused
    BY <1>0, <1>6, <1>7 DEF runner_paused, runnerVars, pmc_raised
<1>8. ASSUME recovery_run_once, task # NoTask PROVE RunnerOK'
  <2>0. UNCHANGED power
      BY <1>8 DEF recovery_run_once
  <2>1. CASE recovery_normal_moving
    <3>1. \A r \in TaskResume(task) : r.task \in RealTasks
        BY <1>0, <1>8, TaskResumeType DEF TaskResults
    <3>2. RunnerTypeOK'
        BY <1>0, <1>a, <2>1, <3>1 DEF recovery_normal_moving, runnerVars
    <3>3. signals' \in SUBSET Signal
        BY <2>1 DEF recovery_normal_moving, pmc_raised
    <3> QED BY <1>6, <2>0, <2>1, <3>2, <3>3 DEF recovery_normal_moving
  <2>2. CASE recovery_pausing
      BY <1>0, <1>6, <2>0, <2>2 DEF recovery_pausing, pmc_raised
  <2>3. CASE recovery_stopping
      BY <1>0, <1>6, <2>0, <2>3 DEF recovery_stopping, pmc_raised
  <2>4. CASE signals' = {} /\ UNCHANGED <<runnerVars, pmcVars, cmd_axis, touch>>
    <3>1. PmcTypeOK'
        BY <1>0, <2>4, PmcCallType, PointMoveAssumption DEF Pos
    <3> QED BY <1>0, <2>0, <2>4, <3>1 DEF RunnerOK, runnerVars, TouchTypeOK
  <2> QED BY <1>8, <2>1, <2>2, <2>3, <2>4 DEF recovery_run_once
<1>9. CASE signals' = {} /\ UNCHANGED <<runnerVars, pmcVars, cmd_axis, touch, power>>
  <2>1. PmcTypeOK'
      BY <1>0, <1>9, PmcCallType, PointMoveAssumption DEF Pos
  <2> QED BY <1>0, <1>9, <2>1 DEF RunnerOK, runnerVars, TouchTypeOK
<1> QED BY <1>2, <1>3, <1>4, <1>5, <1>7, <1>8, <1>9 DEF runner_run_once

----------------------------------------------------------------------------
(* The machine.                                                            *)

\* The travel has a point.
LEMMA ZeroPos == 0 \in Pos
BY PointMoveAssumption DEF Pos

\* A refused or ignored call.
LEMMA AnswerType ==
    ASSUME RunnerOK, NEW ret \in BOOLEAN, NEW value, Answer(ret, value)
    PROVE  RunnerTypeOK' /\ PmcTypeOK' /\ SignalsTypeOK'
BY ZeroPos, RunnerCallType

\* The type invariant, part by part.
LEMMA TypeOKParts ==
    TypeOK <=> RunnerOK /\ MachineTypeOK /\ ThreadTypeOK
BY DEF TypeOK, RunnerOK, SharedTypeOK, SignalsTypeOK, TouchTypeOK

\* What a command leaves in the machine, the runner and the controller; the
\* handler itself says what becomes of the axis, the detector and the power.
CallOK == MachineTypeOK /\ RunnerTypeOK /\ PmcTypeOK /\ SignalsTypeOK

\* Nothing of the runner and the controller changes.
LEMMA RunnerUnchanged ==
    ASSUME RunnerOK, UNCHANGED <<runnerVars, pmcVars>>
    PROVE  RunnerTypeOK' /\ PmcTypeOK'
BY DEF RunnerOK, RunnerTypeOK, PmcTypeOK, runnerVars, pmcVars

\* A reset keeps the types.
LEMMA ResetType ==
    ASSUME NEW enable \in BOOLEAN, reset_and_enable(enable), signals' = {}, RunnerOK
    PROVE  CallOK'
<1>1. NoTask \in Tasks
    BY DEF Tasks
<1> QED BY <1>1, IdlePmType
        DEF reset_and_enable, runner_reset, pmc_init, PmClear, CallOK, MachineTypeOK,
            RunnerOK, RunnerTypeOK, PmcTypeOK, SignalsTypeOK, PmcState, AutoState

\* Starting a task keeps the types.
LEMMA StartAutoType ==
    ASSUME RunnerOK, MachineTypeOK, NEW ret \in BOOLEAN, NEW t \in RealTasks,
           start_auto(ret, t)
    PROVE  CallOK'
<1>1. CASE Answer(ret, FALSE) /\ UNCHANGED machineVars
    BY <1>1, AnswerType DEF CallOK, MachineTypeOK, machineVars
<1>2. CASE /\ runner_restart_task(t)
           /\ main_mode' = "Auto"
           /\ signals' = {"AutoStarted"}
           /\ UNCHANGED <<enabled, pm>>
  <2>1. t \in Tasks
      BY RealTaskKinds
  <2> QED BY <1>2, <2>1 DEF runner_restart_task, CallOK, MachineTypeOK, RunnerOK,
             RunnerTypeOK, PmcTypeOK, SignalsTypeOK, AutoState, Signal, pmcVars
<1> QED BY <1>1, <1>2 DEF start_auto

\* Starting a manual move keeps the types, in Idle and in a pause.
LEMMA StartManualType ==
    ASSUME RunnerOK, MachineTypeOK, NEW ret \in BOOLEAN, NEW target \in Pos,
           start_manual_pointmove(ret, target)
    PROVE  CallOK'
<1>1. CASE /\ LET r == PmStart(pm, cmd_axis, target)
              IN  /\ ret = r.ok
                  /\ pm' = r.pm
                  /\ main_mode' = IF r.ok THEN "Manual" ELSE main_mode
                  /\ signals' = IF r.ok THEN {"ManualPointMoveStarted"} ELSE {}
           /\ UNCHANGED <<enabled, runnerVars, pmcVars>>
  <2>1. PmStart(pm, cmd_axis, target).pm \in PointMoves
      BY PmStartType DEF PmResults, RunnerOK, MachineTypeOK
  <2>2. RunnerTypeOK' /\ PmcTypeOK'
      BY <1>1, RunnerUnchanged
  <2> QED BY <1>1, <2>1, <2>2 DEF CallOK, MachineTypeOK, SignalsTypeOK, Signal
<1>2. CASE (Answer(ret, FALSE) \/ runner_start_manual_pointmove(ret, target))
             /\ UNCHANGED machineVars
    BY <1>2, RunnerCallType DEF CallOK, MachineTypeOK, machineVars
<1> QED BY <1>1, <1>2 DEF start_manual_pointmove

\* Stopping a manual move keeps the types.
LEMMA StopManualType ==
    ASSUME RunnerOK, MachineTypeOK, NEW ret \in BOOLEAN, NEW immediate \in BOOLEAN,
           stop_manual_pointmove(ret, immediate)
    PROVE  CallOK'
<1>1. CASE /\ \E r \in PmStop(pm, immediate) : ret = r.ok /\ pm' = r.pm
           /\ signals' = {}
           /\ UNCHANGED <<main_mode, enabled, runnerVars, pmcVars>>
  <2>1. \A r \in PmStop(pm, immediate) : r.pm \in PointMoves
      BY PmStopType DEF PmResults, MachineTypeOK
  <2>2. RunnerTypeOK' /\ PmcTypeOK'
      BY <1>1, RunnerUnchanged
  <2> QED BY <1>1, <2>1, <2>2 DEF CallOK, MachineTypeOK, SignalsTypeOK, Signal
<1>2. CASE (Answer(ret, FALSE) \/ runner_stop_manual_pointmove(ret, immediate))
             /\ UNCHANGED machineVars
  <2>1. RunnerTypeOK' /\ PmcTypeOK' /\ SignalsTypeOK'
      BY <1>2, AnswerType, ZeroPos, RunnerCallType
  <2> QED BY <1>2, <2>1 DEF CallOK, MachineTypeOK, machineVars
<1> QED BY <1>1, <1>2 DEF stop_manual_pointmove

\* pause_auto, resume_auto and stop_auto keep the types.
LEMMA AutoCallType ==
    ASSUME RunnerOK, MachineTypeOK, NEW ret \in BOOLEAN, NEW immediate \in BOOLEAN,
           pause_auto(ret) \/ resume_auto(ret) \/ stop_auto(ret, immediate)
    PROVE  CallOK'
<1>1. RunnerTypeOK' /\ PmcTypeOK' /\ SignalsTypeOK'
  <2>1. \/ runner_pause(ret) \/ runner_resume(ret) \/ runner_stop(ret, immediate)
        \/ Answer(ret, FALSE)
      BY DEF pause_auto, resume_auto, stop_auto
  <2> QED BY <2>1, AnswerType, ZeroPos, RunnerCallType
<1>2. UNCHANGED machineVars
    BY DEF pause_auto, resume_auto, stop_auto
<1> QED BY <1>1, <1>2 DEF CallOK, MachineTypeOK, machineVars

\* A control cycle of the machine.
LEMMA MachineRunOnceType ==
    ASSUME RunnerOK, MachineTypeOK, run_once
    PROVE  RunnerOK' /\ MachineTypeOK'
<1>0. /\ main_mode \in {"Idle", "Manual", "Auto"} /\ enabled \in BOOLEAN
      /\ pm \in PointMoves /\ TouchTypeOK /\ cmd_axis \in Pos
      /\ power \in [gate : BOOLEAN, mach : BOOLEAN]
    BY DEF MachineTypeOK, RunnerOK
<1>1. ASSUME UNCHANGED <<runnerVars, pmcVars, power>>, signals' \in SUBSET Signal,
             cmd_axis' \in Pos, TouchTypeOK'
      PROVE  RunnerOK'
    BY <1>0, <1>1, RunnerUnchanged DEF RunnerOK, SignalsTypeOK
<1>2. CASE mainmode_idle
  <2>1. TouchTypeOK'
      BY <1>0, <1>2 DEF mainmode_idle, TouchTypeOK, SetDetectEnable
  <2> QED BY <1>0, <1>1, <1>2, <2>1 DEF mainmode_idle, machineVars, MachineTypeOK
<1>3. CASE mainmode_manual
  <2>0. UNCHANGED <<enabled, runnerVars, pmcVars, power>>
      BY <1>3 DEF mainmode_manual
  <2>1. CASE PmOver(pm)
      BY <1>0, <1>1, <1>3, <2>0, <2>1
         DEF mainmode_manual, MachineTypeOK, TouchTypeOK, Signal
  <2>2. CASE ~PmOver(pm)
    <3>1. PICK contact \in BOOLEAN :
            /\ touch' = TouchAfter(touch, contact)
            /\ IF TouchHit(touch, contact)
                 THEN /\ \E r \in PmStop(pm, TRUE) : pm' = r.pm
                      /\ main_mode' = "Idle"
                      /\ signals' = {"ManualPointMoveStopped"}
                      /\ UNCHANGED cmd_axis
                 ELSE /\ \E p \in PmRunOnce(pm) : pm' = p /\ cmd_axis' = p.curr
                      /\ signals' = {}
                      /\ UNCHANGED main_mode
        BY <1>3, <2>2 DEF mainmode_manual
    <3>2. TouchTypeOK'
        BY <1>0, <3>1 DEF TouchTypeOK, TouchAfter
    <3>3. \A r \in PmStop(pm, TRUE) : r.pm \in PointMoves
        BY <1>0, PmStopType DEF PmResults
    <3>4. \A p \in PmRunOnce(pm) : p \in PointMoves /\ p.curr \in Pos
        BY <1>0, PmRunOnceType DEF PointMoves
    <3>5. /\ pm' \in PointMoves /\ cmd_axis' \in Pos
          /\ main_mode' \in {"Idle", "Manual", "Auto"}
          /\ signals' \in SUBSET Signal
        BY <1>0, <3>1, <3>3, <3>4 DEF Signal
    <3> QED BY <1>0, <1>1, <2>0, <3>2, <3>5 DEF MachineTypeOK
  <2> QED BY <2>1, <2>2
<1>4. CASE mainmode_auto
    BY <1>0, <1>4, RunnerRunOnceType DEF mainmode_auto, MachineTypeOK
<1>5. CASE signals' = {} /\ UNCHANGED <<machineVars, runnerVars, pmcVars, cmd_axis,
                                        touch, power>>
    BY <1>0, <1>1, <1>5 DEF machineVars, MachineTypeOK, TouchTypeOK
<1> QED BY <1>2, <1>3, <1>4, <1>5 DEF run_once

----------------------------------------------------------------------------
(* The thread.                                                             *)

\* The corners of a group are a sequence of points.
LEMMA CornersType == Corners \subseteq Seq(Pos)
<1> SUFFICES ASSUME NEW c \in Corners PROVE c \in Seq(Pos)
    OBVIOUS
<1>1. PICK n \in 0..MaxSegments : c \in [1..n -> Pos]
    BY DEF Corners
<1>2. n \in Nat
    BY AutoTasksAssumption
<1> QED BY <1>1, <1>2, SeqDef

\* A command that leaves the axis, the detector and the power alone.
LEMMA QuietCallType ==
    ASSUME RunnerOK, CallOK', UNCHANGED <<cmd_axis, touch, power>>
    PROVE  RunnerOK' /\ MachineTypeOK'
BY DEF RunnerOK, CallOK, TouchTypeOK

\* Every motion command keeps the types.
LEMMA MotionCommandType ==
    ASSUME RunnerOK, MachineTypeOK, NEW ret \in BOOLEAN, MotionCommand(ret)
    PROVE  RunnerOK' /\ MachineTypeOK'
<1>0. /\ cmd_axis \in Pos /\ TouchTypeOK
      /\ power \in [gate : BOOLEAN, mach : BOOLEAN]
    BY DEF RunnerOK
<1>i. ASSUME Ignored(ret) PROVE RunnerOK' /\ MachineTypeOK'
  <2>1. RunnerTypeOK' /\ PmcTypeOK' /\ MachineTypeOK'
      BY <1>i, RunnerUnchanged DEF Ignored, motionVars, machineVars, MachineTypeOK
  <2> QED BY <1>0, <1>i, <2>1
          DEF Ignored, motionVars, RunnerOK, TouchTypeOK, SignalsTypeOK
<1>s. ASSUME NEW t \in RealTasks, start_auto(ret, t), UNCHANGED <<cmd_axis, touch, power>>
      PROVE  RunnerOK' /\ MachineTypeOK'
    BY <1>s, StartAutoType, QuietCallType
<1>1. CASE StartPointMove(ret)
  <2>1. CASE Ignored(ret)
      BY <1>i, <2>1
  <2>2. ASSUME NEW target \in Pos, NEW detect \in BOOLEAN,
               start_manual_pointmove(ret, target),
               touch' = IF ret THEN SetDetectEnable(touch, detect) ELSE touch,
               UNCHANGED <<cmd_axis, power>>
        PROVE  RunnerOK' /\ MachineTypeOK'
    <3>1. CallOK'
        BY <2>2, StartManualType
    <3>2. TouchTypeOK'
        BY <1>0, <2>2 DEF TouchTypeOK, SetDetectEnable
    <3> QED BY <1>0, <2>2, <3>1, <3>2 DEF RunnerOK, CallOK
  <2> QED BY <1>1, <2>1, <2>2 DEF StartPointMove
<1>2. CASE StopPointMove(ret)
    BY <1>i, <1>2, StopManualType, QuietCallType DEF StopPointMove
<1>3. CASE StartG00FastMove(ret)
  <2>1. ASSUME NEW target \in Pos, NEW detect \in BOOLEAN
        PROVE  NewG00(cmd_axis, target, detect) \in RealTasks
    <3>1. <<>> \in Seq(Pos) /\ 1 \in 1..MaxDelay
        BY AutoTasksAssumption
    <3> QED BY <1>0, <3>1, NewTaskTypes
  <2> QED BY <1>i, <1>s, <1>3, <2>1 DEF StartG00FastMove
<1>4. CASE StartG01ServoMove(ret)
  <2>1. CASE Ignored(ret)
      BY <1>i, <2>1
  <2>2. ASSUME NEW target \in Pos, start_auto_g01(ret, target), UNCHANGED <<cmd_axis, touch>>
        PROVE  RunnerOK' /\ MachineTypeOK'
    <3>1. <<>> \in Seq(Pos) /\ 1 \in 1..MaxDelay
        BY AutoTasksAssumption
    <3>2. NewG01(cmd_axis, target) \in RealTasks
        BY <1>0, <3>1, NewTaskTypes
    <3>3. CallOK'
        BY <2>2, <3>2, StartAutoType DEF start_auto_g01
    <3>4. power' \in [gate : BOOLEAN, mach : BOOLEAN]
        BY <1>0, <2>2 DEF start_auto_g01
    <3> QED BY <1>0, <2>2, <3>3, <3>4 DEF RunnerOK, CallOK, TouchTypeOK
  <2> QED BY <1>4, <2>1, <2>2 DEF StartG01ServoMove
<1>5. CASE G04Delay(ret)
  <2>1. \A delay \in Delays : NewG04(delay) \in RealTasks
    <3>1. <<>> \in Seq(Pos) /\ Delays \subseteq 1..MaxDelay
        BY MotionThreadAssumption
    <3> QED BY <1>0, <3>1, NewTaskTypes
  <2> QED BY <1>i, <1>s, <1>5, <2>1 DEF G04Delay
<1>6. CASE M00FakePauseTask(ret)
  <2>1. NewM00 \in RealTasks
      BY DEF NewM00, M00Tasks, RealTasks
  <2> QED BY <1>i, <1>s, <1>6, <2>1 DEF M00FakePauseTask
<1>7. CASE G01Group(ret)
  <2>1. \A corners \in Corners : NewG01Group(cmd_axis, corners) \in RealTasks
    <3>1. 1 \in 1..MaxDelay
        BY AutoTasksAssumption
    <3> QED BY <1>0, <3>1, CornersType, NewTaskTypes
  <2> QED BY <1>s, <1>7, <2>1 DEF G01Group
<1>8. CASE Auto_Stop(ret) \/ Auto_Pause(ret) \/ Auto_Resume(ret)
    BY <1>8, AutoCallType, QuietCallType DEF Auto_Stop, Auto_Pause, Auto_Resume
<1>9. CASE EmergencyStopAllMove(ret)
    BY <1>9, ResetType, QuietCallType DEF EmergencyStopAllMove
<1>10. CASE Setting_ClearWarning(ret)
  <2>1. RunnerTypeOK' /\ PmcTypeOK'
      BY <1>10, RunnerUnchanged DEF Setting_ClearWarning
  <2>2. TouchTypeOK'
      BY <1>0, <1>10 DEF Setting_ClearWarning, TouchTypeOK, ClearWarning
  <2> QED BY <1>0, <1>10, <2>1, <2>2 DEF Setting_ClearWarning, RunnerOK, SignalsTypeOK,
             machineVars, MachineTypeOK
<1> QED BY <1>1, <1>2, <1>3, <1>4, <1>5, <1>6, <1>7, <1>8, <1>9, <1>10 DEF MotionCommand

\* Nothing of the motion changes, or the machine is reset.
LEMMA QuietStepType ==
    ASSUME RunnerOK, MachineTypeOK, signals' \in SUBSET Signal, UNCHANGED motionVars
    PROVE  RunnerOK' /\ MachineTypeOK'
<1>1. RunnerTypeOK' /\ PmcTypeOK' /\ MachineTypeOK'
    BY RunnerUnchanged DEF motionVars, machineVars, MachineTypeOK
<1> QED BY <1>1 DEF motionVars, RunnerOK, TouchTypeOK, SignalsTypeOK

\* The steps that reset the machine keep the types.
LEMMA ResetStepType ==
    ASSUME RunnerOK, NEW enable \in BOOLEAN, reset_and_enable(enable), signals' = {},
           cmd_axis' \in Pos, UNCHANGED <<touch, power>>
    PROVE  RunnerOK' /\ MachineTypeOK'
<1>1. CallOK'
    BY ResetType
<1> QED BY <1>1 DEF RunnerOK, CallOK, TouchTypeOK

LinkTypeOK ==
    ecat_state \in EcatState /\ connect_flag \in BOOLEAN /\ reenable_flag \in BOOLEAN

\* Every step of the running thread keeps the types.
LEMMA RunningType ==
    ASSUME RunnerOK, MachineTypeOK, LinkTypeOK, threadstate_running
    PROVE  RunnerOK' /\ MachineTypeOK' /\ LinkTypeOK'
<1>0. /\ cmd_axis \in Pos
      /\ ecat_state \in EcatState /\ connect_flag \in BOOLEAN /\ reenable_flag \in BOOLEAN
    BY DEF RunnerOK, LinkTypeOK
<1>1. ASSUME NEW new \in EcatState, NEW connect \in BOOLEAN, NEW reenable \in BOOLEAN,
             LinkStep(new, connect, reenable)
      PROVE  RunnerOK' /\ MachineTypeOK' /\ LinkTypeOK'
    BY <1>1, QuietStepType DEF LinkStep, LinkTypeOK
<1>2. ASSUME NEW connect \in BOOLEAN, NEW reenable \in BOOLEAN, LoseLink(connect, reenable)
      PROVE  RunnerOK' /\ MachineTypeOK' /\ LinkTypeOK'
    BY <1>0, <1>2, ResetStepType DEF LoseLink, LinkTypeOK, EcatState
<1>3. CASE ecat_state_switch_to_ready
    BY <1>0, <1>3, ResetStepType DEF ecat_state_switch_to_ready, LinkTypeOK, EcatState
<1>4. CASE LinkDown
    BY <1>0, <1>1, <1>4 DEF LinkDown, EcatState
<1>5. CASE LinkWaitingForOP
    BY <1>0, <1>1, <1>5 DEF LinkWaitingForOP, EcatState
<1>6. CASE LinkNotAllEnabled
    BY <1>0, <1>1, <1>3, <1>6 DEF LinkNotAllEnabled, EcatState
<1>7. CASE LinkEnabling
  <2>1. CASE /\ ecat_state' = "EcatDisconnected"
             /\ connect_flag' = FALSE
             /\ reenable_flag' = FALSE
             /\ reset_and_enable(FALSE)
             /\ cmd_axis' \in Pos
             /\ signals' = {}
             /\ UNCHANGED <<touch, power>>
      BY <2>1, ResetStepType DEF LinkTypeOK, EcatState
  <2> QED BY <1>0, <1>1, <1>2, <1>3, <1>7, <2>1 DEF LinkEnabling
<1>8. CASE LinkReady
    BY <1>0, <1>2, <1>8, MachineRunOnceType DEF LinkReady, LinkTypeOK
<1> QED BY <1>4, <1>5, <1>6, <1>7, <1>8 DEF threadstate_running

\* No step leaves the types.
LEMMA TypeStep == TypeOK /\ [Next]_vars => TypeOK'
<1> SUFFICES ASSUME TypeOK, [Next]_vars PROVE TypeOK'
    OBVIOUS
<1>0. RunnerOK /\ MachineTypeOK /\ ThreadTypeOK /\ LinkTypeOK
    BY TypeOKParts DEF ThreadTypeOK, LinkTypeOK
<1>1. ASSUME RunnerOK' /\ MachineTypeOK' /\ ThreadTypeOK' PROVE TypeOK'
    BY <1>1 DEF TypeOK, RunnerOK, SharedTypeOK, SignalsTypeOK, TouchTypeOK
<1>2. CASE thread_cycle_work
  <2>1. RunnerOK' /\ MachineTypeOK' /\ LinkTypeOK'
    <3>1. CASE threadstate_running
        BY <1>0, <3>1, RunningType
    <3>2. CASE signals' = {} /\ UNCHANGED <<linkVars, motionVars>>
        BY <1>0, <3>2, QuietStepType DEF linkVars, LinkTypeOK
    <3> QED BY <1>2, <3>1, <3>2 DEF thread_cycle_work
  <2>2. ThreadTypeOK'
      BY <1>0, <1>2, <2>1 DEF thread_cycle_work, ThreadTypeOK, LinkTypeOK
  <2> QED BY <1>1, <2>1, <2>2
<1>3. CASE fetch_command_and_handle
  <2>1. RunnerOK' /\ MachineTypeOK' /\ LinkTypeOK'
    <3>1. CASE (\E ret \in BOOLEAN : MotionCommand(ret)) /\ UNCHANGED linkVars
        BY <1>0, <3>1, MotionCommandType DEF linkVars, LinkTypeOK
    <3>2. CASE Setting_TriggerEcatConnect
        BY <1>0, <3>2, QuietStepType DEF Setting_TriggerEcatConnect, LinkTypeOK
    <3>3. CASE NoCommand
        BY <1>0, <3>3, QuietStepType DEF NoCommand, linkVars, LinkTypeOK
    <3> QED BY <1>3, <3>1, <3>2, <3>3 DEF fetch_command_and_handle
  <2>2. ThreadTypeOK'
      BY <1>0, <1>3, <2>1 DEF fetch_command_and_handle, ThreadTypeOK, LinkTypeOK
  <2> QED BY <1>1, <2>1, <2>2
<1>4. CASE RequestStop
  <2>1. RunnerOK' /\ MachineTypeOK'
      BY <1>0, <1>4, QuietStepType DEF RequestStop, RunnerOK, SignalsTypeOK
  <2>2. ThreadTypeOK'
      BY <1>0, <1>4 DEF RequestStop, ThreadTypeOK, linkVars
  <2> QED BY <1>1, <2>1, <2>2
<1>5. CASE UNCHANGED vars
  <2>1. RunnerOK' /\ MachineTypeOK'
      BY <1>0, <1>5, QuietStepType DEF vars, RunnerOK, SignalsTypeOK
  <2>2. ThreadTypeOK'
      BY <1>0, <1>5 DEF vars, threadVars, ThreadTypeOK, linkVars
  <2> QED BY <1>1, <2>1, <2>2
<1> QED BY <1>2, <1>3, <1>4, <1>5 DEF Next, Cycle

----------------------------------------------------------------------------
\* Every variable keeps its type, for every travel, step width, delay and
\* number of segments: in particular the commanded position never leaves the
\* travel (the servo's length is clamped, a replan ends on the way) and no
\* call of the runner leaves a task of another class.
THEOREM TypeCorrect == Spec => []TypeOK
<1>1. Init => TypeOK
  <2>1. NoTask \in Tasks
      BY DEF Tasks
  <2>2. <<>> \in Seq(AxisRecord)
      OBVIOUS
  <2>3. Init => SharedTypeOK
      BY DEF Init, MachineInit, SharedInit, SharedTypeOK
  <2>4. Init => PmcTypeOK /\ RunnerTypeOK
      BY <2>1, <2>2, IdlePmType
         DEF Init, MachineInit, PmcTypeOK, RunnerTypeOK, PmcState, AutoState
  <2>5. Init => MachineTypeOK /\ ThreadTypeOK
      BY IdlePmType DEF Init, MachineInit, MachineTypeOK, ThreadTypeOK, EcatState
  <2> QED BY <2>3, <2>4, <2>5 DEF TypeOK
<1>2. TypeOK /\ [Next]_vars => TypeOK'
    BY TypeStep
<1> QED BY <1>1, <1>2, PTL DEF Spec

----------------------------------------------------------------------------
(* The control.                                                            *)

\* The inductive invariant of the modes.  That a resumed task answers TRUE at
\* the end of the way back is what keeps the runner out of a recovery in the
\* state Resuming, so the two properties are proved together.
ModeInv == ModeMatchesRunner /\ ResumeFindsPausedTask

----------------------------------------------------------------------------
\* Resuming a task that is paused never fails.
LEMMA PausedTaskResumes ==
    ASSUME NEW t \in RealTasks, TaskStateOf(t) = "Paused", NEW r \in TaskResume(t)
    PROVE  r.ok = TRUE
<1>1. CASE t.kind = "G00" /\ t \in G00Tasks
  <2>1. t.pm.st = "Paused"
      BY <1>1 DEF TaskStateOf, G00Tasks, PointMoves, MrtState
  <2>2. PmResume(t.pm).ok = TRUE
      BY <2>1 DEF PmResume, PmResult
  <2> QED BY <1>1, <2>2 DEF TaskResume, G00Call, TaskResult
<1>2. CASE t.kind # "G00"
    BY <1>2, RealTaskKinds
       DEF TaskStateOf, TaskResume, G01Resume, G04Resume, M00Resume, Goto, TaskResult
<1> QED BY <1>1, <1>2, RealTaskKinds

\* The steps that leave the runner and the mode alone.
LEMMA ModeInvUnchanged ==
    ASSUME ModeInv, UNCHANGED <<main_mode, runnerVars>>
    PROVE  ModeInv'
BY DEF ModeInv, ModeMatchesRunner, ResumeFindsPausedTask, Recovery, runnerVars

\* A reset stops the runner and leaves Auto.
LEMMA ModeInvReset ==
    ASSUME NEW enable, reset_and_enable(enable)
    PROVE  ModeInv'
BY DEF reset_and_enable, runner_reset, ModeInv, ModeMatchesRunner,
       ResumeFindsPausedTask, Recovery

\* A new task dominates and runs.
LEMMA ModeInvStartAuto ==
    ASSUME ModeInv, NEW ret, NEW t, start_auto(ret, t)
    PROVE  ModeInv'
<1>1. CASE Answer(ret, FALSE) /\ UNCHANGED machineVars
    BY <1>1, ModeInvUnchanged DEF Answer, machineVars
<1>2. CASE runner_restart_task(t) /\ main_mode' = "Auto"
    BY <1>2 DEF runner_restart_task, ModeInv, ModeMatchesRunner, ResumeFindsPausedTask,
                Recovery
<1> QED BY <1>1, <1>2 DEF start_auto

\* pause, resume and stop of the runner.
LEMMA ModeInvAutoCall ==
    ASSUME TypeOK, ModeInv, NEW ret \in BOOLEAN, NEW immediate \in BOOLEAN,
           pause_auto(ret) \/ resume_auto(ret) \/ stop_auto(ret, immediate)
    PROVE  ModeInv'
<1>0. main_mode' = main_mode
    BY DEF pause_auto, resume_auto, stop_auto, machineVars
<1>1. ASSUME NEW value, Answer(ret, value) PROVE ModeInv'
    BY <1>0, <1>1, ModeInvUnchanged DEF Answer
<1>2. CASE main_mode # "Auto"
    BY <1>1, <1>2 DEF pause_auto, resume_auto, stop_auto
<1> USE DEF ModeInv, ModeMatchesRunner, ResumeFindsPausedTask, Recovery
<1>3. CASE main_mode = "Auto" /\ runner_pause(ret)
  <2>1. CASE /\ task # NoTask /\ Recovery /\ state = "NormalMoving"
             /\ state' = IF ret THEN "Pausing" ELSE state
             /\ UNCHANGED <<task, domin>>
      BY <1>0, <1>3, <2>1
  <2>2. CASE /\ ~Recovery /\ state \in {"NormalMoving", "Resuming"}
             /\ state' = IF ret THEN "Pausing" ELSE state
             /\ UNCHANGED domin
      BY <1>0, <1>3, <2>2
  <2> QED BY <1>1, <1>3, <2>1, <2>2 DEF runner_pause
<1>4. CASE main_mode = "Auto" /\ runner_resume(ret)
  <2>1. CASE /\ task # NoTask /\ state = "Paused"
             /\ state' = IF ret THEN "NormalMoving" ELSE state
             /\ domin' = IF ret THEN "PauseMoveRecoverRunning" ELSE domin
             /\ UNCHANGED task
      BY <1>0, <1>4, <2>1
  <2> QED BY <1>1, <1>4, <2>1 DEF runner_resume
<1>5. CASE main_mode = "Auto" /\ runner_stop(ret, immediate)
  <2>1. CASE /\ Recovery /\ state \in {"NormalMoving", "Pausing", "Paused"}
             /\ state' = IF ret THEN "Stopping" ELSE state
             /\ UNCHANGED <<task, domin>>
      BY <1>0, <1>5, <2>1
  <2>2. CASE /\ ~Recovery /\ state \in {"NormalMoving", "Resuming", "Pausing"}
             /\ state' = IF ret THEN "Stopping" ELSE state
             /\ UNCHANGED domin
      BY <1>0, <1>5, <2>2
  <2>3. CASE ~Recovery /\ state' = "Stopped" /\ UNCHANGED <<task, domin>>
      BY <1>0, <1>5, <2>3
  <2> QED BY <1>1, <1>5, <2>1, <2>2, <2>3 DEF runner_stop
<1> QED BY <1>2, <1>3, <1>4, <1>5 DEF pause_auto, resume_auto, stop_auto

\* A control cycle in Auto.
LEMMA ModeInvAutoCycle ==
    ASSUME TypeOK, ModeInv, main_mode = "Auto", mainmode_auto
    PROVE  ModeInv'
<1>0. main_mode' = IF state' = "Stopped" THEN "Idle" ELSE main_mode
    BY DEF mainmode_auto
<1> USE DEF ModeInv, ModeMatchesRunner, ResumeFindsPausedTask, Recovery
<1>1. CASE task # NoTask /\ Recovery /\ recovery_run_once
  <2>1. CASE state = "NormalMoving" /\ recovery_normal_moving
    <3>1. \A r \in TaskResume(task) : r.ok = TRUE
        BY <1>1, PausedTaskResumes, RunnerTask DEF TypeOK
    <3> QED BY <1>0, <1>1, <2>1, <3>1 DEF recovery_normal_moving, runnerVars
  <2>2. CASE state = "Pausing" /\ recovery_pausing
      BY <1>0, <1>1, <2>2 DEF recovery_pausing
  <2>3. CASE state = "Stopping" /\ recovery_stopping
      BY <1>0, <1>1, <2>3 DEF recovery_stopping
  <2>4. CASE UNCHANGED runnerVars
      BY <1>0, <1>1, <2>4 DEF runnerVars
  <2> QED BY <1>1, <2>1, <2>2, <2>3, <2>4 DEF recovery_run_once
<1>2. CASE ~Recovery /\ state = "NormalMoving" /\ runner_normal_moving
    BY <1>0, <1>2 DEF runner_normal_moving
<1>3. CASE ~Recovery /\ state = "Pausing" /\ runner_pausing
    BY <1>0, <1>3 DEF runner_pausing, Now
<1>4. CASE ~Recovery /\ state = "Paused" /\ runner_paused
    BY <1>0, <1>4 DEF runner_paused, runnerVars
<1>5. CASE ~Recovery /\ state = "Resuming" /\ runner_resuming
    BY <1>0, <1>5 DEF runner_resuming
<1>6. CASE ~Recovery /\ state = "Stopping" /\ runner_stopping
    BY <1>0, <1>6 DEF runner_stopping
<1>7. CASE UNCHANGED runnerVars
    BY <1>0, <1>7 DEF runnerVars
<1> QED BY <1>1, <1>2, <1>3, <1>4, <1>5, <1>6, <1>7 DEF mainmode_auto, runner_run_once

\* Every step keeps the inductive invariant of the modes.
LEMMA ModeInvStep == TypeOK /\ ModeInv /\ [Next]_vars => ModeInv'
<1> SUFFICES ASSUME TypeOK, ModeInv, [Next]_vars PROVE ModeInv'
    OBVIOUS
<1>1. CASE UNCHANGED motionVars
    BY <1>1, ModeInvUnchanged DEF motionVars, machineVars
<1>2. CASE \E enable \in BOOLEAN : reset_and_enable(enable)
    BY <1>2, ModeInvReset
<1>3. CASE run_once
  <2>1. CASE main_mode = "Manual" /\ mainmode_manual
      BY <2>1 DEF mainmode_manual, runnerVars, ModeInv, ModeMatchesRunner,
                  ResumeFindsPausedTask
  <2>2. CASE main_mode = "Auto" /\ mainmode_auto
      BY <2>2, ModeInvAutoCycle
  <2>3. CASE UNCHANGED <<machineVars, runnerVars>>
      BY <2>3, ModeInvUnchanged DEF machineVars
  <2> QED BY <1>3, <2>1, <2>2, <2>3 DEF run_once, mainmode_idle
<1>4. ASSUME NEW ret \in BOOLEAN, MotionCommand(ret) PROVE ModeInv'
  <2>1. CASE StartPointMove(ret)
    <3>1. ASSUME NEW target, start_manual_pointmove(ret, target) PROVE ModeInv'
      <4>1. CASE main_mode = "Idle" /\ main_mode' \in {"Idle", "Manual"}
                   /\ UNCHANGED runnerVars
          BY <4>1 DEF runnerVars, ModeInv, ModeMatchesRunner, ResumeFindsPausedTask
      <4>2. CASE UNCHANGED <<machineVars, runnerVars>>
          BY <4>2, ModeInvUnchanged DEF machineVars
      <4> QED BY <3>1, <4>1, <4>2
              DEF start_manual_pointmove, Answer, runner_start_manual_pointmove
    <3> QED BY <1>1, <2>1, <3>1 DEF StartPointMove, Ignored
  <2>2. CASE StopPointMove(ret)
    <3>1. ASSUME NEW immediate, stop_manual_pointmove(ret, immediate) PROVE ModeInv'
      <4>1. UNCHANGED <<main_mode, runnerVars>>
          BY <3>1 DEF stop_manual_pointmove, Answer, runner_stop_manual_pointmove,
                      machineVars
      <4> QED BY <4>1, ModeInvUnchanged
    <3> QED BY <1>1, <2>2, <3>1 DEF StopPointMove, Ignored
  <2>3. CASE StartG00FastMove(ret) \/ StartG01ServoMove(ret) \/ G04Delay(ret)
               \/ M00FakePauseTask(ret) \/ G01Group(ret)
    <3>1. (\E t : start_auto(ret, t)) \/ UNCHANGED motionVars
        BY <2>3 DEF StartG00FastMove, StartG01ServoMove, G04Delay, M00FakePauseTask,
                    G01Group, Ignored, start_auto_g01
    <3> QED BY <1>1, <3>1, ModeInvStartAuto
  <2>4. CASE Auto_Stop(ret) \/ Auto_Pause(ret) \/ Auto_Resume(ret)
      BY <2>4, ModeInvAutoCall DEF Auto_Stop, Auto_Pause, Auto_Resume
  <2>5. CASE EmergencyStopAllMove(ret)
      BY <1>2, <2>5 DEF EmergencyStopAllMove
  <2>6. CASE Setting_ClearWarning(ret)
      BY <2>6, ModeInvUnchanged DEF Setting_ClearWarning, machineVars
  <2> QED BY <1>4, <2>1, <2>2, <2>3, <2>4, <2>5, <2>6 DEF MotionCommand
<1>5. CASE thread_cycle_work
  <2>1. CASE threadstate_running
      BY <1>1, <1>2, <1>3, <2>1
         DEF threadstate_running, LinkDown, LinkWaitingForOP, LinkNotAllEnabled,
             LinkEnabling, LinkReady, LinkStep, LoseLink, ecat_state_switch_to_ready
  <2> QED BY <1>1, <1>5, <2>1 DEF thread_cycle_work
<1>6. CASE fetch_command_and_handle
    BY <1>1, <1>4, <1>6 DEF fetch_command_and_handle, Setting_TriggerEcatConnect, NoCommand
<1>7. CASE RequestStop \/ UNCHANGED vars
    BY <1>1, <1>7 DEF RequestStop, vars
<1> QED BY <1>5, <1>6, <1>7 DEF Next, Cycle

\* The asserts of AutoTaskRunner hold in every configuration: outside Auto the
\* runner is stopped, and the way back is only ever in one of its four states.
THEOREM ModesMatch == Spec => []ModeMatchesRunner
<1>1. Init => ModeInv
    BY DEF Init, MachineInit, ModeInv, ModeMatchesRunner, ResumeFindsPausedTask, Recovery
<1>2. ModeInv => ModeMatchesRunner
    BY DEF ModeInv
<1> QED BY <1>1, <1>2, ModeInvStep, TypeCorrect, PTL DEF Spec

\* While the runner is paused or on the way back the task rests in a pause, so
\* the resume at the end of the way back never fails.
THEOREM ResumeNeverFails == Spec => []ResumeFindsPausedTask
<1>1. Init => ModeInv
    BY DEF Init, MachineInit, ModeInv, ModeMatchesRunner, ResumeFindsPausedTask, Recovery
<1>2. ModeInv => ResumeFindsPausedTask
    BY DEF ModeInv
<1> QED BY <1>1, <1>2, ModeInvStep, TypeCorrect, PTL DEF Spec

----------------------------------------------------------------------------
(* The power outputs and the back-off of a line.                           *)

\* A pause that backs off has switched the high-frequency output off already:
\* G01JumpEnded does it on the way into the back-off.
OffInBackOff ==
    (/\ main_mode = "Auto" /\ task.kind = "G01"
     /\ task.st = "Pausing" /\ task.sub = "BackingToBegin") => ~power.mach

\* The inductive invariant of the outputs.
PowerInv == NoBackOffInJump /\ PowerFollowsMachining /\ OffInBackOff

\* What pause, resume and stop make of a task has the same kind.
LEMMA CallKeepsKind ==
    ASSUME NEW t \in RealTasks, NEW immediate \in BOOLEAN,
           NEW r \in TaskPause(t) \cup TaskResume(t) \cup TaskStop(t, immediate)
    PROVE  r.task.kind = t.kind
<1>1. CASE t.kind = "G00" /\ t \in G00Tasks
  <2>1. PICK q : r = TaskResult(q.ok, [t EXCEPT !.pm = q.pm])
      BY <1>1 DEF TaskPause, TaskResume, TaskStop, G00Call
  <2> QED BY <2>1, <1>1 DEF TaskResult, G00Tasks
<1>2. CASE t.kind = "G01" /\ t \in G01Tasks
  <2>1. r \in {G01Pause(t), G01Resume(t), G01Stop(t)}
      BY <1>2 DEF TaskPause, TaskResume, TaskStop
  <2>2. CASE r = G01Pause(t)
      BY <1>2, <2>2 DEF G01Pause, TaskResult, G01Tasks
  <2>3. CASE r = G01Resume(t)
      BY <1>2, <2>3 DEF G01Resume, Goto, TaskResult, G01Tasks
  <2>4. CASE r = G01Stop(t)
      BY <1>2, <2>4 DEF G01Stop, Goto, TaskResult, G01Tasks
  <2> QED BY <2>1, <2>2, <2>3, <2>4
<1>3. CASE t.kind = "G01Group" /\ t \in GroupTasks
    BY <1>3 DEF TaskPause, TaskResume, TaskStop, GroupPause, G01Resume, GroupStop, Goto,
                TaskResult, GroupTasks
<1>4. CASE t.kind = "G04" /\ t \in G04Tasks
    BY <1>4 DEF TaskPause, TaskResume, TaskStop, G04Pause, G04Resume, Goto, TaskResult,
                G04Tasks
<1>5. CASE t.kind = "M00" /\ t \in M00Tasks
    BY <1>5 DEF TaskPause, TaskResume, TaskStop, M00Pause, M00Resume, Goto, TaskResult,
                M00Tasks
<1> QED BY <1>1, <1>2, <1>3, <1>4, <1>5, RealTaskKinds

\* Nor does a control cycle change the kind.
LEMMA CycleKeepsKind ==
    ASSUME task \in RealTasks, TaskRunOnce
    PROVE  task'.kind = task.kind
<1>1. CASE task.kind = "G00" /\ task \in G00Tasks /\ G00RunOnce
  <2>1. PICK p : task' = [task EXCEPT !.pm = p]
      BY <1>1 DEF G00RunOnce
  <2> QED BY <1>1, <2>1 DEF G00Tasks
<1>2. CASE task.kind = "G01" /\ task \in G01Tasks /\ G01RunOnce
    BY <1>2 DEF G01RunOnce, G01NormalRunning, G01PausingOrStopping, G01Resuming, G01Jump,
                G01StartJump, G01Servo, G01Feed, G01JumpUping, G01JumpDowning,
                G01JumpDowningBuffer, G01JumpEnded, G01BackOff, G01Tasks
<1>3. CASE task.kind = "G01Group" /\ task \in GroupTasks /\ GroupRunOnce
    BY <1>3 DEF GroupRunOnce, GroupNormalRunning, GroupTasks
<1>4. CASE task.kind = "G04" /\ task \in G04Tasks /\ G04RunOnce
    BY <1>4 DEF G04RunOnce, G04Tasks
<1>5. CASE UNCHANGED task
    BY <1>5
<1> QED BY <1>1, <1>2, <1>3, <1>4, <1>5, RealTaskKinds DEF TaskRunOnce

\* A task of another class owes nothing.
LEMMA PowerInvOther ==
    ASSUME task.kind # "G01"
    PROVE  PowerInv
BY DEF PowerInv, NoBackOffInJump, PowerFollowsMachining, OffInBackOff

\* The steps that leave the task and the outputs alone, and stay in Auto if
\* they end there.
LEMMA PowerInvUnchanged ==
    ASSUME PowerInv, UNCHANGED <<task, power>>, main_mode' = "Auto" => main_mode = "Auto"
    PROVE  PowerInv'
BY DEF PowerInv, NoBackOffInJump, PowerFollowsMachining, OffInBackOff

\* pause, resume and stop of the task.
LEMMA PowerInvCall ==
    ASSUME PowerInv, task \in RealTasks, NEW immediate \in BOOLEAN,
           NEW r \in TaskPause(task) \cup TaskResume(task) \cup TaskStop(task, immediate),
           task' = r.task, UNCHANGED <<main_mode, power>>
    PROVE  PowerInv'
<1>1. CASE task.kind = "G01" /\ task \in G01Tasks
  <2>1. r \in {G01Pause(task), G01Resume(task), G01Stop(task)}
      BY <1>1 DEF TaskPause, TaskResume, TaskStop
  <2>2. /\ UNCHANGED <<main_mode, power>>
        /\ task'.kind = "G01" /\ task'.servo = task.servo
        /\ \/ task'.st = task.st /\ task'.sub = task.sub
           \/ /\ task.st = "NormalRunning" /\ task'.st \in {"Pausing", "Stopping"}
              /\ task'.sub = "WaitingForJumpEnd"
           \/ /\ <<task.st, task'.st>> \in {<<"Pausing", "Stopping">>,
                      <<"Paused", "Resuming">>, <<"Paused", "Stopped">>,
                      <<"Resuming", "Stopped">>}
              /\ task'.sub = task.sub
    <3>1. task' = r.task
        OBVIOUS
    <3>2. CASE r = G01Pause(task)
        BY <1>1, <3>1, <3>2 DEF G01Pause, TaskResult, G01Tasks, TaskState
    <3>3. CASE r = G01Resume(task)
        BY <1>1, <3>1, <3>3 DEF G01Resume, Goto, TaskResult, G01Tasks, TaskState
    <3>4. CASE r = G01Stop(task)
        BY <1>1, <3>1, <3>4 DEF G01Stop, Goto, TaskResult, G01Tasks, TaskState
    <3> QED BY <2>1, <3>2, <3>3, <3>4
  <2> QED BY <1>1, <2>2 DEF PowerInv, NoBackOffInJump, PowerFollowsMachining, OffInBackOff
<1>2. CASE task.kind # "G01"
    BY <1>2, CallKeepsKind, PowerInvOther
       DEF PowerInv, NoBackOffInJump, PowerFollowsMachining, OffInBackOff
<1> QED BY <1>1, <1>2, RealTaskKinds

\* A control cycle of the task.
LEMMA PowerInvCycle ==
    ASSUME PowerInv, CycleTypeOK, main_mode = "Auto", TaskRunOnce
    PROVE  PowerInv'
<1>0. task \in RealTasks
    BY DEF CycleTypeOK
<1>1. CASE task.kind = "G01" /\ task \in G01Tasks /\ G01RunOnce
  <2> USE DEF PowerInv, NoBackOffInJump, PowerFollowsMachining, OffInBackOff, CycleTypeOK
  <2>1. CASE task.st = "NormalRunning" /\ task.servo = "Servoing" /\ G01StartJump
      BY <1>1, <2>1 DEF G01StartJump, G01Tasks
  <2>2. CASE task.st = "NormalRunning" /\ task.servo = "Servoing" /\ G01Servo
      BY <1>1, <2>2 DEF G01Servo, G01Feed, G01Tasks
  <2>3. CASE /\ \/ task.st = "NormalRunning"
                \/ task.st \in {"Pausing", "Stopping"} /\ task.sub = "WaitingForJumpEnd"
             /\ G01Jump
    <3>1. CASE task.servo = "JumpUping" /\ G01JumpUping
        BY <1>1, <2>3, <3>1 DEF G01JumpUping, G01Tasks
    <3>2. CASE task.servo = "JumpDowning" /\ G01JumpDowning
        BY <1>1, <2>3, <3>2 DEF G01JumpDowning, G01Tasks
    <3>3. CASE task.servo = "JumpDowningBuffer" /\ G01JumpDowningBuffer
        BY <1>1, <2>3, <3>3 DEF G01JumpDowningBuffer, G01Tasks
    <3> QED BY <2>3, <3>1, <3>2, <3>3 DEF G01Jump
  <2>4. CASE /\ task.st \in {"Pausing", "Stopping"} /\ task.sub = "WaitingForJumpEnd"
             /\ task.servo = "Servoing" /\ G01JumpEnded
      BY <1>1, <2>4 DEF G01JumpEnded, G01Tasks
  <2>5. CASE /\ task.sub = "BackingToBegin" /\ task.st = "Stopping"
             /\ task' = [task EXCEPT !.st = "Stopped"]
             /\ UNCHANGED <<cmd_axis, power>>
      BY <1>1, <2>5 DEF G01Tasks
  <2>6. CASE /\ task.sub = "BackingToBegin" /\ task.st = "Pausing"
             /\ G01BackOff
             /\ UNCHANGED power
      BY <1>1, <2>6 DEF G01BackOff, G01Feed, G01Tasks
  <2>7. CASE task.st = "Resuming" /\ G01Resuming
      BY <1>1, <2>7 DEF G01Resuming, G01Tasks
  <2>8. CASE UNCHANGED <<task, power>>
      BY <2>8
  <2> QED BY <1>1, <2>1, <2>2, <2>3, <2>4, <2>5, <2>6, <2>7, <2>8
          DEF G01RunOnce, G01NormalRunning, G01PausingOrStopping
<1>2. CASE task.kind # "G01"
    BY <1>0, <1>2, CycleKeepsKind
       DEF PowerInv, NoBackOffInJump, PowerFollowsMachining, OffInBackOff
<1> QED BY <1>0, <1>1, <1>2, RealTaskKinds DEF TaskRunOnce

\* A new line finds the outputs switched on.
LEMMA PowerInvStart ==
    ASSUME PowerInv, NEW ret \in BOOLEAN, NEW t, start_auto(ret, t),
           \/ t.kind # "G01" /\ UNCHANGED power
           \/ \E target : t = NewG01(cmd_axis, target) /\ start_auto_g01(ret, target)
    PROVE  PowerInv'
<1>1. CASE t.kind # "G01" /\ UNCHANGED power
  <2>1. CASE runner_restart_task(t)
      BY <1>1, <2>1 DEF runner_restart_task, PowerInv, NoBackOffInJump,
                        PowerFollowsMachining, OffInBackOff
  <2>2. CASE Answer(ret, FALSE) /\ UNCHANGED machineVars
      BY <1>1, <2>2, PowerInvUnchanged DEF Answer, runnerVars, machineVars
  <2> QED BY <2>1, <2>2 DEF start_auto
<1>2. ASSUME NEW target, t = NewG01(cmd_axis, target), start_auto_g01(ret, target)
      PROVE  PowerInv'
  <2>1. t.kind = "G01" /\ t.st = "NormalRunning" /\ t.servo = "Servoing" /\ ~TaskOver(t)
      BY <1>2 DEF NewG01, TaskOver, TaskStateOf
  <2>2. CASE main_mode = "Idle"
      BY <1>2, <2>1, <2>2 DEF start_auto, start_auto_g01, runner_restart_task, PowerInv,
                   NoBackOffInJump, PowerFollowsMachining, OffInBackOff
  <2>3. CASE main_mode # "Idle"
      BY <1>2, <2>3, PowerInvUnchanged
         DEF start_auto, start_auto_g01, Answer, runnerVars, machineVars
  <2> QED BY <2>2, <2>3
<1> QED BY <1>1, <1>2

\* What a step can be, seen from the motion: nothing, a reset (which takes a
\* new position only before the link is ready), a cycle of the machine or a
\* command.
LEMMA StepCases ==
    ASSUME [Next]_vars
    PROVE  \/ UNCHANGED motionVars
           \/ /\ \E enable \in BOOLEAN : reset_and_enable(enable)
              /\ cmd_axis' = cmd_axis \/ ~Ready
              /\ signals' = {} /\ UNCHANGED <<touch, power>>
           \/ Ready /\ run_once
           \/ \E ret \in BOOLEAN : MotionCommand(ret)
<1>1. CASE threadstate_running
    BY <1>1 DEF threadstate_running, LinkDown, LinkWaitingForOP, LinkNotAllEnabled,
                LinkEnabling, LinkReady, LinkStep, LoseLink, ecat_state_switch_to_ready,
                Ready
<1>2. CASE thread_cycle_work
    BY <1>1, <1>2 DEF thread_cycle_work
<1>3. CASE fetch_command_and_handle
    BY <1>3 DEF fetch_command_and_handle, Setting_TriggerEcatConnect, NoCommand
<1>4. CASE RequestStop \/ UNCHANGED vars
    BY <1>4 DEF RequestStop, vars
<1> QED BY <1>2, <1>3, <1>4 DEF Next, Cycle

\* Every step keeps the outputs in step with the machining.
LEMMA PowerInvStep == TypeOK /\ PowerInv /\ [Next]_vars => PowerInv'
<1> SUFFICES ASSUME TypeOK, PowerInv, [Next]_vars PROVE PowerInv'
    OBVIOUS
<1>0. /\ task # NoTask => task \in RealTasks
      /\ RunnerOK
    BY RunnerTask, TypeOKParts DEF TypeOK
<1>1. CASE UNCHANGED motionVars
    BY <1>1, PowerInvUnchanged DEF motionVars, machineVars, runnerVars
<1>2. CASE \E enable \in BOOLEAN : reset_and_enable(enable)
    BY <1>2 DEF reset_and_enable, runner_reset, NoTask, PowerInv, NoBackOffInJump,
                PowerFollowsMachining, OffInBackOff
<1>3. CASE run_once
  <2>1. CASE main_mode = "Auto" /\ mainmode_auto
    <3>0. task # NoTask => CycleTypeOK
        BY <1>0 DEF RunnerOK, CycleTypeOK, TouchTypeOK
    <3>1. CASE task # NoTask /\ TaskRunOnce
        BY <2>1, <3>0, <3>1, PowerInvCycle
    <3>2. CASE UNCHANGED <<task, power>>
        BY <2>1, <3>2, PowerInvUnchanged
    <3>3. CASE task # NoTask /\ recovery_normal_moving /\ UNCHANGED power
      <4>1. CASE \E r \in TaskResume(task) : task' = r.task
        <5>1. main_mode' = main_mode \/ main_mode' # "Auto"
            BY <2>1 DEF mainmode_auto
        <5>2. CASE main_mode' = main_mode
            BY <1>0, <3>3, <4>1, <5>2, PowerInvCall
        <5>3. CASE main_mode' # "Auto"
          <6>1. PICK r \in TaskResume(task) : task' = r.task
              BY <4>1
          <6>2. CASE task.kind = "G01"
            <7>1. task' = G01Resume(task).task
                BY <6>1, <6>2 DEF TaskResume
            <7> QED BY <1>0, <3>3, <5>3, <6>2, <7>1, RealTaskKinds
                    DEF G01Resume, Goto, TaskResult, G01Tasks, PowerInv, NoBackOffInJump,
                        PowerFollowsMachining, OffInBackOff
          <6>3. CASE task.kind # "G01"
              BY <1>0, <3>3, <6>1, <6>3, CallKeepsKind
                 DEF PowerInv, NoBackOffInJump, PowerFollowsMachining, OffInBackOff
          <6> QED BY <6>2, <6>3
        <5> QED BY <5>1, <5>2, <5>3
      <4> QED BY <3>2, <3>3, <4>1 DEF recovery_normal_moving, runnerVars
    <3> QED BY <2>1, <3>1, <3>2, <3>3
            DEF mainmode_auto, runner_run_once, recovery_run_once, recovery_pausing,
                recovery_stopping, runner_normal_moving, runner_pausing, runner_paused,
                runner_resuming, runner_stopping, runnerVars
  <2>2. CASE UNCHANGED <<task, power>> /\ (main_mode' = "Auto" => main_mode = "Auto")
      BY <2>2, PowerInvUnchanged
  <2> QED BY <1>3, <2>1, <2>2
          DEF run_once, mainmode_idle, mainmode_manual, machineVars, runnerVars
<1>4. ASSUME NEW ret \in BOOLEAN, MotionCommand(ret) PROVE PowerInv'
  <2>0. CASE UNCHANGED <<task, power>> /\ (main_mode' = "Auto" => main_mode = "Auto")
      BY <2>0, PowerInvUnchanged
  <2>1. CASE StartPointMove(ret) \/ StopPointMove(ret) \/ Setting_ClearWarning(ret)
      BY <2>0, <2>1 DEF StartPointMove, StopPointMove, Setting_ClearWarning, Ignored,
              motionVars, machineVars, runnerVars, start_manual_pointmove,
              stop_manual_pointmove, runner_start_manual_pointmove,
              runner_stop_manual_pointmove, Answer
  <2>2. CASE StartG00FastMove(ret) \/ G04Delay(ret) \/ M00FakePauseTask(ret) \/ G01Group(ret)
    <3>1. ASSUME NEW t, t.kind # "G01", start_auto(ret, t), UNCHANGED power
          PROVE  PowerInv'
        BY <3>1, PowerInvStart
    <3>2. /\ \A target, detect : NewG00(cmd_axis, target, detect).kind # "G01"
          /\ \A delay : NewG04(delay).kind # "G01"
          /\ NewM00.kind # "G01"
          /\ \A corners : NewG01Group(cmd_axis, corners).kind # "G01"
        BY DEF NewG00, NewG04, NewM00, NewG01Group
    <3> QED BY <1>1, <2>2, <3>1, <3>2
            DEF StartG00FastMove, G04Delay, M00FakePauseTask, G01Group, Ignored
  <2>3. CASE StartG01ServoMove(ret)
      BY <1>1, <2>3, PowerInvStart DEF StartG01ServoMove, Ignored, start_auto_g01
  <2>4. CASE Auto_Stop(ret) \/ Auto_Pause(ret) \/ Auto_Resume(ret)
    <3>1. UNCHANGED <<main_mode, power>>
        BY <2>4 DEF Auto_Stop, Auto_Pause, Auto_Resume, stop_auto, pause_auto, resume_auto,
                    machineVars
    <3>2. \/ UNCHANGED task
          \/ /\ task # NoTask
             /\ \E immediate \in BOOLEAN :
                  \E r \in TaskPause(task) \cup TaskStop(task, immediate) : task' = r.task
        BY <2>4 DEF Auto_Stop, Auto_Pause, Auto_Resume, stop_auto, pause_auto, resume_auto,
                    runner_pause, runner_resume, runner_stop, Answer, runnerVars
    <3> QED BY <1>0, <2>0, <3>1, <3>2, PowerInvCall
  <2>5. CASE EmergencyStopAllMove(ret)
      BY <1>2, <2>5 DEF EmergencyStopAllMove
  <2> QED BY <1>4, <2>1, <2>2, <2>3, <2>4, <2>5 DEF MotionCommand
<1> QED BY <1>1, <1>2, <1>3, <1>4, StepCases

\* The asserts of G01AutoTask about its jump hold in every interleaving of
\* pause, stop and resume with the jumps: a line backs off, rests and resumes
\* only after the jump in progress has ended.
THEOREM BackOffAfterJump == Spec => []NoBackOffInJump
<1>1. Init => PowerInv
    BY DEF Init, MachineInit, NoTask, PowerInv, NoBackOffInJump, PowerFollowsMachining,
           OffInBackOff
<1>2. PowerInv => NoBackOffInJump
    BY DEF PowerInv
<1> QED BY <1>1, <1>2, PowerInvStep, TypeCorrect, PTL DEF Spec

\* The voltage gate and the high-frequency output are on and off when the
\* state of the line says so, whatever commands meet it, and a paused line,
\* manual moves and way back included, machines nothing.
THEOREM OutputsFollow == Spec => []PowerFollowsMachining
<1>1. Init => PowerInv
    BY DEF Init, MachineInit, NoTask, PowerInv, NoBackOffInJump, PowerFollowsMachining,
           OffInBackOff
<1>2. PowerInv => PowerFollowsMachining
    BY DEF PowerInv
<1> QED BY <1>1, <1>2, PowerInvStep, TypeCorrect, PTL DEF Spec

----------------------------------------------------------------------------
\* Every step keeps a ready link's machine enabled.
LEMMA EnabledStep == EnabledWhenReady /\ [Next]_vars => EnabledWhenReady'
<1> SUFFICES ASSUME EnabledWhenReady, [Next]_vars PROVE EnabledWhenReady'
    OBVIOUS
<1> USE DEF EnabledWhenReady, Ready
<1>1. CASE UNCHANGED <<ecat_state, enabled>>
    BY <1>1
<1>2. ASSUME NEW ret \in BOOLEAN, MotionCommand(ret), UNCHANGED linkVars
      PROVE  EnabledWhenReady'
  <2>1. CASE EmergencyStopAllMove(ret)
      BY <2>1 DEF EmergencyStopAllMove, reset_and_enable
  <2>2. CASE ~EmergencyStopAllMove(ret)
    <3>1. enabled' = enabled
        BY <1>2, <2>2
           DEF MotionCommand, StartPointMove, StopPointMove, StartG00FastMove,
               StartG01ServoMove, G04Delay, M00FakePauseTask, G01Group, Auto_Stop,
               Auto_Pause, Auto_Resume, Setting_ClearWarning, Ignored, motionVars,
               start_manual_pointmove, stop_manual_pointmove, start_auto, start_auto_g01,
               pause_auto, resume_auto, stop_auto, machineVars
    <3> QED BY <1>2, <3>1 DEF linkVars
  <2> QED BY <2>1, <2>2
<1>3. CASE run_once /\ UNCHANGED ecat_state
  <2>1. enabled' = enabled
      BY <1>3 DEF run_once, mainmode_idle, mainmode_manual, mainmode_auto, machineVars
  <2> QED BY <1>3, <2>1
<1>4. CASE threadstate_running
    BY <1>1, <1>3, <1>4
       DEF threadstate_running, LinkDown, LinkWaitingForOP, LinkNotAllEnabled, LinkEnabling,
           LinkReady, LinkStep, LoseLink, ecat_state_switch_to_ready, reset_and_enable,
           motionVars, machineVars
<1>5. CASE thread_cycle_work
    BY <1>1, <1>4, <1>5 DEF thread_cycle_work, linkVars, motionVars, machineVars
<1>6. CASE fetch_command_and_handle
    BY <1>1, <1>2, <1>6 DEF fetch_command_and_handle, Setting_TriggerEcatConnect, NoCommand,
                            linkVars, motionVars, machineVars
<1>7. CASE RequestStop \/ UNCHANGED vars
    BY <1>1, <1>7 DEF RequestStop, vars, threadVars, linkVars, motionVars, machineVars
<1> QED BY <1>5, <1>6, <1>7 DEF Next, Cycle

\* However often the link is lost and re-established and the machine stopped
\* in an emergency, a ready link has an enabled machine.
THEOREM ReadyMeansEnabled == Spec => []EnabledWhenReady
<1>1. Init => EnabledWhenReady
    BY DEF Init, EnabledWhenReady, Ready
<1> QED BY <1>1, EnabledStep, PTL DEF Spec

=============================================================================

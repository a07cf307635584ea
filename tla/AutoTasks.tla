----------------------------- MODULE AutoTasks -----------------------------
(***************************************************************************)
(* The tasks an auto command starts: G00 (fast move), G01 (servo-fed       *)
(* machining with periodic jumps), G01Group (a chain of fed segments),     *)
(* G04 (delay) and M00 (a pause that waits for the operator).              *)
(*                                                                         *)
(* A task is a record whose kind says which class it is.  pause, resume    *)
(* and stop are functions of the task (they answer ok and the new task);   *)
(* run_once is an action because it moves the axis, runs the touch         *)
(* detection and switches the power outputs.                               *)
(***************************************************************************)
EXTENDS MotionSharedData, Sequences

CONSTANTS BackDist,    \* pause_return_back_target_distance_blu_, in grid units
          MaxDelay,    \* bound on the control cycles of a G04
          MaxSegments  \* bound on the segments of a G01 group

ASSUME AutoTasksAssumption ==
    BackDist \in Nat /\ MaxDelay \in Nat \ {0} /\ MaxSegments \in Nat \ {0}

VARIABLE task   \* AutoTaskRunner::curr_task_

TaskState == {"NormalRunning", "Pausing", "Paused", "Resuming", "Stopping",
              "Stopped"}

NoTask == [kind |-> "None"]

G00Tasks == [kind : {"G00"}, detect : BOOLEAN, pm : PointMoves]

\* pos is line_traj_'s position, before the position in front of a jump, down
\* the end of its fast way back, gone what a pause has already backed off.
G01Tasks == [kind : {"G01"}, st : TaskState,
             servo : {"Servoing", "JumpUping", "JumpDowning", "JumpDowningBuffer"},
             sub : {"WaitingForJumpEnd", "BackingToBegin"},
             start : Pos, end : Pos, pos : Pos,
             jump : PointMoves, before : Pos, down : Pos, gone : 0..BackDist]

\* pts are the corners, seg the segment being run (from pts[seg]).
GroupTasks == [kind : {"G01Group"}, st : TaskState, pts : Seq(Pos),
               seg : Nat \ {0}, pos : Pos]

G04Tasks == {t \in [kind : {"G04"}, st : {"NormalRunning", "Paused", "Stopped"},
                  left : 0..MaxDelay] : t.st = "Stopped" \/ t.left > 0}

M00Tasks == [kind : {"M00"}, st : {"Paused", "Stopped"}]

Tasks == {NoTask} \cup G00Tasks \cup G01Tasks \cup GroupTasks \cup G04Tasks
            \cup M00Tasks

----------------------------------------------------------------------------
(* Construction.                                                           *)

NewG00(from, to, detect) ==
    [kind |-> "G00", detect |-> detect, pm |-> PmStart(IdlePm, from, to).pm]

NewG01(from, to) ==
    [kind |-> "G01", st |-> "NormalRunning", servo |-> "Servoing",
     sub |-> "WaitingForJumpEnd", start |-> from, end |-> to, pos |-> from,
     jump |-> IdlePm, before |-> from, down |-> from, gone |-> 0]

\* A group without segments is over from the start.
NewG01Group(from, corners) ==
    [kind |-> "G01Group",
     st |-> IF corners = <<>> THEN "Stopped" ELSE "NormalRunning",
     pts |-> <<from>> \o corners, seg |-> 1, pos |-> from]

NewG04(delay) == [kind |-> "G04", st |-> "NormalRunning", left |-> delay]

NewM00 == [kind |-> "M00", st |-> "Paused"]

----------------------------------------------------------------------------
(* Queries.                                                                *)

\* The state behind is_normal_running() ... is_stopped().
TaskStateOf(t) ==
    IF t.kind # "G00" THEN t.st
    ELSE CASE t.pm.st = "Running"    -> "NormalRunning"
           [] t.pm.st = "NotStarted" -> "Stopped"
           [] OTHER                  -> t.pm.st

TaskOver(t) == TaskStateOf(t) = "Stopped"

\* Tasks that command the axis, and the position they command.
Moves(t) == t.kind \in {"G00", "G01", "G01Group"}

Jumping(t) == t.servo \in {"JumpUping", "JumpDowning"}

TaskPos(t) ==
    CASE t.kind = "G00" -> t.pm.curr
      [] t.kind = "G01" -> IF Jumping(t) THEN t.jump.curr ELSE t.pos
      [] OTHER -> t.pos

----------------------------------------------------------------------------
(* pause, resume and stop.                                                 *)

TaskResult(ok, t) == [ok |-> ok, task |-> t]

Goto(t, st) == TaskResult(TRUE, [t EXCEPT !.st = st])

G00Call(t, results) ==
    {TaskResult(r.ok, [t EXCEPT !.pm = r.pm]) : r \in results}

\* Mutant: the sub-state of an earlier pause is kept.
G01Pause_KeepsSub(t) ==
    CASE t.st = "NormalRunning" -> Goto(t, "Pausing")
      [] t.st \in {"Pausing", "Paused"} -> TaskResult(TRUE, t)
      [] OTHER -> TaskResult(FALSE, t)

\* A jump in progress is finished first: see G01PausingOrStopping.
G01Pause(t) ==
    CASE t.st = "NormalRunning" ->
            TaskResult(TRUE, [t EXCEPT !.st = "Pausing", !.sub = "WaitingForJumpEnd"])
      [] t.st \in {"Pausing", "Paused"} -> TaskResult(TRUE, t)
      [] OTHER -> TaskResult(FALSE, t)

G01Resume(t) ==
    CASE t.st = "Paused" -> Goto(t, "Resuming")
      [] t.st = "Resuming" -> TaskResult(TRUE, t)
      [] OTHER -> TaskResult(FALSE, t)

G01Stop(t) ==
    CASE t.st = "NormalRunning" ->
            TaskResult(TRUE, [t EXCEPT !.st = "Stopping", !.sub = "WaitingForJumpEnd"])
      [] t.st = "Pausing" -> Goto(t, "Stopping")
      [] t.st \in {"Paused", "Resuming"} -> Goto(t, "Stopped")
      [] OTHER -> TaskResult(TRUE, t)

GroupPause(t) ==
    CASE t.st \in {"NormalRunning", "Resuming"} -> Goto(t, "Pausing")
      [] t.st = "Pausing" -> TaskResult(TRUE, t)
      [] OTHER -> TaskResult(FALSE, t)

GroupStop(t) ==
    CASE t.st \in {"NormalRunning", "Resuming", "Pausing", "Paused"} ->
            Goto(t, "Stopping")
      [] t.st = "Stopping" -> TaskResult(TRUE, t)
      [] OTHER -> TaskResult(FALSE, t)

G04Pause(t) ==
    IF t.st = "Stopped" THEN TaskResult(FALSE, t) ELSE Goto(t, "Paused")

G04Resume(t) ==
    IF t.st = "Paused" THEN Goto(t, "NormalRunning") ELSE TaskResult(FALSE, t)

M00Pause(t) == TaskResult(t.st = "Paused", t)

M00Resume(t) ==
    IF t.st = "Paused" THEN Goto(t, "Stopped") ELSE TaskResult(FALSE, t)

TaskPause(t) ==
    CASE t.kind = "G00" -> G00Call(t, PmPause(t.pm))
      [] t.kind = "G01" -> {G01Pause(t)}
      [] t.kind = "G01Group" -> {GroupPause(t)}
      [] t.kind = "G04" -> {G04Pause(t)}
      [] t.kind = "M00" -> {M00Pause(t)}

TaskResume(t) ==
    CASE t.kind = "G00" -> G00Call(t, {PmResume(t.pm)})
      [] t.kind \in {"G01", "G01Group"} -> {G01Resume(t)}
      [] t.kind = "G04" -> {G04Resume(t)}
      [] t.kind = "M00" -> {M00Resume(t)}

TaskStop(t, immediate) ==
    CASE t.kind = "G00" -> G00Call(t, PmStop(t.pm, immediate))
      [] t.kind = "G01" -> {G01Stop(t)}
      [] t.kind = "G01Group" -> {GroupStop(t)}
      [] t.kind \in {"G04", "M00"} -> {Goto(t, "Stopped")}

----------------------------------------------------------------------------
(* run_once of G00: the detection is re-armed in every cycle, because a     *)
(* manual move during a pause may have changed it, and it is switched off   *)
(* for display once the move rests.                                         *)

G00RunOnce ==
    \E contact \in BOOLEAN :
      LET armed == SetDetectEnable(touch, task.detect)
          hit == TouchHit(armed, contact)
          seen == TouchAfter(armed, contact)
          halted == [task.pm EXCEPT !.st = IF hit THEN "Stopped" ELSE @]
      IN  \E p \in PmRunOnce(halted) :
            /\ task' = [task EXCEPT !.pm = p]
            /\ cmd_axis' = p.curr
            /\ touch' = IF PmOver(p) \/ p.st = "Paused"
                          THEN SetDetectEnable(seen, FALSE) ELSE seen
            /\ UNCHANGED power

----------------------------------------------------------------------------
(* run_once of G01.                                                         *)

\* The line moves and the commanded position follows it.
G01Feed(t) == task' = t /\ cmd_axis' = t.pos

\* Mutant: the length is not clamped to the segment.
Fed_Unclamped(t, d) == t.pos + (IF t.end >= t.start THEN d ELSE -d)

\* A servo command of d grid units, clamped to the segment.
Fed(t, d) ==
    LET fwd == IF t.end >= t.start THEN 1 ELSE -1
        raw == t.pos + fwd * d
    IN  IF raw \in Between(t.start, t.end) THEN raw
        ELSE IF d > 0 THEN t.end ELSE t.start

\* The interval is over and the plan succeeds: up is behind the tool, the
\* fast way down ends a buffer before the old position, inside the segment.
\* The gate is closed while the tool is away.
G01StartJump ==
    \E up \in Pos, down \in Between(task.start, task.pos) :
      /\ up # task.pos
      /\ task.pos \in Between(up, task.end)
      /\ Abs(task.pos - down) < Abs(task.pos - up)
      /\ task' = [task EXCEPT !.servo = "JumpUping", !.before = task.pos,
                    !.down = down, !.jump = PmStart(task.jump, task.pos, up).pm]
      /\ power' = [power EXCEPT !.gate = FALSE]
      /\ UNCHANGED cmd_axis

\* Normal feeding; reaching the end of the segment ends the task.
G01Servo ==
    \E d \in -MaxStep..MaxStep :
      /\ G01Feed([task EXCEPT !.pos = Fed(task, d),
                   !.st = IF d > 0 /\ Fed(task, d) = task.end
                            THEN "Stopping" ELSE @])
      /\ UNCHANGED power

\* At the top the way down starts and the gate opens again.
G01JumpUping ==
    \E p \in PmRunOnce(task.jump) :
      /\ cmd_axis' = p.curr
      /\ \/ /\ ~PmOver(p)
            /\ task' = [task EXCEPT !.jump = p]
            /\ UNCHANGED power
         \/ /\ PmOver(p)
            /\ task' = [task EXCEPT !.servo = "JumpDowning",
                          !.jump = PmStart(p, p.target, task.down).pm]
            /\ power' = [power EXCEPT !.gate = TRUE]

\* Mutant: the line keeps the length it had before the jump.
G01JumpDowning_LineNotSet ==
    \E p \in PmRunOnce(task.jump) :
      /\ cmd_axis' = p.curr
      /\ task' = [task EXCEPT !.jump = p,
                    !.servo = IF PmOver(p) THEN "JumpDowningBuffer" ELSE @]
      /\ UNCHANGED power

\* The line is set back to the start of the buffer.
G01JumpDowning ==
    \E p \in PmRunOnce(task.jump) :
      /\ cmd_axis' = p.curr
      /\ task' = IF PmOver(p)
                   THEN [task EXCEPT !.jump = p, !.servo = "JumpDowningBuffer",
                                     !.pos = task.down]
                   ELSE [task EXCEPT !.jump = p]
      /\ UNCHANGED power

\* The buffer is fed by the servo up to the old position; a command to stand
\* still or retreat ends it early.
G01JumpDowningBuffer ==
    \E d \in 0..MaxStep :
      LET over == d = 0 \/ d >= Abs(task.before - task.pos)
          reached == IF over THEN task.before ELSE Fed(task, d)
      IN  /\ task' = [task EXCEPT !.pos = IF d = 0 THEN @ ELSE reached,
                        !.servo = IF over THEN "Servoing" ELSE @]
          /\ cmd_axis' = IF d = 0 THEN cmd_axis ELSE reached
          /\ UNCHANGED power

G01Jump ==
    \/ task.servo = "JumpUping" /\ G01JumpUping
    \/ task.servo = "JumpDowning" /\ G01JumpDowning
    \/ task.servo = "JumpDowningBuffer" /\ G01JumpDowningBuffer

G01NormalRunning ==
    \/ task.servo = "Servoing" /\ (G01StartJump \/ G01Servo)
    \/ G01Jump

\* The jump is over: the high-frequency output goes off.
G01JumpEnded ==
    /\ task' = [task EXCEPT !.sub = "BackingToBegin",
                  !.gone = IF task.st = "Pausing" THEN 0 ELSE @]
    /\ power' = [power EXCEPT !.mach = FALSE]
    /\ UNCHANGED cmd_axis

\* Mutant: only the start of the line ends the back-off.
G01BackOff_StartOnly ==
    LET back == IF task.gone = BackDist THEN task.pos ELSE Fed(task, -1)
    IN  G01Feed([task EXCEPT !.pos = back,
                  !.gone = IF task.gone = BackDist THEN @ ELSE @ + 1,
                  !.st = IF back = task.start THEN "Paused" ELSE @])

\* A pause backs off by BackDist along the segment, one grid unit a cycle.
G01BackOff ==
    LET done == task.gone = BackDist
        back == IF done THEN task.pos ELSE Fed(task, -1)
    IN  G01Feed([task EXCEPT !.pos = back,
                  !.gone = IF done THEN @ ELSE @ + 1,
                  !.st = IF done \/ back = task.start THEN "Paused" ELSE @])

G01PausingOrStopping ==
    \/ /\ task.sub = "WaitingForJumpEnd"
       /\ \/ task.servo = "Servoing" /\ G01JumpEnded
          \/ G01Jump
    \/ /\ task.sub = "BackingToBegin" /\ task.st = "Stopping"
       /\ task' = [task EXCEPT !.st = "Stopped"]
       /\ UNCHANGED <<cmd_axis, power>>
    \/ /\ task.sub = "BackingToBegin" /\ task.st = "Pausing"
       /\ G01BackOff
       /\ UNCHANGED power

\* Mutant: only the gate is opened.
G01Resuming_GateOnly ==
    /\ task' = [task EXCEPT !.st = "NormalRunning"]
    /\ power' = [power EXCEPT !.gate = TRUE]
    /\ UNCHANGED cmd_axis

\* Power is back before the servo feeds again.
G01Resuming ==
    /\ task' = [task EXCEPT !.st = "NormalRunning"]
    /\ power' = [gate |-> TRUE, mach |-> TRUE]
    /\ UNCHANGED cmd_axis

G01RunOnce ==
    /\ \/ task.st = "NormalRunning" /\ G01NormalRunning
       \/ task.st \in {"Pausing", "Stopping"} /\ G01PausingOrStopping
       \/ task.st = "Resuming" /\ G01Resuming
       \/ task.st \in {"Paused", "Stopped"} /\ UNCHANGED <<task, cmd_axis, power>>
    /\ UNCHANGED touch

----------------------------------------------------------------------------
(* run_once of the other tasks.                                             *)

\* TrajectoryList::run_once: feed the current segment (not at all when the
\* speed ratio rounds to nothing) and step to the next one at its end.
GroupNormalRunning ==
    LET corner == task.pts[task.seg + 1]
    IN  \E x \in {task.pos} \cup Toward(task.pos, corner) :
          LET atCorner == x = corner
              last == task.seg + 1 = Len(task.pts)
          IN  /\ task' = [task EXCEPT !.pos = x,
                            !.seg = IF atCorner /\ ~last THEN @ + 1 ELSE @,
                            !.st = IF atCorner /\ last THEN "Stopped" ELSE @]
              /\ cmd_axis' = x

\* Where each state of a group goes when it is run; its power switching is
\* disabled in the code (_mach_on returns at once).
GroupNext == [Pausing |-> "Paused", Paused |-> "Paused",
              Resuming |-> "NormalRunning", Stopping |-> "Stopped",
              Stopped |-> "Stopped"]

GroupRunOnce ==
    /\ \/ task.st = "NormalRunning" /\ GroupNormalRunning
       \/ /\ task.st # "NormalRunning"
          /\ task' = [task EXCEPT !.st = GroupNext[task.st]]
          /\ UNCHANGED cmd_axis
    /\ UNCHANGED <<touch, power>>

G04RunOnce ==
    /\ task' = IF task.st # "NormalRunning" THEN task
               ELSE [task EXCEPT !.left = @ - 1,
                                 !.st = IF task.left <= 1 THEN "Stopped" ELSE @]
    /\ UNCHANGED <<cmd_axis, touch, power>>

TaskRunOnce ==
    \/ task.kind = "G00" /\ G00RunOnce
    \/ task.kind = "G01" /\ G01RunOnce
    \/ task.kind = "G01Group" /\ GroupRunOnce
    \/ task.kind = "G04" /\ G04RunOnce
    \/ task.kind = "M00" /\ UNCHANGED <<task, cmd_axis, touch, power>>

=============================================================================

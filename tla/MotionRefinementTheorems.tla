---------------------- MODULE MotionRefinementTheorems ----------------------
(***************************************************************************)
(* The motion thread implements MotionService, for every value of the      *)
(* constants: initial states map to initial states and every step maps to  *)
(* a step of the service or changes nothing a client sees.  One lemma per  *)
(* command and one for the control cycle.                                  *)
(***************************************************************************)
EXTENDS MotionRefinement, MotionTheorems

\* In Auto there is a task: without one the answers of the runner would not
\* follow from the auto state alone.
AutoHasTask == main_mode = "Auto" => task # NoTask

\* The link becomes ready only while the thread runs.
NotReadyAtFirst == thread_state = "Init" => ~Ready

\* What the mapping of a step relies on.
RefInv == TypeOK /\ ModeInv /\ EnabledWhenReady /\ AutoHasTask /\ NotReadyAtFirst

\* The part of it that is not typing.
ControlInv == ModeInv /\ EnabledWhenReady /\ AutoHasTask /\ NotReadyAtFirst

----------------------------------------------------------------------------
(* The two additional invariants.                                          *)

\* A task that is there is not the absence of one.
LEMMA RealTaskIsTask ==
    ASSUME NEW t \in RealTasks
    PROVE  t # NoTask
BY RealTaskKinds DEF NoTask

\* A cycle in Auto keeps a task.
LEMMA AutoCycleKeepsTask ==
    ASSUME RefInv, main_mode = "Auto", mainmode_auto
    PROVE  task' # NoTask
<1>1. task \in RealTasks /\ CycleTypeOK
    BY RunnerTask DEF RefInv, AutoHasTask, TypeOK, SharedTypeOK, CycleTypeOK
<1>2. CASE TaskRunOnce
    BY <1>1, <1>2, TaskRunOnceType, RealTaskIsTask DEF CycleTypeOK
<1>3. CASE UNCHANGED task
    BY <1>3 DEF RefInv, AutoHasTask
<1>4. CASE recovery_normal_moving
  <2>1. \A r \in TaskResume(task) : r.task \in RealTasks
      BY <1>1, TaskResumeType DEF TaskResults
  <2> QED BY <1>3, <1>4, <2>1, RealTaskIsTask DEF recovery_normal_moving, runnerVars
<1> QED BY <1>2, <1>3, <1>4
        DEF mainmode_auto, runner_run_once, recovery_run_once, recovery_pausing,
            recovery_stopping, runner_normal_moving, runner_pausing, runner_paused,
            runner_resuming, runner_stopping, runnerVars

\* A task that is started is one of the five classes.
LEMMA StartedTask ==
    ASSUME TypeOK, NEW ret \in BOOLEAN,
           \/ StartG00FastMove(ret) \/ StartG01ServoMove(ret) \/ G04Delay(ret)
           \/ M00FakePauseTask(ret) \/ G01Group(ret)
    PROVE  \/ ret = FALSE /\ signals' = {} /\ UNCHANGED <<machineVars, runnerVars, touch>>
           \/ \E t \in RealTasks : start_auto(ret, t) /\ UNCHANGED touch
<1>1. cmd_axis \in Pos /\ <<>> \in Seq(Pos) /\ 1 \in 1..MaxDelay /\ Delays \subseteq 1..MaxDelay
    BY AutoTasksAssumption, MotionThreadAssumption DEF TypeOK, SharedTypeOK
<1>2. CASE Ignored(ret)
    BY <1>2 DEF Ignored, motionVars
<1>3. \A target \in Pos, detect \in BOOLEAN : NewG00(cmd_axis, target, detect) \in RealTasks
    BY <1>1, NewTaskTypes
<1>4. CASE StartG00FastMove(ret)
    BY <1>2, <1>3, <1>4 DEF StartG00FastMove
<1>5. CASE StartG01ServoMove(ret)
  <2>1. \A target \in Pos : NewG01(cmd_axis, target) \in RealTasks
      BY <1>1, NewTaskTypes
  <2> QED BY <1>2, <1>5, <2>1 DEF StartG01ServoMove, start_auto_g01
<1>6. CASE G04Delay(ret)
  <2>1. \A delay \in Delays : NewG04(delay) \in RealTasks
      BY <1>1, NewTaskTypes
  <2> QED BY <1>2, <1>6, <2>1 DEF G04Delay
<1>7. CASE M00FakePauseTask(ret)
  <2>1. NewM00 \in RealTasks
      BY DEF NewM00, M00Tasks, RealTasks
  <2> QED BY <1>2, <1>7, <2>1 DEF M00FakePauseTask
<1>8. CASE G01Group(ret)
  <2>1. \A corners \in Corners : NewG01Group(cmd_axis, corners) \in RealTasks
      BY <1>1, NewTaskTypes, CornersType
  <2> QED BY <1>8, <2>1 DEF G01Group
<1> QED BY <1>4, <1>5, <1>6, <1>7, <1>8

----------------------------------------------------------------------------
(* The commands.                                                           *)

\* The signals a client waits for are not raised by other signals.
LEMMA NotRaised ==
    ASSUME signals' \in {{}, {"AutoStarted"}, {"ManualPointMoveStarted"},
                         {"ManualPointMoveStopped"}}
    PROVE  Raised' = FALSE
BY DEF Raised

\* A call that leaves what a client sees.
LEMMA NothingSeen ==
    ASSUME UNCHANGED <<main_mode, state, touch>>, Raised' = FALSE
    PROVE  S!Nothing
BY DEF S!Nothing

\* The start of an auto task.
LEMMA StartPromised ==
    ASSUME RefInv, NEW ret \in BOOLEAN
    PROVE  /\ StartG00FastMove(ret) => S!Start("G00", ret)
           /\ StartG01ServoMove(ret) => S!Start("G01", ret)
           /\ G04Delay(ret) => S!Start("G04", ret)
           /\ M00FakePauseTask(ret) => S!Start("M00", ret)
           /\ G01Group(ret) => S!Start("G01Group", ret)
<1>1. ASSUME NEW t, start_auto(ret, t), UNCHANGED touch
      PROVE  \/ ret = FALSE /\ S!Nothing /\ (main_mode # "Idle" \/ TaskOver(t))
             \/ /\ ret = TRUE /\ main_mode = "Idle" /\ ~TaskOver(t)
                /\ main_mode' = "Auto" /\ state' = "NormalMoving" /\ Raised' = FALSE
                /\ UNCHANGED touch
    BY <1>1, NotRaised, NothingSeen
       DEF start_auto, Answer, runner_restart_task, machineVars, runnerVars
<1>2. Ignored(ret) => ret = FALSE /\ S!Nothing
    BY NotRaised, NothingSeen DEF Ignored, motionVars, machineVars, runnerVars
<1>3. StartG00FastMove(ret) => S!Start("G00", ret)
    BY <1>1, <1>2, NotRaised DEF StartG00FastMove, S!Start
<1>4. StartG01ServoMove(ret) => S!Start("G01", ret)
  <2>1. ASSUME NEW target PROVE ~TaskOver(NewG01(cmd_axis, target))
      BY DEF TaskOver, TaskStateOf, NewG01
  <2> QED BY <1>1, <1>2, <2>1 DEF StartG01ServoMove, start_auto_g01, S!Start
<1>5. G04Delay(ret) => S!Start("G04", ret)
  <2>1. ASSUME NEW delay PROVE ~TaskOver(NewG04(delay))
      BY DEF TaskOver, TaskStateOf, NewG04
  <2> QED BY <1>1, <1>2, <2>1 DEF G04Delay, S!Start
<1>6. M00FakePauseTask(ret) => S!Start("M00", ret)
  <2>1. ~TaskOver(NewM00)
      BY DEF TaskOver, TaskStateOf, NewM00
  <2> QED BY <1>1, <1>2, <2>1 DEF M00FakePauseTask, S!Start
<1>7. G01Group(ret) => S!Start("G01Group", ret)
    BY <1>1 DEF G01Group, S!Start
<1> QED BY <1>3, <1>4, <1>5, <1>6, <1>7

\* pause, resume and stop of the task: the answer follows from the auto state
\* unless the way back decides.
LEMMA AutoCallPromised ==
    ASSUME RefInv, NEW ret \in BOOLEAN
    PROVE  /\ Auto_Pause(ret) => S!Pause(ret)
           /\ Auto_Resume(ret) => S!Resume(ret)
           /\ Auto_Stop(ret) => S!Stop(ret)
<1>1. /\ main_mode = "Auto" => task # NoTask
      /\ main_mode = "Auto" /\ Recovery =>
           state \in {"NormalMoving", "Pausing", "Paused", "Stopping"}
      /\ state \in AutoState
    BY DEF RefInv, AutoHasTask, ModeInv, ModeMatchesRunner, TypeOK, RunnerTypeOK
<1>2. ASSUME NEW value, Answer(ret, value), UNCHANGED <<machineVars, touch>>
      PROVE  ret = value /\ S!Nothing
    BY <1>2, NotRaised, NothingSeen DEF Answer, machineVars, runnerVars
<1>3. Auto_Pause(ret) => S!Pause(ret)
  <2> SUFFICES ASSUME Auto_Pause(ret) PROVE S!Pause(ret)
      OBVIOUS
  <2>1. UNCHANGED <<machineVars, touch>>
      BY DEF Auto_Pause, pause_auto
  <2>2. CASE main_mode # "Auto"
      BY <1>2, <2>1, <2>2 DEF Auto_Pause, pause_auto, S!Pause
  <2>3. CASE main_mode = "Auto" /\ runner_pause(ret)
    <3>1. CASE /\ state \in {"NormalMoving", "Resuming"} /\ signals' = {}
               /\ state' = IF ret THEN "Pausing" ELSE state
      <4>1. CASE ret = FALSE
          BY <2>1, <2>3, <3>1, <4>1, NotRaised, NothingSeen DEF S!Pause, machineVars
      <4>2. CASE ret = TRUE
          BY <2>1, <2>3, <3>1, <4>2, NotRaised DEF S!Pause, machineVars
      <4> QED BY <4>1, <4>2
    <3> QED BY <1>1, <1>2, <2>1, <2>3, <3>1 DEF runner_pause, S!Pause
  <2> QED BY <2>2, <2>3 DEF Auto_Pause, pause_auto
<1>4. Auto_Resume(ret) => S!Resume(ret)
  <2> SUFFICES ASSUME Auto_Resume(ret) PROVE S!Resume(ret)
      OBVIOUS
  <2>1. UNCHANGED <<machineVars, touch>>
      BY DEF Auto_Resume, resume_auto
  <2>2. CASE main_mode # "Auto"
      BY <1>2, <2>1, <2>2 DEF Auto_Resume, resume_auto, S!Resume
  <2>3. CASE main_mode = "Auto" /\ runner_resume(ret)
    <3>1. CASE /\ state = "Paused" /\ state' = IF ret THEN "NormalMoving" ELSE state
               /\ signals' = IF ret THEN {"AutoResumed"} ELSE {}
      <4>1. CASE ret = FALSE
          BY <2>1, <2>3, <3>1, <4>1, NotRaised, NothingSeen DEF S!Resume, machineVars
      <4>2. CASE ret = TRUE
          BY <2>1, <2>3, <3>1, <4>2 DEF S!Resume, machineVars, Raised
      <4> QED BY <4>1, <4>2
    <3> QED BY <1>1, <1>2, <2>1, <2>3, <3>1 DEF runner_resume, S!Resume
  <2> QED BY <2>2, <2>3 DEF Auto_Resume, resume_auto
<1>5. Auto_Stop(ret) => S!Stop(ret)
  <2> SUFFICES ASSUME NEW immediate \in BOOLEAN, stop_auto(ret, immediate), UNCHANGED touch
               PROVE  S!Stop(ret)
      BY DEF Auto_Stop
  <2>1. UNCHANGED <<machineVars, touch>>
      BY DEF stop_auto
  <2>2. CASE main_mode # "Auto"
      BY <1>2, <2>1, <2>2 DEF stop_auto, S!Stop
  <2>3. CASE main_mode = "Auto" /\ runner_stop(ret, immediate)
    <3>1. CASE /\ state \notin {"Stopping", "Stopped"} /\ signals' = {}
               /\ \/ state' = IF ret THEN "Stopping" ELSE state
                  \/ ret = TRUE /\ state = "Paused" /\ state' = "Stopped"
      <4>1. CASE ret = FALSE
          BY <2>1, <2>3, <3>1, <4>1, NotRaised, NothingSeen DEF S!Stop, machineVars
      <4>2. CASE ret = TRUE
          BY <2>1, <2>3, <3>1, <4>2, NotRaised DEF S!Stop, machineVars
      <4> QED BY <4>1, <4>2
    <3> QED BY <1>1, <1>2, <2>1, <2>3, <3>1 DEF runner_stop, S!Stop
  <2> QED BY <2>2, <2>3 DEF stop_auto
<1> QED BY <1>3, <1>4, <1>5

\* Manual moves, the emergency stop and the acknowledgement of a contact.
LEMMA OtherCommandPromised ==
    ASSUME RefInv, NEW ret \in BOOLEAN
    PROVE  /\ StartPointMove(ret) => S!StartPointMove(ret)
           /\ StopPointMove(ret) => S!StopPointMove(ret)
           /\ EmergencyStopAllMove(ret) => S!EmergencyStop(ret)
           /\ Setting_ClearWarning(ret) => S!ClearWarning(ret)
<1>0. touch \in [enabled : BOOLEAN, warning : BOOLEAN]
    BY DEF RefInv, TypeOK, SharedTypeOK
<1>1. Ignored(ret) => ret = FALSE /\ S!Nothing
    BY NotRaised, NothingSeen DEF Ignored, motionVars, machineVars, runnerVars
<1>2. ASSUME NEW value, Answer(ret, value), UNCHANGED <<machineVars, touch>>
      PROVE  ret = value /\ S!Nothing
    BY <1>2, NotRaised, NothingSeen DEF Answer, machineVars, runnerVars
<1>3. StartPointMove(ret) => S!StartPointMove(ret)
  <2>1. CASE Ignored(ret)
      BY <1>1, <2>1 DEF S!StartPointMove
  <2>2. ASSUME Operational, NEW target \in Pos, NEW detect \in BOOLEAN,
               start_manual_pointmove(ret, target),
               touch' = IF ret THEN SetDetectEnable(touch, detect) ELSE touch
        PROVE  S!StartPointMove(ret)
    <3>0. touch'.warning = touch.warning
        BY <1>0, <2>2 DEF SetDetectEnable
    <3>1. CASE main_mode = "Idle" /\ ret = PmStart(pm, cmd_axis, target).ok
                 /\ main_mode' = (IF ret THEN "Manual" ELSE main_mode)
                 /\ signals' = (IF ret THEN {"ManualPointMoveStarted"} ELSE {})
                 /\ UNCHANGED state
      <4>1. Raised' = FALSE
          BY <3>1, NotRaised
      <4> QED BY <2>2, <3>0, <3>1, <4>1 DEF S!StartPointMove, S!Nothing
    <3>2. CASE main_mode = "Manual" /\ Answer(ret, FALSE) /\ UNCHANGED machineVars
        BY <1>2, <2>2, <3>2 DEF S!StartPointMove, Answer
    <3>3. CASE main_mode = "Auto" /\ runner_start_manual_pointmove(ret, target)
                 /\ UNCHANGED machineVars
      <4>1. CASE Answer(ret, FALSE)
          BY <1>2, <2>2, <3>3, <4>1 DEF S!StartPointMove, Answer
      <4>2. CASE /\ ManualAllowed /\ UNCHANGED runnerVars
                 /\ signals' = IF ret THEN {"ManualPointMoveStarted"} ELSE {}
        <5>1. Raised' = FALSE
            BY <4>2, NotRaised
        <5> QED BY <2>2, <3>0, <3>3, <4>2, <5>1
                DEF S!StartPointMove, S!Nothing, ManualAllowed, runnerVars, machineVars
      <4> QED BY <3>3, <4>1, <4>2 DEF runner_start_manual_pointmove
    <3> QED BY <2>2, <3>1, <3>2, <3>3 DEF start_manual_pointmove, runnerVars
  <2> QED BY <2>1, <2>2 DEF StartPointMove
<1>4. StopPointMove(ret) => S!StopPointMove(ret)
  <2>1. CASE Ignored(ret)
      BY <1>1, <2>1 DEF S!StopPointMove
  <2>2. ASSUME Operational, NEW immediate \in BOOLEAN,
               stop_manual_pointmove(ret, immediate), UNCHANGED touch
        PROVE  S!StopPointMove(ret)
    <3>1. UNCHANGED <<main_mode, state>> /\ signals' = {}
        BY <2>2 DEF stop_manual_pointmove, Answer, runner_stop_manual_pointmove,
                    machineVars, runnerVars
    <3>2. S!Nothing
        BY <2>2, <3>1, NotRaised, NothingSeen
    <3>3. ret => main_mode = "Manual" \/ (main_mode = "Auto" /\ state = "Paused")
        BY <2>2 DEF stop_manual_pointmove, Answer, runner_stop_manual_pointmove,
                    ManualAllowed
    <3> QED BY <2>2, <3>2, <3>3 DEF S!StopPointMove
  <2> QED BY <2>1, <2>2 DEF StopPointMove
<1>5. EmergencyStopAllMove(ret) => S!EmergencyStop(ret)
    BY NotRaised DEF EmergencyStopAllMove, reset_and_enable, runner_reset, S!EmergencyStop,
                     S!Reset
<1>6. Setting_ClearWarning(ret) => S!ClearWarning(ret)
    BY <1>0, NotRaised DEF Setting_ClearWarning, ClearWarning, machineVars, runnerVars,
                           S!ClearWarning
<1> QED BY <1>3, <1>4, <1>5, <1>6

----------------------------------------------------------------------------
(* The control cycle.                                                      *)

\* A cycle latches a contact or leaves the warning as it is.
WarningKept == touch'.warning \in {touch.warning, TRUE}

\* A latched warning is not taken back, and enabling keeps it.
LEMMA TouchKeepsWarning ==
    ASSUME NEW t \in [enabled : BOOLEAN, warning : BOOLEAN], NEW b \in BOOLEAN,
           NEW contact \in BOOLEAN
    PROVE  /\ SetDetectEnable(t, b) \in [enabled : BOOLEAN, warning : BOOLEAN]
           /\ SetDetectEnable(t, b).warning = t.warning
           /\ TouchAfter(t, contact) \in [enabled : BOOLEAN, warning : BOOLEAN]
           /\ TouchAfter(t, contact).warning \in {t.warning, TRUE}
BY DEF SetDetectEnable, TouchAfter

\* A task does not take the warning back.
LEMMA TaskKeepsWarning ==
    ASSUME RunnerOK, task \in RealTasks, TaskRunOnce
    PROVE  WarningKept
<1>0. touch \in [enabled : BOOLEAN, warning : BOOLEAN]
    BY DEF RunnerOK, TouchTypeOK
<1>1. CASE task.kind = "G00" /\ G00RunOnce
  <2>1. task.detect \in BOOLEAN
      BY <1>1, RealTaskKinds DEF G00Tasks
  <2>2. PICK contact \in BOOLEAN, over \in BOOLEAN :
          LET seen == TouchAfter(SetDetectEnable(touch, task.detect), contact)
          IN  touch' = IF over THEN SetDetectEnable(seen, FALSE) ELSE seen
      BY <1>1 DEF G00RunOnce
  <2> QED BY <1>0, <2>1, <2>2, TouchKeepsWarning DEF WarningKept
<1>2. CASE UNCHANGED touch
    BY <1>2 DEF WarningKept
<1> QED BY <1>1, <1>2 DEF TaskRunOnce, G01RunOnce, GroupRunOnce, G04RunOnce

\* Neither does a move in a pause or the way back.
LEMMA PmcKeepsWarning ==
    ASSUME RunnerOK, pmc_run_once
    PROVE  WarningKept
<1>0. touch \in [enabled : BOOLEAN, warning : BOOLEAN]
    BY DEF RunnerOK, TouchTypeOK
<1>1. CASE pmc_manual_pointmoving
    BY <1>0, <1>1, TouchKeepsWarning DEF pmc_manual_pointmoving, WarningKept
<1>2. CASE UNCHANGED touch
    BY <1>2 DEF WarningKept
<1> QED BY <1>1, <1>2 DEF pmc_run_once, pmc_recovering, pmc_recovering_pausing,
                          pmc_outside_stopping

\* A cycle in Auto is a step of the service.
LEMMA AutoCyclePromised ==
    ASSUME RefInv, main_mode = "Auto", mainmode_auto
    PROVE  S!Run
<1>0. /\ task \in RealTasks /\ RunnerOK /\ state \in AutoState
      /\ Recovery => state \in {"NormalMoving", "Pausing", "Paused", "Stopping"}
      /\ Recovery => TaskStateOf(task) = "Paused"
    BY RunnerTask, TypeOKParts
       DEF RefInv, AutoHasTask, TypeOK, RunnerTypeOK, ModeInv, ModeMatchesRunner,
           ResumeFindsPausedTask
<1>1. SUFFICES ASSUME runner_run_once
               PROVE  /\ WarningKept
                      /\ state' \in S!AutoStep(state)
                      /\ Raised' = S!Reports(state, state')
    BY DEF mainmode_auto, S!Run, WarningKept
<1>2. CASE Recovery /\ recovery_run_once
  <2>0. "AutoPaused" \notin pmc_raised /\ "AutoResumed" \notin pmc_raised
          /\ "AutoStopped" \notin pmc_raised
      BY DEF pmc_raised
  <2>1. CASE state = "NormalMoving" /\ recovery_normal_moving
    <3>1. \A r \in TaskResume(task) : r.ok = TRUE
        BY <1>0, <1>2, PausedTaskResumes
    <3>2. CASE pmc_state' = "OutSideOrErrorStopped"
        BY <1>0, <2>0, <2>1, <3>2, PmcKeepsWarning
           DEF recovery_normal_moving, S!AutoStep, S!Reports, Raised
    <3>3. CASE pmc_state' = "RecorverOver"
        BY <1>0, <2>0, <2>1, <3>1, <3>3, PmcKeepsWarning
           DEF recovery_normal_moving, S!AutoStep, S!Reports, Raised
    <3>4. CASE pmc_state' \notin {"OutSideOrErrorStopped", "RecorverOver"}
        BY <1>0, <2>0, <2>1, <3>4, PmcKeepsWarning
           DEF recovery_normal_moving, S!AutoStep, S!Reports, Raised, runnerVars
    <3> QED BY <3>2, <3>3, <3>4
  <2>2. CASE state = "Pausing" /\ recovery_pausing
      BY <1>0, <2>0, <2>2, PmcKeepsWarning
         DEF recovery_pausing, S!AutoStep, S!Reports, Raised
  <2>3. CASE state = "Stopping" /\ recovery_stopping
      BY <1>0, <2>0, <2>3, PmcKeepsWarning
         DEF recovery_stopping, S!AutoStep, S!Reports, Raised
  <2>4. CASE state = "Paused" /\ signals' = {} /\ UNCHANGED <<runnerVars, touch>>
      BY <2>4 DEF S!AutoStep, S!Reports, Raised, runnerVars, WarningKept
  <2> QED BY <1>0, <1>2, <2>1, <2>2, <2>3, <2>4 DEF recovery_run_once
<1>3. CASE state = "NormalMoving" /\ runner_normal_moving
  <2>1. state' \in {"NormalMoving", "Pausing", "Stopping"} /\ signals' = {}
      BY <1>3 DEF runner_normal_moving
  <2> QED BY <1>0, <1>3, <2>1, TaskKeepsWarning
          DEF runner_normal_moving, S!AutoStep, S!Reports, Raised
<1>4. CASE state = "Pausing" /\ runner_pausing
  <2>1. \/ state' = "Paused" /\ signals' = {"AutoPaused"}
        \/ state' \in {"Pausing", "Resuming", "Stopping"} /\ signals' = {}
      BY <1>4 DEF runner_pausing
  <2> QED BY <1>0, <1>4, <2>1, TaskKeepsWarning
          DEF runner_pausing, S!AutoStep, S!Reports, Raised
<1>5. CASE state = "Paused" /\ runner_paused
  <2>1. state' = "Paused" /\ signals' \in {{}, {"ManualPointMoveStopped"}}
      BY <1>5 DEF runner_paused, runnerVars, pmc_raised
  <2> QED BY <1>0, <1>5, <2>1, PmcKeepsWarning, NotRaised
          DEF runner_paused, S!AutoStep, S!Reports
<1>6. CASE state = "Resuming" /\ runner_resuming
  <2>1. \/ state' \in {"NormalMoving", "Stopping"} /\ signals' = {"AutoResumed"}
        \/ state' \in {"Resuming", "Pausing"} /\ signals' = {}
      BY <1>6 DEF runner_resuming
  <2> QED BY <1>0, <1>6, <2>1, TaskKeepsWarning
          DEF runner_resuming, S!AutoStep, S!Reports, Raised
<1>7. CASE state = "Stopping" /\ runner_stopping
  <2>1. \/ state' = "Stopped" /\ signals' = {"AutoStopped"}
        \/ state' = "Stopping" /\ signals' = {}
      BY <1>7 DEF runner_stopping
  <2> QED BY <1>0, <1>7, <2>1, TaskKeepsWarning
          DEF runner_stopping, S!AutoStep, S!Reports, Raised
<1>8. CASE state = "Stopped" /\ signals' = {} /\ UNCHANGED <<runnerVars, touch>>
    BY <1>8 DEF S!AutoStep, S!Reports, Raised, runnerVars, WarningKept
<1> QED BY <1>0, <1>1, <1>2, <1>3, <1>4, <1>5, <1>6, <1>7, <1>8, RealTaskIsTask
        DEF runner_run_once

\* A cycle of an enabled machine is a step of the service.
LEMMA RunPromised ==
    ASSUME RefInv, enabled, run_once
    PROVE  S!Run
<1>0. touch \in [enabled : BOOLEAN, warning : BOOLEAN]
    BY DEF RefInv, TypeOK, SharedTypeOK
<1>1. CASE main_mode = "Idle" /\ mainmode_idle
    BY <1>0, <1>1, NotRaised, TouchKeepsWarning
       DEF mainmode_idle, machineVars, runnerVars, S!Run
<1>2. CASE main_mode = "Manual" /\ mainmode_manual
  <2>1. WarningKept
    <3>1. UNCHANGED touch \/ \E contact \in BOOLEAN : touch' = TouchAfter(touch, contact)
        BY <1>2 DEF mainmode_manual
    <3> QED BY <1>0, <3>1, TouchKeepsWarning DEF WarningKept
  <2>2. /\ main_mode' \in {"Manual", "Idle"}
        /\ signals' \in {{}, {"ManualPointMoveStopped"}} /\ UNCHANGED state
      BY <1>2 DEF mainmode_manual, runnerVars
  <2> QED BY <1>2, <2>1, <2>2, NotRaised DEF S!Run, WarningKept
<1>3. CASE main_mode = "Auto" /\ mainmode_auto
    BY <1>3, AutoCyclePromised
<1> QED BY <1>1, <1>2, <1>3 DEF run_once

----------------------------------------------------------------------------
(* The invariant of the mapping.                                           *)

\* A step keeps a task in Auto.
LEMMA AutoHasTaskStep == RefInv /\ [Next]_vars => AutoHasTask'
<1> SUFFICES ASSUME RefInv, [Next]_vars PROVE AutoHasTask'
    OBVIOUS
<1>0. main_mode = "Auto" => task # NoTask
    BY DEF RefInv, AutoHasTask
<1>1. CASE UNCHANGED motionVars
    BY <1>0, <1>1 DEF motionVars, machineVars, runnerVars, AutoHasTask
<1>2. CASE \E enable \in BOOLEAN : reset_and_enable(enable)
    BY <1>2 DEF reset_and_enable, AutoHasTask
<1>3. CASE run_once
  <2>1. CASE main_mode = "Auto" /\ mainmode_auto
      BY <2>1, AutoCycleKeepsTask DEF AutoHasTask
  <2>2. CASE main_mode # "Auto"
      BY <1>3, <2>2 DEF run_once, mainmode_idle, mainmode_manual, machineVars, AutoHasTask
  <2>3. CASE UNCHANGED <<machineVars, runnerVars>>
      BY <1>0, <2>3 DEF machineVars, runnerVars, AutoHasTask
  <2> QED BY <1>3, <2>1, <2>2, <2>3 DEF run_once
<1>4. ASSUME NEW ret \in BOOLEAN, MotionCommand(ret) PROVE AutoHasTask'
  <2>1. CASE StartPointMove(ret) \/ StopPointMove(ret) \/ Setting_ClearWarning(ret)
    <3>1. UNCHANGED task /\ (main_mode' = "Auto" => main_mode = "Auto")
        BY <2>1 DEF StartPointMove, StopPointMove, Setting_ClearWarning, Ignored, motionVars,
                    start_manual_pointmove, stop_manual_pointmove, Answer, machineVars,
                    runnerVars, runner_start_manual_pointmove, runner_stop_manual_pointmove
    <3> QED BY <1>0, <3>1 DEF AutoHasTask
  <2>2. CASE StartG00FastMove(ret) \/ StartG01ServoMove(ret) \/ G04Delay(ret)
               \/ M00FakePauseTask(ret) \/ G01Group(ret)
    <3>1. CASE UNCHANGED <<machineVars, runnerVars>>
        BY <1>0, <3>1 DEF machineVars, runnerVars, AutoHasTask
    <3>2. ASSUME NEW t \in RealTasks, start_auto(ret, t) PROVE AutoHasTask'
        BY <3>1, <3>2, RealTaskIsTask DEF start_auto, Answer, runner_restart_task, AutoHasTask
    <3> QED BY <2>2, <3>1, <3>2, StartedTask DEF RefInv
  <2>3. CASE Auto_Stop(ret) \/ Auto_Pause(ret) \/ Auto_Resume(ret)
    <3>1. UNCHANGED main_mode
        BY <2>3 DEF Auto_Stop, Auto_Pause, Auto_Resume, stop_auto, pause_auto, resume_auto,
                    machineVars
    <3>2. main_mode = "Auto" => task \in RealTasks
        BY <1>0, RunnerTask DEF RefInv, TypeOK
    <3>3. ASSUME main_mode = "Auto" PROVE task' # NoTask
      <4>1. \A r \in TaskPause(task) : r.task \in RealTasks
          BY <3>2, <3>3, TaskPauseType DEF TaskResults
      <4>2. \A immediate \in BOOLEAN : \A r \in TaskStop(task, immediate) : r.task \in RealTasks
          BY <3>2, <3>3, TaskStopType DEF TaskResults
      <4>3. CASE UNCHANGED task
          BY <1>0, <3>3, <4>3
      <4>4. ASSUME NEW t \in RealTasks, task' = t PROVE task' # NoTask
          BY <4>4, RealTaskIsTask
      <4>5. CASE Auto_Stop(ret)
          BY <3>3, <4>2, <4>3, <4>4, <4>5 DEF Auto_Stop, stop_auto, runner_stop, Answer, runnerVars
      <4>6. CASE Auto_Pause(ret)
          BY <3>3, <4>1, <4>3, <4>4, <4>6 DEF Auto_Pause, pause_auto, runner_pause, Answer, runnerVars
      <4>7. CASE Auto_Resume(ret)
          BY <3>3, <4>3, <4>7 DEF Auto_Resume, resume_auto, runner_resume, Answer, runnerVars
      <4> QED BY <2>3, <4>5, <4>6, <4>7
    <3> QED BY <3>1, <3>3 DEF AutoHasTask
  <2>4. CASE EmergencyStopAllMove(ret)
      BY <1>2, <2>4 DEF EmergencyStopAllMove
  <2> QED BY <1>4, <2>1, <2>2, <2>3, <2>4 DEF MotionCommand
<1>5. CASE thread_cycle_work
  <2>1. CASE threadstate_running
      BY <1>1, <1>2, <1>3, <2>1
         DEF threadstate_running, LinkDown, LinkWaitingForOP, LinkNotAllEnabled,
             LinkEnabling, LinkReady, LinkStep, LoseLink, ecat_state_switch_to_ready
  <2> QED BY <1>1, <1>5, <2>1 DEF thread_cycle_work
<1>6. CASE fetch_command_and_handle
    BY <1>1, <1>4, <1>6 DEF fetch_command_and_handle, Setting_TriggerEcatConnect, NoCommand
<1>7. CASE RequestStop \/ UNCHANGED vars
    BY <1>1, <1>7 DEF RequestStop, vars
<1> QED BY <1>5, <1>6, <1>7 DEF Next, Cycle

\* The thread never goes back to Init.
LEMMA NotReadyAtFirstStep == NotReadyAtFirst /\ [Next]_vars => NotReadyAtFirst'
<1> SUFFICES ASSUME NotReadyAtFirst, [Next]_vars PROVE NotReadyAtFirst'
    OBVIOUS
<1>1. CASE thread_cycle_work
    BY <1>1 DEF thread_cycle_work, NotReadyAtFirst
<1>2. CASE fetch_command_and_handle
    BY <1>2 DEF fetch_command_and_handle, Setting_TriggerEcatConnect, NoCommand, linkVars,
                NotReadyAtFirst, Ready
<1>3. CASE RequestStop \/ UNCHANGED vars
    BY <1>3 DEF RequestStop, vars, threadVars, linkVars, NotReadyAtFirst, Ready
<1> QED BY <1>1, <1>2, <1>3 DEF Next, Cycle

\* What the mapping of a step relies on always holds.
LEMMA RefInvAlways == Spec => []RefInv
<1>1. Init => ControlInv
    BY DEF Init, MachineInit, ControlInv, ModeInv, ModeMatchesRunner, ResumeFindsPausedTask,
           Recovery, EnabledWhenReady, Ready, AutoHasTask, NotReadyAtFirst
<1>2. TypeOK /\ ControlInv <=> RefInv
    BY DEF RefInv, ControlInv
<1>3. TypeOK /\ ControlInv /\ [Next]_vars => ControlInv'
  <2> SUFFICES ASSUME RefInv, [Next]_vars PROVE ControlInv'
      BY <1>2
  <2>1. ModeInv' /\ EnabledWhenReady' /\ NotReadyAtFirst'
      BY ModeInvStep, EnabledStep, NotReadyAtFirstStep DEF RefInv
  <2> QED BY <2>1, AutoHasTaskStep DEF ControlInv
<1> QED BY <1>1, <1>2, <1>3, TypeCorrect, PTL DEF Spec

----------------------------------------------------------------------------
(* The refinement.                                                         *)

\* A step of the thread's work is a cycle of the service.
LEMMA WorkPromised ==
    ASSUME RefInv, thread_cycle_work
    PROVE  S!Cycle
<1>0. Operational' \in BOOLEAN
    BY DEF Operational
<1>1. ASSUME signals' = {}, UNCHANGED motionVars, Operational = FALSE, Operational' = FALSE
      PROVE  S!Cycle
  <2>1. Raised' = FALSE /\ UNCHANGED <<main_mode, state, touch>>
      BY <1>1, NotRaised DEF motionVars, machineVars, runnerVars
  <2> QED BY <1>1, <2>1 DEF S!Cycle
<1>2. ASSUME NEW enable, reset_and_enable(enable), signals' = {}, UNCHANGED touch
      PROVE  S!LinkChange
  <2>1. Raised' = FALSE
      BY <1>2, NotRaised
  <2> QED BY <1>2, <2>1 DEF S!LinkChange, S!Reset, reset_and_enable, runner_reset
<1>3. CASE thread_state = "Running" /\ Ready
  <2>1. Operational
      BY <1>3 DEF Operational
  <2>2. LinkReady
      BY <1>3 DEF thread_cycle_work, threadstate_running, LinkDown, Ready
  <2>3. CASE LoseLink(connect_flag, FALSE)
    <3>1. Operational' = FALSE
        BY <2>3 DEF LoseLink, Operational, Ready
    <3> QED BY <1>2, <2>1, <2>3, <3>1 DEF LoseLink, S!Cycle
  <2>4. CASE run_once
    <3>1. enabled
        BY <1>3 DEF RefInv, EnabledWhenReady
    <3> QED BY <1>0, <2>1, <2>4, <3>1, RunPromised DEF S!Cycle
  <2> QED BY <2>2, <2>3, <2>4 DEF LinkReady
<1>4. CASE thread_state = "Running" /\ ~Ready
  <2>1. Operational = FALSE
      BY <1>4 DEF Operational
  <2>2. ASSUME NEW new \in EcatState \ {"EcatReady"}, NEW c, NEW r, LinkStep(new, c, r)
        PROVE  S!Cycle
    <3>1. Operational' = FALSE
        BY <2>2 DEF LinkStep, Operational, Ready
    <3> QED BY <1>1, <2>1, <2>2, <3>1 DEF LinkStep
  <2>3. ASSUME NEW enable, reset_and_enable(enable), signals' = {}, UNCHANGED touch
        PROVE  S!Cycle
      BY <1>0, <1>2, <2>1, <2>3 DEF S!Cycle
  <2>4. threadstate_running
      BY <1>4 DEF thread_cycle_work
  <2>5. ecat_state \in EcatState \ {"EcatReady"}
      BY <1>4 DEF Ready, RefInv, TypeOK, ThreadTypeOK
  <2>6. CASE LinkDown \/ LinkWaitingForOP
      BY <2>2, <2>5, <2>6 DEF LinkDown, LinkWaitingForOP, EcatState
  <2>7. CASE LinkNotAllEnabled \/ LinkEnabling
      BY <2>2, <2>3, <2>5, <2>7
         DEF LinkNotAllEnabled, LinkEnabling, LoseLink, ecat_state_switch_to_ready, EcatState
  <2> QED BY <1>4, <2>4, <2>6, <2>7 DEF threadstate_running
<1>5. CASE thread_state # "Running"
  <2>1. Operational = FALSE /\ Operational' = FALSE
      BY <1>5 DEF thread_cycle_work, Operational, RefInv, NotReadyAtFirst, Ready, linkVars
  <2> QED BY <1>1, <1>5, <2>1 DEF thread_cycle_work
<1> QED BY <1>3, <1>4, <1>5

\* A command the thread handles is a command of the service.
LEMMA CommandPromised ==
    ASSUME RefInv, fetch_command_and_handle
    PROVE  S!ServiceNext
<1>1. CASE UNCHANGED linkVars /\ \E ret \in BOOLEAN : MotionCommand(ret)
  <2>1. PICK ret \in BOOLEAN : MotionCommand(ret)
      BY <1>1
  <2>2. UNCHANGED Operational
      BY <1>1 DEF fetch_command_and_handle, linkVars, Operational, Ready
  <2>3. S!Command(ret)
      BY <2>1, StartPromised, AutoCallPromised, OtherCommandPromised
         DEF MotionCommand, S!Command
  <2> QED BY <2>2, <2>3 DEF S!ServiceNext
<1>2. CASE Setting_TriggerEcatConnect \/ NoCommand
  <2>1. UNCHANGED Operational
      BY <1>2 DEF fetch_command_and_handle, Setting_TriggerEcatConnect, NoCommand, linkVars,
                  Operational, Ready
  <2>2. S!Nothing
      BY <1>2, NotRaised, NothingSeen
         DEF Setting_TriggerEcatConnect, NoCommand, motionVars, machineVars, runnerVars
  <2> QED BY <2>1, <2>2 DEF S!ServiceNext, S!OtherCommand
<1> QED BY <1>1, <1>2 DEF fetch_command_and_handle

\* The motion thread implements the service: a client that knows only the
\* main mode, the auto state, the warning and the signals can rely on the
\* service's states and answers, whatever tasks and moves run inside, for
\* every travel, step, number of records and set of commands.
THEOREM ThreadImplementsService == Spec => ImplementsService
<1>1. Init => S!ServiceInit
  <2>1. Init => Raised = FALSE
      BY DEF Init, MachineInit, SharedInit, Raised
  <2> QED BY <2>1 DEF Init, MachineInit, SharedInit, S!ServiceInit, Operational, Ready
<1>2. RefInv /\ [Next]_vars => [S!ServiceNext]_(S!serviceVars)
  <2> SUFFICES ASSUME RefInv, [Next]_vars PROVE [S!ServiceNext]_(S!serviceVars)
      OBVIOUS
  <2>1. CASE thread_cycle_work
      BY <2>1, WorkPromised DEF S!ServiceNext
  <2>2. CASE fetch_command_and_handle
      BY <2>2, CommandPromised
  <2>3. CASE RequestStop \/ UNCHANGED vars
    <3>1. UNCHANGED <<main_mode, state, touch, ecat_state, thread_state, signals>>
        BY <2>3 DEF RequestStop, vars, threadVars, linkVars, motionVars, machineVars, runnerVars
    <3> QED BY <3>1 DEF S!serviceVars, Operational, Ready, Raised
  <2> QED BY <2>1, <2>2, <2>3 DEF Next, Cycle
<1> QED BY <1>1, <1>2, RefInvAlways, PTL DEF Spec, ImplementsService, S!ServiceSpec

\* Every command is answered as the service promises.
THEOREM EveryAnswerAsPromised == Spec => CommandsAsPromised
<1>1. RefInv => \A ret \in BOOLEAN :
           /\ StartG00FastMove(ret) => S!Start("G00", ret)
           /\ StartG01ServoMove(ret) => S!Start("G01", ret)
           /\ G04Delay(ret) => S!Start("G04", ret)
           /\ M00FakePauseTask(ret) => S!Start("M00", ret)
           /\ G01Group(ret) => S!Start("G01Group", ret)
           /\ Auto_Pause(ret) => S!Pause(ret)
           /\ Auto_Resume(ret) => S!Resume(ret)
           /\ Auto_Stop(ret) => S!Stop(ret)
           /\ EmergencyStopAllMove(ret) => S!EmergencyStop(ret)
           /\ Setting_ClearWarning(ret) => S!ClearWarning(ret)
           /\ StartPointMove(ret) => S!StartPointMove(ret)
           /\ StopPointMove(ret) => S!StopPointMove(ret)
    BY StartPromised, AutoCallPromised, OtherCommandPromised
<1> QED BY <1>1, RefInvAlways, PTL DEF CommandsAsPromised

=============================================================================

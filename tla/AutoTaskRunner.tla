--------------------------- MODULE AutoTaskRunner ---------------------------
(***************************************************************************)
(* AutoTaskRunner drives the current task through running, pausing,        *)
(* resuming and stopping.  Who moves the axis is told by domin: the task   *)
(* itself (AutoTaskRunning) or the pause-move controller on its way back   *)
(* to the point of the pause (PauseMoveRecoverRunning).                    *)
(*                                                                         *)
(* Operators runner_x model AutoTaskRunner::x; one that answers takes the  *)
(* answer as its first argument.  Each gives the signals it raises.        *)
(***************************************************************************)
EXTENDS PauseMoveController, AutoTasks

VARIABLES state,  \* state_, a MotionAutoState
          domin   \* domin_state_

runnerVars == <<task, state, domin>>

AutoState == {"NormalMoving", "Pausing", "Paused", "Resuming", "Stopping",
              "Stopped"}

RunnerTypeOK ==
    /\ task \in Tasks
    /\ state \in AutoState
    /\ domin \in {"AutoTaskRunning", "PauseMoveRecoverRunning"}

Recovery == domin = "PauseMoveRecoverRunning"

----------------------------------------------------------------------------
runner_reset ==
    /\ task' = NoTask
    /\ state' = "Stopped"
    /\ pmc_init
    /\ UNCHANGED domin

\* Mutant: domin survives from a task that was reset on its way back.
runner_restart_task_KeepsDomin(t) ==
    /\ task' = t
    /\ state' = "NormalMoving"
    /\ UNCHANGED <<domin, pmcVars>>

\* The new task replaces the old one even if that one is not over.
runner_restart_task(t) ==
    /\ task' = t
    /\ state' = "NormalMoving"
    /\ domin' = "AutoTaskRunning"
    /\ UNCHANGED pmcVars

\* A request that changes nothing.
Answer(ret, value) ==
    /\ ret = value
    /\ signals' = {}
    /\ UNCHANGED <<runnerVars, pmcVars>>

runner_pause(ret) ==
    \/ task = NoTask /\ Answer(ret, FALSE)
    \/ task # NoTask /\ state \in {"Pausing", "Paused"} /\ Answer(ret, TRUE)
    \/ task # NoTask /\ state \in {"Stopping", "Stopped"} /\ Answer(ret, FALSE)
    \/ task # NoTask /\ Recovery /\ state = "Resuming" /\ Answer(ret, FALSE)
    \/ /\ task # NoTask /\ Recovery /\ state = "NormalMoving"
       /\ pmc_pause_recover(ret)
       /\ state' = IF ret THEN "Pausing" ELSE state
       /\ signals' = {}
       /\ UNCHANGED <<task, domin>>
    \/ /\ task # NoTask /\ ~Recovery /\ state \in {"NormalMoving", "Resuming"}
       /\ \E r \in TaskPause(task) : ret = r.ok /\ task' = r.task
       /\ state' = IF ret THEN "Pausing" ELSE state
       /\ signals' = {}
       /\ UNCHANGED <<domin, pmcVars>>

\* From a pause of the task the way back is started first; AutoResumed is
\* raised now and once more when the task itself runs again.
runner_resume(ret) ==
    \/ task = NoTask /\ Answer(ret, FALSE)
    \/ task # NoTask /\ Recovery /\ state = "NormalMoving" /\ Answer(ret, TRUE)
    \/ task # NoTask /\ ~Recovery /\ state = "Resuming" /\ Answer(ret, TRUE)
    \/ /\ task # NoTask
       /\ \/ state \in {"Pausing", "Stopping", "Stopped"}
          \/ Recovery /\ state = "Resuming"
          \/ ~Recovery /\ state = "NormalMoving"
       /\ Answer(ret, FALSE)
    \/ /\ task # NoTask /\ state = "Paused"
       /\ IF Recovery THEN pmc_resume_recover(ret) ELSE pmc_activate_recover(ret)
       /\ state' = IF ret THEN "NormalMoving" ELSE state
       /\ domin' = IF ret THEN "PauseMoveRecoverRunning" ELSE domin
       /\ signals' = IF ret THEN {"AutoResumed"} ELSE {}
       /\ UNCHANGED task

\* Mutant: the code before 2024.04.22, a paused task is stopped as well.
runner_stop_StopsPausedTask(ret, immediate) ==
    /\ task # NoTask /\ ~Recovery
    /\ \E r \in TaskStop(task, immediate) : ret = r.ok /\ task' = r.task
    /\ state' = IF ret THEN "Stopping" ELSE state
    /\ signals' = {}
    /\ UNCHANGED <<domin, pmcVars>>

\* A paused task is dropped where the axis stands: stopping the task instead
\* would make the position jump back to the task's own.
runner_stop(ret, immediate) ==
    \/ task = NoTask /\ Answer(ret, FALSE)
    \/ task # NoTask /\ state = "Stopping" /\ Answer(ret, TRUE)
    \/ task # NoTask /\ ~Recovery /\ state = "Stopped" /\ Answer(ret, TRUE)
    \/ /\ task # NoTask /\ Recovery /\ state \in {"Resuming", "Stopped"}
       /\ Answer(ret, FALSE)
    \/ /\ task # NoTask /\ Recovery /\ state \in {"NormalMoving", "Pausing", "Paused"}
       /\ pmc_stop(ret, immediate)
       /\ state' = IF ret THEN "Stopping" ELSE state
       /\ signals' = {}
       /\ UNCHANGED <<task, domin>>
    \/ /\ task # NoTask /\ ~Recovery
       /\ state \in {"NormalMoving", "Resuming", "Pausing"}
       /\ \E r \in TaskStop(task, immediate) : ret = r.ok /\ task' = r.task
       /\ state' = IF ret THEN "Stopping" ELSE state
       /\ signals' = {}
       /\ UNCHANGED <<domin, pmcVars>>
    \/ /\ task # NoTask /\ ~Recovery /\ state = "Paused"
       /\ ret = TRUE
       /\ state' = "Stopped"
       /\ signals' = {}
       /\ UNCHANGED <<task, domin, pmcVars>>

\* Manual moves are allowed only in a pause of the task.
ManualAllowed == state = "Paused" /\ ~Recovery

runner_start_manual_pointmove(ret, target) ==
    \/ ~ManualAllowed /\ Answer(ret, FALSE)
    \/ /\ ManualAllowed
       /\ pmc_start_manual_pointmove(ret, target)
       /\ signals' = IF ret THEN {"ManualPointMoveStarted"} ELSE {}
       /\ UNCHANGED runnerVars

runner_stop_manual_pointmove(ret, immediate) ==
    \/ ~ManualAllowed /\ Answer(ret, FALSE)
    \/ /\ ManualAllowed
       /\ pmc_stop_manual_pointmove(ret, immediate)
       /\ signals' = {}
       /\ UNCHANGED runnerVars

----------------------------------------------------------------------------
(* run_once while the task dominates.  The task runs first, its new state   *)
(* decides.                                                                 *)

Now == TaskStateOf(task')

runner_normal_moving ==
    /\ TaskRunOnce
    /\ state' = CASE Now \in {"Pausing", "Paused"} -> "Pausing"
                  [] Now \in {"Stopping", "Stopped"} -> "Stopping"
                  [] OTHER -> state
    /\ signals' = {}
    /\ UNCHANGED <<domin, pmcVars>>

\* Entering Paused initialises the pause-move controller.
runner_pausing ==
    /\ TaskRunOnce
    /\ state' = CASE Now = "Paused" -> "Paused"
                  [] Now \in {"Stopping", "Stopped"} -> "Stopping"
                  [] Now = "NormalRunning" -> "Resuming"
                  [] OTHER -> state
    /\ signals' = IF Now = "Paused" THEN {"AutoPaused"} ELSE {}
    /\ IF Now = "Paused" THEN pmc_init ELSE UNCHANGED pmcVars
    /\ UNCHANGED domin

runner_paused ==
    /\ pmc_run_once
    /\ signals' = pmc_raised
    /\ UNCHANGED <<runnerVars, power>>

\* Mutant: AutoResumed is not raised a second time.
runner_resuming_Silent ==
    /\ TaskRunOnce
    /\ state' = CASE Now = "NormalRunning" -> "NormalMoving"
                  [] Now \in {"Stopping", "Stopped"} -> "Stopping"
                  [] Now \in {"Pausing", "Paused"} -> "Pausing"
                  [] OTHER -> state
    /\ signals' = {}
    /\ UNCHANGED <<domin, pmcVars>>

runner_resuming ==
    /\ TaskRunOnce
    /\ state' = CASE Now = "NormalRunning" -> "NormalMoving"
                  [] Now \in {"Stopping", "Stopped"} -> "Stopping"
                  [] Now \in {"Pausing", "Paused"} -> "Pausing"
                  [] OTHER -> state
    /\ signals' = IF Now \in {"NormalRunning", "Stopping", "Stopped"}
                    THEN {"AutoResumed"} ELSE {}
    /\ UNCHANGED <<domin, pmcVars>>

\* Mutant: a stopping task is not run any more.
runner_stopping_NotRun ==
    /\ state' = IF TaskStateOf(task) = "Stopped" THEN "Stopped" ELSE state
    /\ signals' = {}
    /\ UNCHANGED <<task, domin, pmcVars, cmd_axis, touch, power>>

runner_stopping ==
    /\ TaskRunOnce
    /\ state' = IF Now = "Stopped" THEN "Stopped" ELSE state
    /\ signals' = IF Now = "Stopped" THEN {"AutoStopped"} ELSE {}
    /\ UNCHANGED <<domin, pmcVars>>

----------------------------------------------------------------------------
(* run_once while the pause-move controller dominates.                      *)

\* Mutant: the way back keeps dominating after it is over.
recovery_normal_moving_KeepsDomin ==
    /\ pmc_run_once
    /\ IF pmc_state' = "RecorverOver"
         THEN \E r \in TaskResume(task) : task' = r.task /\ state' = "Resuming"
         ELSE UNCHANGED <<task, state>>
    /\ signals' = pmc_raised
    /\ UNCHANGED domin

\* Back at the point of the pause the task is resumed and dominates again.
recovery_normal_moving ==
    /\ pmc_run_once
    /\ CASE pmc_state' = "OutSideOrErrorStopped" ->
              /\ state' = "Stopped"
              /\ signals' = pmc_raised \cup {"AutoStopped"}
              /\ UNCHANGED <<task, domin>>
         [] pmc_state' = "RecorverOver" ->
              \E r \in TaskResume(task) :
                /\ task' = r.task
                /\ state' = IF r.ok THEN "Resuming" ELSE state
                /\ domin' = IF r.ok THEN "AutoTaskRunning" ELSE domin
                /\ signals' = pmc_raised
         [] OTHER -> signals' = pmc_raised /\ UNCHANGED runnerVars

recovery_pausing ==
    /\ pmc_run_once
    /\ state' = IF pmc_state' = "RecoveringPaused" THEN "Paused" ELSE state
    /\ signals' = pmc_raised \cup
                    (IF pmc_state' = "RecoveringPaused" THEN {"AutoPaused"} ELSE {})
    /\ UNCHANGED <<task, domin>>

recovery_stopping ==
    /\ pmc_run_once
    /\ \/ /\ pmc_state' = "OutSideOrErrorStopped"
          /\ state' = "Stopped"
          /\ domin' = "AutoTaskRunning"
          /\ signals' = pmc_raised \cup {"AutoStopped"}
       \/ /\ pmc_state' # "OutSideOrErrorStopped"
          /\ signals' = pmc_raised
          /\ UNCHANGED <<state, domin>>
    /\ UNCHANGED task

recovery_run_once ==
    /\ \/ state = "NormalMoving" /\ recovery_normal_moving
       \/ state = "Pausing" /\ recovery_pausing
       \/ state = "Stopping" /\ recovery_stopping
       \/ /\ state \notin {"NormalMoving", "Pausing", "Stopping"}
          /\ signals' = {}
          /\ UNCHANGED <<runnerVars, pmcVars, cmd_axis, touch>>
    /\ UNCHANGED power

runner_run_once ==
    \/ task # NoTask /\ Recovery /\ recovery_run_once
    \/ task # NoTask /\ ~Recovery /\ state = "NormalMoving" /\ runner_normal_moving
    \/ task # NoTask /\ ~Recovery /\ state = "Pausing" /\ runner_pausing
    \/ task # NoTask /\ ~Recovery /\ state = "Paused" /\ runner_paused
    \/ task # NoTask /\ ~Recovery /\ state = "Resuming" /\ runner_resuming
    \/ task # NoTask /\ ~Recovery /\ state = "Stopping" /\ runner_stopping
    \/ /\ task = NoTask \/ (~Recovery /\ state = "Stopped")
       /\ signals' = {}
       /\ UNCHANGED <<runnerVars, pmcVars, cmd_axis, touch, power>>

=============================================================================

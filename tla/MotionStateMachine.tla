------------------------ MODULE MotionStateMachine ------------------------
(***************************************************************************)
(* MotionStateMachine: the three main modes of the motion thread.  In Idle *)
(* nothing moves, in Manual the machine's own point move runs, in Auto the *)
(* task runner does.                                                       *)
(*                                                                         *)
(* The operators are the methods of the class; the motion thread calls     *)
(* them (module MotionThread).  A method that answers takes the answer as  *)
(* its first argument.  cmd_axis, touch and power are left to the caller   *)
(* by the methods that do not mention them.                                *)
(***************************************************************************)
EXTENDS AutoTaskRunner

VARIABLES main_mode,  \* main_mode_
          enabled,    \* enabled_
          pm          \* pm_handler_, the manual move made in Idle

machineVars == <<main_mode, enabled, pm>>

MachineTypeOK ==
    /\ main_mode \in {"Idle", "Manual", "Auto"}
    /\ enabled \in BOOLEAN
    /\ pm \in PointMoves

\* The constructors: the touch detector and the machine are reset.
MachineInit ==
    /\ SharedInit
    /\ main_mode = "Idle" /\ enabled = FALSE /\ pm = IdlePm
    /\ task = NoTask /\ state = "Stopped" /\ domin = "AutoTaskRunning"
    /\ pmc_state = "AllowManualPointMove" /\ pmc_pm = IdlePm
    /\ axis_recorder = <<>>

----------------------------------------------------------------------------
\* reset() followed by set_enable(enable).  The power outputs and the touch
\* detector keep what they have.
reset_and_enable(enable) ==
    /\ enabled' = enable
    /\ main_mode' = "Idle"
    /\ pm' = PmClear
    /\ runner_reset

start_manual_pointmove(ret, target) ==
    \/ /\ main_mode = "Idle"
       /\ LET r == PmStart(pm, cmd_axis, target)
          IN  /\ ret = r.ok
              /\ pm' = r.pm
              /\ main_mode' = IF r.ok THEN "Manual" ELSE main_mode
              /\ signals' = IF r.ok THEN {"ManualPointMoveStarted"} ELSE {}
       /\ UNCHANGED <<enabled, runnerVars, pmcVars>>
    \/ /\ main_mode = "Manual"
       /\ Answer(ret, FALSE)
       /\ UNCHANGED machineVars
    \/ /\ main_mode = "Auto"
       /\ runner_start_manual_pointmove(ret, target)
       /\ UNCHANGED machineVars

stop_manual_pointmove(ret, immediate) ==
    \/ /\ main_mode = "Idle"
       /\ Answer(ret, FALSE)
       /\ UNCHANGED machineVars
    \/ /\ main_mode = "Manual"
       /\ \E r \in PmStop(pm, immediate) : ret = r.ok /\ pm' = r.pm
       /\ signals' = {}
       /\ UNCHANGED <<main_mode, enabled, runnerVars, pmcVars>>
    \/ /\ main_mode = "Auto"
       /\ runner_stop_manual_pointmove(ret, immediate)
       /\ UNCHANGED machineVars

\* start_auto_g00 ... start_auto_m00fake: a task is started only in Idle, and
\* only if it is not over from the start.
start_auto(ret, t) ==
    \/ /\ main_mode # "Idle" \/ TaskOver(t)
       /\ Answer(ret, FALSE)
       /\ UNCHANGED machineVars
    \/ /\ main_mode = "Idle" /\ ~TaskOver(t)
       /\ ret = TRUE
       /\ runner_restart_task(t)
       /\ main_mode' = "Auto"
       /\ signals' = {"AutoStarted"}
       /\ UNCHANGED <<enabled, pm>>

\* Constructing a G01 switches both outputs on.
start_auto_g01(ret, target) ==
    /\ start_auto(ret, NewG01(cmd_axis, target))
    /\ power' = IF main_mode = "Idle" THEN [gate |-> TRUE, mach |-> TRUE]
                ELSE power

\* pause_auto, resume_auto and stop_auto reach the runner only in Auto.
pause_auto(ret) ==
    /\ IF main_mode = "Auto" THEN runner_pause(ret) ELSE Answer(ret, FALSE)
    /\ UNCHANGED machineVars

resume_auto(ret) ==
    /\ IF main_mode = "Auto" THEN runner_resume(ret) ELSE Answer(ret, FALSE)
    /\ UNCHANGED machineVars

\* Mutant: the runner is asked in every mode.
stop_auto_AnyMode(ret, immediate) ==
    /\ runner_stop(ret, immediate)
    /\ UNCHANGED machineVars

stop_auto(ret, immediate) ==
    /\ IF main_mode = "Auto" THEN runner_stop(ret, immediate)
       ELSE Answer(ret, FALSE)
    /\ UNCHANGED machineVars

----------------------------------------------------------------------------
(* run_once, one operator per main mode.                                   *)

mainmode_idle ==
    /\ touch' = SetDetectEnable(touch, FALSE)
    /\ signals' = {}
    /\ UNCHANGED <<machineVars, runnerVars, pmcVars, cmd_axis, power>>

\* Mutant: only a move that reached its target ends the mode.
mainmode_manual_TargetOnly ==
    /\ IF PmOver(pm) /\ pm.curr = pm.target
         THEN main_mode' = "Idle" /\ UNCHANGED <<pm, cmd_axis>>
         ELSE /\ \E p \in PmRunOnce(pm) : pm' = p /\ cmd_axis' = p.curr
              /\ UNCHANGED main_mode
    /\ signals' = {}
    /\ UNCHANGED <<touch, enabled, runnerVars, pmcVars, power>>

\* A move that is over, or a contact, ends the mode; a contact also ends the
\* move, and the position of this cycle is not written.
mainmode_manual ==
    /\ \/ /\ PmOver(pm)
          /\ main_mode' = "Idle"
          /\ signals' = {"ManualPointMoveStopped"}
          /\ UNCHANGED <<pm, touch, cmd_axis>>
       \/ /\ ~PmOver(pm)
          /\ \E contact \in BOOLEAN :
               /\ touch' = TouchAfter(touch, contact)
               /\ IF TouchHit(touch, contact)
                    THEN /\ \E r \in PmStop(pm, TRUE) : pm' = r.pm
                         /\ main_mode' = "Idle"
                         /\ signals' = {"ManualPointMoveStopped"}
                         /\ UNCHANGED cmd_axis
                    ELSE /\ \E p \in PmRunOnce(pm) : pm' = p /\ cmd_axis' = p.curr
                         /\ signals' = {}
                         /\ UNCHANGED main_mode
    /\ UNCHANGED <<enabled, runnerVars, pmcVars, power>>

mainmode_auto ==
    /\ runner_run_once
    /\ main_mode' = IF state' = "Stopped" THEN "Idle" ELSE main_mode
    /\ UNCHANGED <<enabled, pm>>

run_once ==
    \/ enabled /\ main_mode = "Idle" /\ mainmode_idle
    \/ enabled /\ main_mode = "Manual" /\ mainmode_manual
    \/ enabled /\ main_mode = "Auto" /\ mainmode_auto
    \/ /\ ~enabled
       /\ signals' = {}
       /\ UNCHANGED <<machineVars, runnerVars, pmcVars, cmd_axis, touch, power>>

===========================================================================

---------------------------- MODULE MotionService ----------------------------
(***************************************************************************)
(* What the motion thread promises to the threads that send it commands:   *)
(* the main mode and the auto state as MotionInfo shows them, the touch    *)
(* warning, and for every command when it is accepted and what it changes. *)
(* Positions, tasks, the way back and the power outputs are left out.      *)
(* MotionThread implements this specification (module MotionRefinement);   *)
(* GCodeRunner is written against it.                                      *)
(*                                                                         *)
(* An operator for a command takes the answer as its last argument: TRUE   *)
(* for accept(), FALSE for ignore().                                       *)
(***************************************************************************)

VARIABLES mode,     \* MotionInfo::main_mode
          auto,     \* MotionInfo::auto_state
          warning,  \* MotionInfo::TouchWarning()
          up,       \* the link is ready and the thread runs
          raised    \* AutoPaused, AutoResumed or AutoStopped is raised now

serviceVars == <<mode, auto, warning, up, raised>>

ServiceTypeOK ==
    /\ mode \in {"Idle", "Manual", "Auto"}
    /\ auto \in {"NormalMoving", "Pausing", "Paused", "Resuming", "Stopping",
                 "Stopped"}
    /\ warning \in BOOLEAN
    /\ up \in BOOLEAN
    /\ raised \in BOOLEAN

ServiceInit ==
    /\ mode = "Idle" /\ auto = "Stopped"
    /\ warning = FALSE /\ up = FALSE /\ raised = FALSE

----------------------------------------------------------------------------
(* A control cycle.                                                        *)

\* Where a cycle may lead from an auto state.  Stopped is reached from
\* NormalMoving when the way back of a pause goes wrong.
AutoStep(a) ==
    CASE a = "NormalMoving" -> {a, "Pausing", "Resuming", "Stopping", "Stopped"}
      [] a = "Pausing"      -> {a, "Paused", "Resuming", "Stopping"}
      [] a = "Paused"       -> {a}
      [] a = "Resuming"     -> {a, "NormalMoving", "Pausing", "Stopping"}
      [] a = "Stopping"     -> {a, "Stopped"}
      [] OTHER              -> {a}

\* What is reported: a pause that is complete, the task running again after a
\* pause (or at its end), a task that has stopped.  A task that was dropped
\* in its pause stops without a report.
Reports(a, b) ==
    \/ a # b /\ b \in {"Paused", "Stopped"}
    \/ a = "Resuming" /\ b \in {"NormalMoving", "Stopping"}

Reset == mode' = "Idle" /\ auto' = "Stopped" /\ raised' = FALSE

\* The state machine runs once.  Only a move looks at the touch detector.
Run ==
    \/ mode = "Idle" /\ raised' = FALSE /\ UNCHANGED <<mode, auto, warning>>
    \/ /\ mode = "Manual"
       /\ mode' \in {"Manual", "Idle"}
       /\ raised' = FALSE
       /\ warning' \in {warning, TRUE}
       /\ UNCHANGED auto
    \/ /\ mode = "Auto"
       /\ auto' \in AutoStep(auto)
       /\ mode' = IF auto' = "Stopped" THEN "Idle" ELSE mode
       /\ raised' = Reports(auto, auto')
       /\ warning' \in {warning, TRUE}

\* The link is lost, or comes up again: the machine is reset.
LinkChange == Reset /\ UNCHANGED warning

Cycle ==
    \/ up /\ Run /\ up' \in BOOLEAN
    \/ up /\ LinkChange /\ up' = FALSE
    \/ ~up /\ LinkChange /\ up' \in BOOLEAN
    \/ ~up /\ raised' = FALSE /\ UNCHANGED <<mode, auto, warning, up>>

----------------------------------------------------------------------------
(* The commands.                                                           *)

\* A command that changes nothing.
Nothing == raised' = FALSE /\ UNCHANGED <<mode, auto, warning>>

\* A group is started without a look at the link.  A move to where the axis
\* stands, and a group without segments, are refused.
Start(kind, ret) ==
    \/ /\ mode # "Idle" \/ ~up \/ kind \in {"G00", "Touch", "G01Group"}
       /\ ret = FALSE
       /\ Nothing
    \/ /\ mode = "Idle" /\ (up \/ kind = "G01Group")
       /\ ret = TRUE
       /\ mode' = "Auto" /\ auto' = "NormalMoving" /\ raised' = FALSE
       /\ UNCHANGED warning

\* A pause may come at a moment at which the way back cannot be paused.
Pause(ret) ==
    \/ mode # "Auto" /\ ret = FALSE /\ Nothing
    \/ mode = "Auto" /\ auto \in {"Pausing", "Paused"} /\ ret = TRUE /\ Nothing
    \/ mode = "Auto" /\ auto \in {"Stopping", "Stopped"} /\ ret = FALSE /\ Nothing
    \/ /\ mode = "Auto" /\ auto \in {"NormalMoving", "Resuming"}
       /\ \/ ret = FALSE /\ Nothing
          \/ ret = TRUE /\ auto' = "Pausing" /\ raised' = FALSE
             /\ UNCHANGED <<mode, warning>>

\* A pause with a manual move under way is not resumed.
Resume(ret) ==
    \/ mode # "Auto" /\ ret = FALSE /\ Nothing
    \/ mode = "Auto" /\ auto \in {"Pausing", "Stopping", "Stopped"}
       /\ ret = FALSE /\ Nothing
    \/ mode = "Auto" /\ auto \in {"NormalMoving", "Resuming"} /\ Nothing
    \/ /\ mode = "Auto" /\ auto = "Paused"
       /\ \/ ret = FALSE /\ Nothing
          \/ ret = TRUE /\ auto' = "NormalMoving" /\ raised' = TRUE
             /\ UNCHANGED <<mode, warning>>

\* A paused task is dropped at once, a paused way back is brought to rest.
Stop(ret) ==
    \/ mode # "Auto" /\ ret = FALSE /\ Nothing
    \/ mode = "Auto" /\ auto = "Stopping" /\ ret = TRUE /\ Nothing
    \/ mode = "Auto" /\ auto = "Stopped" /\ Nothing
    \/ /\ mode = "Auto" /\ auto \notin {"Stopping", "Stopped"}
       /\ \/ ret = FALSE /\ Nothing
          \/ /\ ret = TRUE
             /\ auto' \in {"Stopping"} \cup (IF auto = "Paused" THEN {"Stopped"} ELSE {})
             /\ raised' = FALSE
             /\ UNCHANGED <<mode, warning>>

EmergencyStop(ret) == ret = TRUE /\ Reset /\ UNCHANGED warning

ClearWarning(ret) ==
    /\ ret = TRUE
    /\ warning' = FALSE /\ raised' = FALSE
    /\ UNCHANGED <<mode, auto>>

\* In Idle a manual move is made, in a pause the pause-move controller may
\* take it; a move to where the axis stands is refused.
StartPointMove(ret) ==
    \/ /\ ret => up /\ mode = "Auto" /\ auto = "Paused"
       /\ Nothing
    \/ /\ mode = "Idle" /\ up
       /\ ret = TRUE
       /\ mode' = "Manual" /\ raised' = FALSE
       /\ UNCHANGED <<auto, warning>>

StopPointMove(ret) ==
    /\ ret => up /\ (mode = "Manual" \/ (mode = "Auto" /\ auto = "Paused"))
    /\ Nothing

\* Any other command, or none.
OtherCommand == Nothing

Command(ret) ==
    \/ \E kind \in {"G00", "Touch", "G01", "G04", "M00", "G01Group"} :
         Start(kind, ret)
    \/ Pause(ret) \/ Resume(ret) \/ Stop(ret)
    \/ EmergencyStop(ret) \/ ClearWarning(ret)
    \/ StartPointMove(ret) \/ StopPointMove(ret)

ServiceNext ==
    \/ Cycle
    \/ (\E ret \in BOOLEAN : Command(ret)) /\ UNCHANGED up
    \/ OtherCommand /\ UNCHANGED up

ServiceSpec == ServiceInit /\ [][ServiceNext]_serviceVars

=============================================================================

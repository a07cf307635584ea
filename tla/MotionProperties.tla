-------------------------- MODULE MotionProperties --------------------------
(***************************************************************************)
(* What the motion thread promises.  The properties are about behaviours   *)
(* in which commands arrive in any order between the control cycles.       *)
(***************************************************************************)
EXTENDS MotionThread

\* Every variable holds a value its C++ type and the code's own bounds allow.
TypeOK ==
    /\ SharedTypeOK
    /\ PmcTypeOK
    /\ RunnerTypeOK
    /\ MachineTypeOK
    /\ ThreadTypeOK

----------------------------------------------------------------------------
(* The commanded position.                                                 *)

\* The position sent to the drives never jumps: from one control cycle to the
\* next it changes by what one cycle may cover, whichever of the manual move,
\* the task, the jump, the pause move or the way back wrote it last.  Only
\* the hand-over when the link becomes ready takes a new position.
NoCmdAxisJump ==
    [][ecat_state # "EcatReady" \/ Abs(cmd_axis' - cmd_axis) <= MaxStep]_vars

\* Whenever the task itself commands the axis it starts from where the axis
\* stands, also after a pause with manual moves in it (AutoTaskRunner::
\* _resuming relies on it: the point after the way back is the task's own).
TaskHoldsAxis ==
    (/\ main_mode = "Auto" /\ ~Recovery /\ Moves(task)
     /\ state \in {"NormalMoving", "Pausing", "Resuming", "Stopping"})
      => cmd_axis = TaskPos(task)

\* The recorded moves form a path that ends at the point to.
Path(recs, to) ==
    /\ \A i \in 1..Len(recs) :
         recs[i].stop = IF i = Len(recs) THEN to ELSE recs[i + 1].start
    /\ \A i \in 1..Len(recs) : recs[i].start # recs[i].stop

\* Where undoing the recorded moves from the point to leads.
Origin(recs, to) == IF recs = <<>> THEN to ELSE recs[1].start

\* The recorded moves lead from the task's position to the point to.
Recorded(to) ==
    /\ Path(axis_recorder, to)
    /\ Moves(task) => Origin(axis_recorder, to) = TaskPos(task)

\* The way back is never lost: at every moment of a pause, of a manual move
\* in it and of the recovery, also of a recovery that is itself paused, the
\* recorded moves together with the move being made lead from the task's
\* position to where the axis stands.
WayBackKept ==
    /\ (main_mode = "Auto" /\ state = "Paused" /\ ~Recovery) =>
         /\ pmc_state = "AllowManualPointMove" => Recorded(cmd_axis)
         /\ pmc_state = "ManualPointMoving" =>
              Recorded(pmc_pm.start) /\ pmc_pm.curr = cmd_axis
    /\ (main_mode = "Auto" /\ Recovery) =>
         /\ pmc_state \in {"Recovering", "RecoveringPausing", "RecoveringPaused"} =>
              /\ Recorded(pmc_pm.target)
              /\ pmc_pm.curr = cmd_axis
              /\ PmOver(pmc_pm) => pmc_pm.curr = pmc_pm.target
         /\ pmc_state = "RecorverOver" =>
              axis_recorder = <<>> /\ Recorded(cmd_axis)

----------------------------------------------------------------------------
(* The states of the machine, the runner and the task.                     *)

\* The asserts of AutoTaskRunner and what the main modes rely on: the runner
\* is stopped outside Auto, and while the way back dominates it is in one of
\* the four states the code handles (the others run into assert(false)).
ModeMatchesRunner ==
    /\ main_mode # "Auto" => state = "Stopped"
    /\ (main_mode = "Auto" /\ Recovery) =>
         state \in {"NormalMoving", "Pausing", "Paused", "Stopping"}

\* While the runner is paused or on the way back the task rests in a pause,
\* so that the resume at the end of the way back cannot fail and leave the
\* runner in the recovery for ever.
ResumeFindsPausedTask ==
    (main_mode = "Auto" /\ (state = "Paused" \/ Recovery))
      => TaskStateOf(task) = "Paused"

\* The asserts of G01AutoTask: it backs off, and resumes, only after the jump
\* in progress has ended.
NoBackOffInJump ==
    (/\ task.kind = "G01"
     /\ \/ task.st \in {"Pausing", "Stopping"} /\ task.sub = "BackingToBegin"
        \/ task.st \in {"Paused", "Resuming"})
      => task.servo = "Servoing"

\* A ready link has a machine that runs: after an emergency stop or a lost
\* and re-established link the machine takes commands and runs again.
EnabledWhenReady == Ready => enabled

----------------------------------------------------------------------------
(* Power outputs and touch detection.                                      *)

\* The outputs follow the machining: both are on while the tool is fed, the
\* gate is closed while the tool is lifted, and the high-frequency output is
\* off during the whole pause, manual moves and way back included.
PowerFollowsMachining ==
    (main_mode = "Auto" /\ task.kind = "G01") =>
      /\ task.st = "NormalRunning" => power.mach
      /\ (task.st = "NormalRunning" /\ task.servo # "JumpUping") => power.gate
      /\ task.servo = "JumpUping" => ~power.gate
      /\ task.st = "Paused" => ~power.mach

\* As long as a touch warning is latched, no manual move, no move in a pause
\* and no G00 moves the axis, even if it is started after the contact; the
\* way back and the machining tasks do not look at contacts.
WarningHoldsAxis ==
    [][(Ready /\ touch.warning /\ cmd_axis' # cmd_axis) =>
         /\ main_mode = "Auto"
         /\ Recovery \/ (state # "Paused" /\ task.kind \in {"G01", "G01Group"})]_vars

----------------------------------------------------------------------------
(* Progress.                                                               *)

Gone == ~Ready \/ thread_state # "Running"

\* A pause, a stop or the way back of a resume is under way.
Asked ==
    /\ main_mode = "Auto"
    /\ \/ state \in {"Pausing", "Stopping", "Stopped"}
       \/ Recovery /\ state = "NormalMoving"

\* A pause, stop or resume that was accepted completes, whichever commands
\* come meanwhile and wherever it met the task: inside a jump, in the back-off
\* of an earlier pause, on the way back or between two of its moves.  The way
\* back ends, or a pause or stop overtakes it; a pause comes to rest, or a
\* stop overtakes it; a stop ends in Idle.
RequestsComplete == Asked ~> (~Asked \/ Gone)

\* A manual move ends by itself.
ManualMoveEnds == main_mode = "Manual" ~> (main_mode # "Manual" \/ Gone)

=============================================================================

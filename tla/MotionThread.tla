---------------------------- MODULE MotionThread ----------------------------
(***************************************************************************)
(* MotionThreadController: the real-time thread that owns the motion state *)
(* machine.  A cycle first works (the EtherCAT link is brought up step by  *)
(* step, or, once it is ready, the state machine runs once) and then takes *)
(* at most one command off the command queue and handles it.               *)
(***************************************************************************)
EXTENDS MotionStateMachine

CONSTANTS Kinds,       \* the kinds of motion the client starts when Idle
          Delays,      \* the delays of its G04 tasks, in control cycles
          Events,      \* what else may happen: the link is lost, the thread stopped
          MaxRecords   \* bound on the manual moves made in one pause

ASSUME MotionThreadAssumption ==
    /\ Kinds \subseteq {"Manual", "G00", "G01", "G01Group", "G04", "M00"}
    /\ Delays \subseteq 1..MaxDelay
    /\ Events \subseteq {"LinkLost", "Stop"}
    /\ MaxRecords \in Nat

VARIABLES phase,         \* what the thread does next: work or commands
          thread_state,  \* thread_state_; Exited when thread_exit_ is set
          stop_flag,     \* thread_stop_flag_, set by the destructor
          ecat_state,    \* ecat_state_
          connect_flag,  \* ecat_connect_flag_
          reenable_flag  \* ecat_clear_fault_reenable_flag_

linkVars == <<ecat_state, connect_flag, reenable_flag>>
threadVars == <<phase, thread_state, stop_flag, linkVars>>
motionVars == <<machineVars, runnerVars, pmcVars, cmd_axis, touch, power>>
vars == <<threadVars, motionVars, signals>>

EcatState == {"Init", "EcatDisconnected", "EcatConnecting",
              "EcatConnectedWaitingForOP", "EcatConnectedNotAllEnabled",
              "EcatConnectedEnabling", "EcatReady"}

ThreadTypeOK ==
    /\ phase \in {"work", "commands", "ended"}
    /\ thread_state \in {"Init", "Running", "Stopping", "CanExit", "Exited"}
    /\ stop_flag \in BOOLEAN
    /\ ecat_state \in EcatState
    /\ connect_flag \in BOOLEAN
    /\ reenable_flag \in BOOLEAN

Init ==
    /\ MachineInit
    /\ phase = "work" /\ thread_state = "Init" /\ stop_flag = FALSE
    /\ ecat_state = "Init" /\ connect_flag = FALSE /\ reenable_flag = FALSE

----------------------------------------------------------------------------
(* threadstate_running, one operator per state of the link.  What the     *)
(* drives answer is the environment's choice.                              *)

Ready == ecat_state = "EcatReady"

\* A step of the link that does not touch the state machine.
LinkStep(new, connect, reenable) ==
    /\ ecat_state' = new
    /\ connect_flag' = connect
    /\ reenable_flag' = reenable
    /\ signals' = {}
    /\ UNCHANGED motionVars

\* The state machine is reset and left disabled; the axis stays.
LoseLink(connect, reenable) ==
    /\ ecat_state' = "EcatDisconnected"
    /\ connect_flag' = connect
    /\ reenable_flag' = reenable
    /\ reset_and_enable(FALSE)
    /\ signals' = {}
    /\ UNCHANGED <<cmd_axis, touch, power>>

\* The commanded position is taken from the drives, which may have moved.
ecat_state_switch_to_ready ==
    /\ ecat_state' = "EcatReady"
    /\ reenable_flag' = FALSE
    /\ reset_and_enable(TRUE)
    /\ cmd_axis' \in Pos
    /\ signals' = {}
    /\ UNCHANGED <<connect_flag, touch, power>>

LinkDown ==
    \/ /\ ecat_state = "Init"
       /\ LinkStep("EcatDisconnected", connect_flag, reenable_flag)
    \/ /\ ecat_state = "EcatDisconnected"
       /\ LinkStep(IF connect_flag THEN "EcatConnecting" ELSE ecat_state,
                   FALSE, reenable_flag)
    \/ /\ ecat_state = "EcatConnecting"
       /\ \E new \in {"EcatConnectedWaitingForOP", "EcatDisconnected"} :
            LinkStep(new, FALSE, reenable_flag)

\* Waiting for the operational state may take long or time out.
LinkWaitingForOP ==
    \E new \in {ecat_state, "EcatConnectedNotAllEnabled", "EcatDisconnected"} :
      LinkStep(new, connect_flag, reenable_flag)

LinkNotAllEnabled ==
    \/ ecat_state_switch_to_ready
    \/ LinkStep(IF reenable_flag THEN "EcatConnectedEnabling" ELSE ecat_state,
                connect_flag, FALSE)

\* The link may be lost in the very cycle that finds every drive enabled: the
\* machine is then set up and reset again.
LinkEnabling ==
    \/ LinkStep(ecat_state, connect_flag, FALSE)
    \/ ecat_state_switch_to_ready
    \/ LoseLink(FALSE, FALSE)
    \/ /\ ecat_state' = "EcatDisconnected"
       /\ connect_flag' = FALSE
       /\ reenable_flag' = FALSE
       /\ reset_and_enable(FALSE)
       /\ cmd_axis' \in Pos
       /\ signals' = {}
       /\ UNCHANGED <<touch, power>>

\* The drives get the position of the last cycle, then the machine runs.
LinkReady ==
    \/ "LinkLost" \in Events /\ LoseLink(connect_flag, FALSE)
    \/ /\ run_once
       /\ reenable_flag' = FALSE
       /\ UNCHANGED <<ecat_state, connect_flag>>

threadstate_running ==
    \/ LinkDown
    \/ ecat_state = "EcatConnectedWaitingForOP" /\ LinkWaitingForOP
    \/ ecat_state = "EcatConnectedNotAllEnabled" /\ LinkNotAllEnabled
    \/ ecat_state = "EcatConnectedEnabling" /\ LinkEnabling
    \/ Ready /\ LinkReady

\* Stopping ends when the drives are disabled, the link is gone or the wait
\* was too long; the machine does not run any more.
thread_cycle_work ==
    /\ phase = "work"
    /\ phase' = "commands"
    /\ \/ /\ thread_state = "Running"
          /\ threadstate_running
          /\ thread_state' = IF stop_flag THEN "Stopping" ELSE thread_state
       \/ /\ thread_state # "Running"
          /\ \/ thread_state = "Init" /\ thread_state' = "Running"
             \/ thread_state = "Stopping" /\ thread_state' \in {"Stopping", "CanExit"}
             \/ thread_state = "CanExit" /\ thread_state' = "Exited"
          /\ signals' = {}
          /\ UNCHANGED <<linkVars, motionVars>>
    /\ UNCHANGED stop_flag

----------------------------------------------------------------------------
(* fetch_command_and_handle_and_copy_info_cache, one operator per command.*)
(* A command whose handler answers FALSE is ignored, otherwise accepted.   *)

\* What the handlers of most start commands ask for first.
Operational == Ready /\ thread_state = "Running"

\* The command is ignored before it reaches the state machine.
Ignored(ret) == ret = FALSE /\ signals' = {} /\ UNCHANGED motionVars

StartPointMove(ret) ==
    \/ ~Operational /\ Ignored(ret)
    \/ /\ Operational
       /\ main_mode = "Idle" => "Manual" \in Kinds
       /\ main_mode = "Auto" => Len(axis_recorder) < MaxRecords
       /\ \E target \in Pos, detect \in BOOLEAN :
            /\ start_manual_pointmove(ret, target)
            /\ touch' = IF ret THEN SetDetectEnable(touch, detect) ELSE touch
       /\ UNCHANGED <<cmd_axis, power>>

StopPointMove(ret) ==
    \/ ~Operational /\ Ignored(ret)
    \/ /\ Operational
       /\ \E immediate \in BOOLEAN : stop_manual_pointmove(ret, immediate)
       /\ UNCHANGED <<cmd_axis, touch, power>>

StartG00FastMove(ret) ==
    /\ "G00" \in Kinds
    /\ \/ ~Operational /\ Ignored(ret)
       \/ /\ Operational
          /\ \E target \in Pos, detect \in BOOLEAN :
               start_auto(ret, NewG00(cmd_axis, target, detect))
          /\ UNCHANGED <<cmd_axis, touch, power>>

\* The client never sends a G01 that goes nowhere.
StartG01ServoMove(ret) ==
    /\ "G01" \in Kinds
    /\ \/ ~Operational /\ Ignored(ret)
       \/ /\ Operational
          /\ \E target \in Pos \ {cmd_axis} : start_auto_g01(ret, target)
          /\ UNCHANGED <<cmd_axis, touch>>

G04Delay(ret) ==
    /\ "G04" \in Kinds
    /\ \/ ~Operational /\ Ignored(ret)
       \/ /\ Operational
          /\ \E delay \in Delays : start_auto(ret, NewG04(delay))
          /\ UNCHANGED <<cmd_axis, touch, power>>

M00FakePauseTask(ret) ==
    /\ "M00" \in Kinds
    /\ \/ ~Operational /\ Ignored(ret)
       \/ /\ Operational
          /\ start_auto(ret, NewM00)
          /\ UNCHANGED <<cmd_axis, touch, power>>

\* The corners of a group whose segments all have a length.
Corners == {c \in UNION {[1..n -> Pos] : n \in 0..MaxSegments} :
              /\ c = <<>> \/ c[1] # cmd_axis
              /\ \A i \in 1..(Len(c) - 1) : c[i] # c[i + 1]}

\* Neither the link nor the thread state is looked at.
G01Group(ret) ==
    /\ "G01Group" \in Kinds
    /\ \E corners \in Corners : start_auto(ret, NewG01Group(cmd_axis, corners))
    /\ UNCHANGED <<cmd_axis, touch, power>>

Auto_Stop(ret) ==
    /\ \E immediate \in BOOLEAN : stop_auto(ret, immediate)
    /\ UNCHANGED <<cmd_axis, touch, power>>

Auto_Pause(ret) ==
    /\ pause_auto(ret)
    /\ UNCHANGED <<cmd_axis, touch, power>>

Auto_Resume(ret) ==
    /\ resume_auto(ret)
    /\ UNCHANGED <<cmd_axis, touch, power>>

\* Mutant: the machine is left disabled.
EmergencyStopAllMove_LeftDisabled(ret) ==
    /\ ret = TRUE
    /\ reset_and_enable(FALSE)
    /\ signals' = {}
    /\ UNCHANGED <<cmd_axis, touch, power>>

\* The machine is enabled again whatever the state of the link.
EmergencyStopAllMove(ret) ==
    /\ ret = TRUE
    /\ reset_and_enable(TRUE)
    /\ signals' = {}
    /\ UNCHANGED <<cmd_axis, touch, power>>

Setting_ClearWarning(ret) ==
    /\ ret = TRUE
    /\ touch' = ClearWarning(touch)
    /\ signals' = {}
    /\ UNCHANGED <<machineVars, runnerVars, pmcVars, cmd_axis, power>>

MotionCommand(ret) ==
    \/ StartPointMove(ret) \/ StopPointMove(ret)
    \/ StartG00FastMove(ret) \/ StartG01ServoMove(ret) \/ G04Delay(ret)
    \/ M00FakePauseTask(ret) \/ G01Group(ret)
    \/ Auto_Stop(ret) \/ Auto_Pause(ret) \/ Auto_Resume(ret)
    \/ EmergencyStopAllMove(ret) \/ Setting_ClearWarning(ret)

\* A link that cannot be lost is connected once.
Setting_TriggerEcatConnect ==
    /\ "LinkLost" \in Events \/ ~Ready
    /\ connect_flag' = TRUE
    /\ reenable_flag' = TRUE
    /\ signals' = {}
    /\ UNCHANGED <<ecat_state, motionVars>>

NoCommand ==
    /\ signals' = {}
    /\ UNCHANGED <<linkVars, motionVars>>

fetch_command_and_handle ==
    /\ phase = "commands"
    /\ phase' = IF thread_state = "Exited" THEN "ended" ELSE "work"
    /\ \/ (\E ret \in BOOLEAN : MotionCommand(ret)) /\ UNCHANGED linkVars
       \/ Setting_TriggerEcatConnect
       \/ NoCommand
    /\ UNCHANGED <<thread_state, stop_flag>>

----------------------------------------------------------------------------
Cycle == thread_cycle_work \/ fetch_command_and_handle

\* ~MotionThreadController, in the main thread.
RequestStop ==
    /\ "Stop" \in Events
    /\ ~stop_flag
    /\ stop_flag' = TRUE
    /\ UNCHANGED <<phase, thread_state, linkVars, motionVars, signals>>

Next == Cycle \/ RequestStop

\* The thread is periodic: it keeps cycling until it has ended.
Spec == Init /\ [][Next]_vars /\ WF_vars(Cycle)

=============================================================================

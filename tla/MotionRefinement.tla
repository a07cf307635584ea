-------------------------- MODULE MotionRefinement --------------------------
(***************************************************************************)
(* The motion thread implements the service its clients are written        *)
(* against.  The mapping keeps what MotionInfo shows of the main mode, the *)
(* auto state and the touch warning, and the signals the interface thread  *)
(* listens to; the link counts as up while a start is not ignored.         *)
(***************************************************************************)
EXTENDS MotionProperties

Raised == signals \cap {"AutoPaused", "AutoResumed", "AutoStopped"} # {}

S == INSTANCE MotionService
       WITH mode <- main_mode, auto <- state, warning <- touch.warning,
            up <- Operational, raised <- Raised

\* Every step of the motion thread is a step of the service or changes
\* nothing a client sees: whatever the tasks, the jumps, the manual moves and
\* the way back do inside, MotionInfo moves only along the service's states
\* and AutoPaused, AutoResumed and AutoStopped are raised exactly on the
\* changes the service names.
ImplementsService == S!ServiceSpec

\* Every command is answered as the service promises: accepted only in the
\* states it names, with the effect it names, and without any visible effect
\* when it is ignored.
CommandsAsPromised ==
    [][phase = "commands" =>
         \A ret \in BOOLEAN :
           /\ StartG00FastMove(ret) => S!Start("G00", ret)
           /\ StartG01ServoMove(ret) => S!Start("G01", ret)
           /\ G04Delay(ret) => S!Start("G04", ret)
           /\ M00FakePauseTask(ret) => S!Start("M00", ret)
           /\ G01Group(ret) => S!Start("G01Group", ret)
           /\ Auto_Pause(ret) => S!Pause(ret)
           /\ Auto_Resume(ret) => S!Resume(ret)
           /\ Auto_Stop(ret) => S!Stop(ret)
           /\ EmergencyStopAllMove(ret) => S!EmergencyStop(ret)
           /\ Setting_ClearWarning(ret) => S!ClearWarning(ret)
           /\ StartPointMove(ret) => S!StartPointMove(ret)
           /\ StopPointMove(ret) => S!StopPointMove(ret)]_vars

=============================================================================

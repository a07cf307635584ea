-------------------------- MODULE MotionSharedData --------------------------
(***************************************************************************)
(* What the objects of the motion thread share: the commanded position     *)
(* (MotionSharedData::global_cmd_axis), the touch detector, the signals    *)
(* raised in the current call (SignalBuffer) and the two power outputs     *)
(* that tasks switch through MotionCallbacks.                              *)
(***************************************************************************)
EXTENDS PointMove

VARIABLES cmd_axis,  \* the position sent to the drives in every cycle
          touch,     \* TouchDetectHandler: [enabled, warning]
          signals,   \* signals set by the last call of the state machine
          power      \* [gate, mach]: voltage gate and high-frequency output

sharedVars == <<cmd_axis, touch, signals, power>>

Signal == {"ManualPointMoveStarted", "ManualPointMoveStopped", "AutoStarted",
           "AutoPaused", "AutoResumed", "AutoStopped"}

SharedTypeOK ==
    /\ cmd_axis \in Pos
    /\ touch \in [enabled : BOOLEAN, warning : BOOLEAN]
    /\ signals \in SUBSET Signal
    /\ power \in [gate : BOOLEAN, mach : BOOLEAN]

SharedInit ==
    /\ cmd_axis \in Pos
    /\ touch = [enabled |-> FALSE, warning |-> FALSE]
    /\ signals = {}
    /\ power = [gate |-> FALSE, mach |-> FALSE]

----------------------------------------------------------------------------
\* Mutant: the latched warning is forgotten.
TouchHit_NotLatched(t, contact) == t.enabled /\ contact

\* TouchDetectHandler::run_detect_once with contact as the physical input: a
\* latched warning is reported whether or not detection is enabled.
TouchHit(t, contact) == t.warning \/ (t.enabled /\ contact)

TouchAfter(t, contact) ==
    [t EXCEPT !.warning = t.warning \/ (t.enabled /\ contact)]

SetDetectEnable(t, b) == [t EXCEPT !.enabled = b]

ClearWarning(t) == [t EXCEPT !.warning = FALSE]

=============================================================================

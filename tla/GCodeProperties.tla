--------------------------- MODULE GCodeProperties ---------------------------
(***************************************************************************)
(* What the G-code runner must guarantee of a program, and the programs    *)
(* its runs use.                                                           *)
(***************************************************************************)
EXTENDS GCodeRunner

\* A fast move, a programmed pause, a touch move and a list without an end.
Mixed == {<<"G00", "M00", "M02">>, <<"Touch", "Local", "M02">>, <<"Local">>}

\* A group and a delay, separated by a node without motion.
Machining == {<<"G01Group", "Local", "G04", "M02">>}

\* Two motion nodes in a row.
Lines == {<<"G01", "G04", "M02">>}

Scenario(programs, user, box, faults, depth, shots) ==
    [programs |-> programs, user |-> user, box |-> box, faults |-> faults,
     depth |-> depth, shots |-> shots]

Buttons == {"start", "pause", "resume", "stop"}

\* Every operation of the window, with contacts and late answers.
Window == Scenario(Mixed, Buttons \cup {"estop", "ack", "start_pointmove", "stop_pointmove"},
                   {}, {"Contact", "Timeout"}, 1, 1)

\* The hand box, served in message boxes too; nodes whose set-up fails.
HandBox == Scenario(Mixed, {"start", "estop"}, Buttons \cup {"ack"}, {"Contact", "Setup"}, 2, 1)

\* The link goes and comes.
Link == Scenario(Machining, Buttons \cup {"estop"}, {}, {"LinkLost", "Timeout"}, 1, 1)

\* Callbacks in every round of events of a wait.  The programs of this and the
\* next have no touch move: two steps inside each other that both saw its
\* contact would both go on, and the index would leave the list.
Nested == Scenario(Lines, Buttons, {},
                   {"Reentry", "LongRound", "Timeout"}, 3, 2)

\* The hand box as well is served in the rounds of events of a wait.
NestedBox == Scenario(Lines, {"start"}, {"pause", "resume", "stop"},
                      {"Reentry", "LongRound"}, 2, 1)

AllScenarios == {Window, HandBox, Link, Nested, NestedBox}

\* A stop beside callbacks in a wait.
NestedStop == {Scenario(Lines, {"start", "stop"}, {}, {"Reentry"}, 2, 2)}

\* The panel with late answers.
Progress == {Scenario(Lines, Buttons, {}, {"Timeout"}, 1, 1)}

----------------------------------------------------------------------------
\* No handler waits and no command is under way: the panels show the truth
\* they will show until the next event.
AtRest == stack = <<>> /\ cmds = <<>>

\* The waits are over before the next callback of the runner falls due, also
\* in the round of events in which the answer comes: no step of a program runs
\* inside another one.
Undisturbed == Faults \cap {"Reentry", "LongRound"} = {}

\* The runner goes on from a motion node only after the task that it started
\* for this very node has come to its own end: an old copy of MotionInfo, a
\* refused or late start or a stop must not pass for it (_state_running takes
\* Idle for the end).  A lost link does: it leaves Idle behind.
NodeEndedItself ==
    [][ /\ Undisturbed /\ gr.state = "Running" /\ Node(gr) \in Motion
        /\ gr'.curr = gr.curr + 1
        => task.node = gr.curr /\ task.fate \in {"ended", "lost"} ]_gvars

\* A runner that has stopped leaves no task running in the motion thread,
\* however it came to stop: at the end of the program, by stop() with its
\* forced emergency stop, by estop() or by _abort.
StoppedMeansStopped ==
    AtRest /\ gr.state = "Stopped" => mode # "Auto" \/ auto = "Stopped"

\* The same with undisturbed waits, though a start that was given up may still
\* be accepted and the hand box comes in between.
NoOrphanTask == Undisturbed => StoppedMeansStopped

\* The buttons of the panel offer a start exactly when the runner can take
\* one, and otherwise pause, resume and stop: no end of a program, failed
\* start or abort loses the signal that switches them.
ButtonsMatch == Undisturbed /\ AtRest => (gr.ui = "init" <=> gr.state = "Stopped")

\* A pause that was asked for between two nodes and never came about is
\* forgotten with the program; the next program does not pause by itself.
NoStalePause == Undisturbed /\ AtRest /\ gr.state = "Stopped" => ~gr.delay

\* What the runner calls a paused motion node is a task at rest in its pause,
\* so that a manual move may be made and a resume finds it; only a lost link
\* takes it away, which the runner does not notice in a pause.
PausedStill ==
    gr.state = "Paused" /\ AtRest /\ Node(gr) \in Motion
       => (mode = "Auto" /\ auto = "Paused") \/ task.fate = "lost"

\* A pause that was asked for between two nodes, or accepted, comes about
\* unless the program stops first, without any signal of the motion thread.
PauseHonoured ==
    gr.delay \/ gr.state = "WaitingForPaused"
       ~> gr.state \in {"Paused", "WaitingForStopped", "Stopped"}

\* A stop that was accepted ends the program, without any signal.
StopEnds == gr.state = "WaitingForStopped" ~> gr.state = "Stopped"

\* Every wait for an answer ends, the unlimited ones included.
WaitsEnd == stack # <<>> ~> stack = <<>>

=============================================================================

----------------------------- MODULE GCodeRunner -----------------------------
(***************************************************************************)
(* The G-code runner and the task manager of the interface thread, on top  *)
(* of the service of the motion thread (MotionService, which MotionThread  *)
(* implements).  A program is a sequence of nodes; the runner starts the   *)
(* task of a node, polls MotionInfo until it is over and goes on.          *)
(*                                                                         *)
(* A command to the motion thread is waited for in a nested event loop     *)
(* (WaitforCmdTobeAccepted), so the runner's own timer, the signals of     *)
(* the motion thread, single-shot timers and the hand box are served       *)
(* while an operation waits.  stack holds the operations that wait, the    *)
(* innermost last.                                                         *)
(***************************************************************************)
EXTENDS MotionService, Integers, Sequences

CONSTANTS Scenarios,  \* the circumstances under which programs are run
          MaxQueue,   \* bound: commands in the queue at the same time
          SignalCap   \* capacity of the queue of signals

\* Nodes that the motion thread executes, and those executed here.
Motion == {"G00", "Touch", "G01", "G04", "M00", "G01Group"}
Local  == {"Local", "M02"}

\* The link is lost; a move meets a contact; a wait with a limit is given up;
\* the set-up of a node fails; a callback falls due in a wait, or in the round
\* of events in which the answer comes.
FaultKinds == {"LinkLost", "Contact", "Timeout", "Setup", "Reentry", "LongRound"}

Operations == {"start", "pause", "resume", "stop", "ack", "start_pointmove",
               "stop_pointmove"}

RunnerState == {"ReadyToStart", "CurrentNodeIniting", "Running",
                "WaitingForPaused", "Paused", "WaitingForResumed",
                "WaitingForStopped", "Stopped"}

\* What an operation waits for; "Box" is the message box after an abort.
Waits == {"Start", "Ack", "Pause", "Resume", "Stop", "StopPausing",
          "StopEstop", "Abort", "Estop", "Box", "PanelAck", "StartPointMove",
          "StopPointMove"}

Commands == Motion \cup {"Pause", "Resume", "Stop", "Estop", "Ack",
                          "StartPointMove", "StopPointMove"}

ASSUME RunnerAssumption ==
    /\ \A sc \in Scenarios :
         /\ \A p \in sc.programs : p \in Seq(Motion \cup Local) /\ p # <<>>
         /\ sc.user \subseteq Operations \cup {"estop"}
         /\ sc.box \subseteq Operations
         /\ sc.faults \subseteq FaultKinds
         /\ sc.depth \in Nat \ {0} /\ sc.shots \in Nat
    /\ MaxQueue \in Nat \ {0} /\ SignalCap \in Nat

VARIABLES gr,     \* the runner
          prog,   \* gcode_list_
          stack,  \* the operations that wait, with the answer they got
          cmds,   \* the commands not handled yet, with the depth of the waiter
          info,   \* the copy of MotionInfo the interface thread reads
          sigs,   \* the number of signals in the queue
          pc,     \* what the motion thread does next
          task,   \* the node whose task was started last, and how it fared
          scenario \* one of Scenarios, the same all the time

runnerVars == <<gr, prog, stack, cmds, scenario>>
gvars == <<serviceVars, gr, prog, stack, cmds, info, sigs, pc, task, scenario>>

Programs == scenario.programs  \* the programs that may be started
UserOps  == scenario.user      \* what the user does in the window
BoxOps   == scenario.box       \* what the hand box sends
Faults   == scenario.faults    \* what else may happen
MaxDepth == scenario.depth     \* bound: operations that wait at the same time
MaxShots == scenario.shots     \* bound: single-shot timers under way

\* timer is update_timer_: a timer whose callback is running does not fire.
\* delay is delay_pause_flag_, ui the set of buttons that is enabled.  The
\* index of the current node is inside the list, which is read with it before
\* it is checked, also when callbacks in a wait advance it (with a touch move
\* they may take it out of the list).
RunnerTypeOK ==
    /\ ServiceTypeOK
    /\ gr \in [state : RunnerState, curr : Nat, timer : {"off", "armed", "firing"},
               delay : BOOLEAN, shots : 0..MaxShots, ui : {"init", "started", "paused"}]
    /\ prog \in Programs \cup {<<>>}
    /\ prog # <<>> => gr.curr \in DOMAIN prog
    /\ stack \in Seq([op : Waits, by : {"T", "S", "G", "U"},
                      cmd : Commands \cup {"none"}, ans : {"none", "accepted", "ignored"}])
    /\ Len(cmds) <= MaxQueue
    /\ \A c \in DOMAIN cmds : cmds[c].owner \in 0..Len(stack)
    /\ sigs \in 0..SignalCap
    /\ pc \in {"cycle", "commands"}

GInit ==
    /\ ServiceInit
    /\ gr = [state |-> "Stopped", curr |-> 1, timer |-> "off", delay |-> FALSE,
             shots |-> 0, ui |-> "init"]
    /\ prog = <<>> /\ stack = <<>> /\ cmds = <<>>
    /\ info = [mode |-> "Idle", auto |-> "Stopped", warning |-> FALSE]
    /\ sigs = 0 /\ pc = "cycle"
    /\ task = [node |-> 0, fate |-> "none"]
    /\ scenario \in Scenarios

----------------------------------------------------------------------------
(* The runner's code, as functions from a runner to an outcome: it returns *)
(* (op = "Return", ret is what pause() answers) or it sends a command and  *)
(* waits.                                                                  *)

Return(g, ret) == [g |-> g, op |-> "Return", ret |-> ret]
Wait(g, op)    == [g |-> g, op |-> op, ret |-> FALSE]

\* A program that ran past its end has no current node.
Node(g) == IF g.curr \in DOMAIN prog THEN prog[g.curr] ELSE "none"

\* Setting the interval of a running timer starts it anew.
switch_to_state(g, s) ==
    [g EXCEPT !.state = s, !.timer = IF @ = "off" THEN @ ELSE "armed"]

\* Mutant: the flag of a pause outlives the program.
reset_state_KeepsDelay(g) == [g EXCEPT !.state = "Stopped", !.timer = "off"]

reset_state(g) ==
    [g EXCEPT !.state = "Stopped", !.timer = "off", !.delay = FALSE]

\* Mutant: an abort does not tell the panels.
aborted_Silent(g) == reset_state(g)

\* Both end with sig_auto_stopped.
end(g)     == [reset_state(g) EXCEPT !.ui = "init"]
aborted(g) == [reset_state(g) EXCEPT !.ui = "init"]

check_to_next_gcode(g) ==
    IF g.curr + 1 > Len(prog)
    THEN Wait([g EXCEPT !.curr = @ + 1], "Abort")
    ELSE Return([switch_to_state(g, "CurrentNodeIniting")
                   EXCEPT !.curr = @ + 1, !.shots = @ + 1], TRUE)

\* Paused where the interface is told so.
paused(g) == [switch_to_state(g, "Paused") EXCEPT !.ui = "paused"]

pause(g) ==
    CASE g.state \in {"Running", "WaitingForResumed"} ->
           IF Node(g) \in Motion THEN Wait(g, "Pause") ELSE Return(paused(g), TRUE)
      [] g.state \in {"WaitingForPaused", "Paused"} -> Return(g, TRUE)
      [] g.state = "CurrentNodeIniting" -> Return([g EXCEPT !.delay = TRUE], FALSE)
      [] OTHER -> Return(g, FALSE)

resume(g) ==
    IF g.state = "Paused"
    THEN IF Node(g) \in Motion
         THEN Wait(g, "Resume")
         ELSE Return([switch_to_state(g, "Running") EXCEPT !.ui = "started"], TRUE)
    ELSE Return(g, g.state = "WaitingForResumed")

stop(g) ==
    CASE g.state \in {"Running", "Paused", "WaitingForResumed"} ->
           IF Node(g) \in Motion THEN Wait(g, "Stop") ELSE Return(end(g), TRUE)
      [] g.state = "CurrentNodeIniting" -> Return(end(g), TRUE)
      [] g.state = "WaitingForPaused"   -> Wait(g, "StopPausing")
      [] OTHER -> Return(g, g.state = "WaitingForStopped")

\* The target may be where the axis stands, or beyond a soft limit.
state_current_node_initing(g) ==
    IF Node(g) \notin Motion
    THEN {Return(switch_to_state(g, "Running"), TRUE)}
    ELSE {Wait(g, "Start")}
           \cup (IF "Setup" \in Faults /\ Node(g) \in {"G00", "Touch", "G01"}
                 THEN {check_to_next_gcode(g)} ELSE {})
           \cup (IF "Setup" \in Faults /\ Node(g) \in {"G00", "Touch", "G01", "G01Group"}
                 THEN {Wait(g, "Abort")} ELSE {})

\* Mutant: M02 is a node like the others.
state_running_non_motion_NoEnd(g) == {check_to_next_gcode(g)}

state_running_non_motion(g) ==
    IF Node(g) = "M02"
    THEN {Return(end(g), TRUE)}
    ELSE {check_to_next_gcode(g)}
           \cup (IF "Setup" \in Faults THEN {Wait(g, "Abort")} ELSE {})

\* Idle is taken for the end of the task.
state_running(g) ==
    IF Node(g) \notin Motion
    THEN state_running_non_motion(g)
    ELSE {CASE info.mode = "Manual" -> Wait(g, "Abort")
            [] info.mode = "Auto" /\ info.auto = "Paused" ->
                 Return([paused(g) EXCEPT !.delay = FALSE], TRUE)
            [] info.mode = "Auto" /\ info.auto # "Paused" -> Return(g, TRUE)
            [] info.mode = "Idle" /\ info.warning /\ Node(g) = "G00" -> Wait(g, "Abort")
            [] info.mode = "Idle" /\ info.warning /\ Node(g) = "Touch" -> Wait(g, "Ack")
            [] OTHER -> check_to_next_gcode(g)}

\* Mutant: Pausing is taken for Paused.
state_waiting_for_paused_Early(g) ==
    IF info.mode = "Auto" /\ info.auto \in {"Paused", "Pausing"}
    THEN Return([paused(g) EXCEPT !.delay = FALSE], TRUE)
    ELSE Wait(g, "Abort")

state_waiting_for_paused(g) ==
    CASE info.mode = "Auto" /\ info.auto = "Paused" ->
           Return([paused(g) EXCEPT !.delay = FALSE], TRUE)
      [] info.mode = "Auto" /\ info.auto = "Pausing" -> Return(g, TRUE)
      [] OTHER -> Wait(g, "Abort")

state_waiting_for_resumed(g) ==
    CASE \/ info.mode = "Idle"
         \/ info.mode = "Auto" /\ info.auto \in {"NormalMoving", "Stopping", "Stopped"} ->
           Return([switch_to_state(g, "Running") EXCEPT !.ui = "started"], TRUE)
      [] info.mode = "Auto" /\ info.auto \in {"Paused", "Resuming"} -> Return(g, TRUE)
      [] OTHER -> Wait(g, "Abort")

\* Mutant: only the auto state is looked at, as after a signal.
state_waiting_for_stopped_AutoOnly(g) ==
    IF info.mode = "Auto" /\ info.auto = "Stopped"
    THEN Return(end(g), TRUE) ELSE Return(g, TRUE)

state_waiting_for_stopped(g) ==
    CASE info.mode = "Idle" \/ (info.mode = "Auto" /\ info.auto = "Stopped") ->
           Return(end(g), TRUE)
      [] info.mode = "Auto" /\ info.auto = "Stopping" -> Return(g, TRUE)
      [] OTHER -> Wait(g, "Abort")

\* Mutant: the flag is not looked at again.
delayed_pause_Dropped(o) == o

\* What _run_once does after its switch.
delayed_pause(o) ==
    IF o.op # "Return" \/ ~o.g.delay
    THEN o
    ELSE LET p == pause(o.g) IN
         IF p.op = "Return" /\ p.ret THEN Return([p.g EXCEPT !.delay = FALSE], TRUE) ELSE p

run_once(g) ==
    {delayed_pause(o) : o \in
       CASE g.state = "ReadyToStart" ->
              {Return([switch_to_state(g, "CurrentNodeIniting") EXCEPT !.ui = "started"], TRUE)}
         [] g.state = "CurrentNodeIniting" -> state_current_node_initing(g)
         [] g.state = "Running"            -> state_running(g)
         [] g.state = "WaitingForPaused"   -> {state_waiting_for_paused(g)}
         [] g.state = "WaitingForResumed"  -> {state_waiting_for_resumed(g)}
         [] g.state = "WaitingForStopped"  -> {state_waiting_for_stopped(g)}
         [] OTHER                          -> {Return(g, TRUE)}}

start_answered(g, ok) ==
    IF ok THEN Return(switch_to_state(g, "Running"), TRUE) ELSE Wait(g, "Abort")

\* Mutant: a refused stop is taken for the end of the task.
stop_answered_NotForced(g, ok) ==
    Return(IF ok THEN switch_to_state(g, "WaitingForStopped") ELSE end(g), TRUE)

\* A stop that is refused is forced.
stop_answered(g, ok) ==
    IF ok THEN Return(switch_to_state(g, "WaitingForStopped"), TRUE)
          ELSE Wait(g, "StopEstop")

\* What follows the wait of frame f; ok tells whether the command was
\* accepted.  A pause that _run_once called clears the flag.
continue(g, f, ok) ==
    CASE f.op = "Start" -> start_answered(g, ok)
      [] f.op = "Ack" -> IF ok THEN check_to_next_gcode(g) ELSE Wait(g, "Abort")
      [] f.op = "Pause" ->
           IF ok
           THEN Return([switch_to_state(g, "WaitingForPaused")
                          EXCEPT !.delay = IF f.by = "U" THEN @ ELSE FALSE], TRUE)
           ELSE Return([g EXCEPT !.delay = TRUE], FALSE)
      [] f.op = "Resume" ->
           Return(IF ok THEN switch_to_state(g, "WaitingForResumed") ELSE g, ok)
      [] f.op = "Stop" -> stop_answered(g, ok)
      [] f.op = "StopPausing" ->
           Return(IF ok THEN switch_to_state(g, "WaitingForStopped") ELSE g, ok)
      [] f.op = "StopEstop" -> Return(end(g), TRUE)
      [] f.op = "Abort" -> Wait(aborted(g), "Box")
      [] f.op = "Estop" ->
           IF g.state = "Stopped" THEN Return(reset_state(g), TRUE) ELSE Wait(g, "Abort")
      [] OTHER -> Return(g, ok)

----------------------------------------------------------------------------
(* The interface thread.                                                   *)

CommandOf(g, op) ==
    CASE op = "Start" -> Node(g)
      [] op \in {"Stop", "StopPausing"} -> "Stop"
      [] op \in {"StopEstop", "Abort", "Estop"} -> "Estop"
      [] op \in {"Ack", "PanelAck"} -> "Ack"
      [] OTHER -> op

\* The commands that are not waited for without a limit.
Timed == {"G01", "G04", "M00", "Ack", "StartPointMove", "StopPointMove"}

\* A handler started by by has outcome o, above the waiters below it and with
\* the commands queue before it.  The message box waits for the user only.
Become(o, by, below, queue) ==
    /\ gr' = IF o.op = "Return" /\ by = "T" /\ o.g.timer = "firing"
             THEN [o.g EXCEPT !.timer = "armed"] ELSE o.g
    /\ gr'.shots <= MaxShots
    /\ \/ o.op = "Return" /\ stack' = below /\ cmds' = queue
       \/ /\ o.op = "Box"
          /\ stack' = Append(below, [op |-> "Box", by |-> by, cmd |-> "none", ans |-> "accepted"])
          /\ cmds' = queue
       \/ /\ o.op \notin {"Return", "Box"} /\ Len(below) < MaxDepth /\ Len(queue) < MaxQueue
          /\ LET kind == CommandOf(o.g, o.op)
                 d    == Len(below) + 1
             IN  /\ stack' = Append(below, [op |-> o.op, by |-> by, cmd |-> kind, ans |-> "none"])
                 /\ cmds' = Append(queue, [kind |-> kind, node |-> o.g.curr, owner |-> d])
    /\ UNCHANGED <<serviceVars, info, pc, task, scenario>>

Top   == stack[Len(stack)]
Below == SubSeq(stack, 1, Len(stack) - 1)

\* Callbacks are served while nothing waits, while the message box is open,
\* and (fault "Reentry") in the rounds of events of a wait; in the last of
\* these rounds (fault "LongRound") the answer may have come meanwhile.
Served ==
    \A d \in DOMAIN stack :
      d = Len(stack) =>
        \/ stack[d].op = "Box"
        \/ stack[d].ans = "none" /\ "Reentry" \in Faults
        \/ stack[d].ans # "none" /\ "LongRound" \in Faults

\* update_timer_ fires.
TimerFires ==
    /\ Served
    /\ gr.timer = "armed"
    /\ \E o \in run_once([gr EXCEPT !.timer = "firing"]) : Become(o, "T", stack, cmds)
    /\ UNCHANGED <<prog, sigs>>

\* InfoDispatcher takes a signal; its timer does not fire inside its callback.
SignalArrives ==
    /\ Served
    /\ sigs > 0
    /\ \A i \in DOMAIN stack : stack[i].by # "S"
    /\ sigs' = sigs - 1
    /\ \E o \in run_once(gr) : Become(o, "S", stack, cmds)
    /\ UNCHANGED prog

\* The single-shot timer of check_to_next_gcode.
ShotFires ==
    /\ Served
    /\ gr.shots > 0
    /\ \E o \in run_once([gr EXCEPT !.shots = @ - 1]) : Become(o, "G", stack, cmds)
    /\ UNCHANGED <<prog, sigs>>

\* The rest of the handler whose wait is over.
Continued(ok) ==
    LET o == continue(gr, Top, ok)
    IN  IF Top.by # "U" /\ Top.op # "Pause" THEN delayed_pause(o) ELSE o

\* The innermost wait ends.
WaitEnds ==
    /\ stack # <<>> /\ Top.ans # "none"
    /\ Become(Continued(Top.ans = "accepted"), Top.by, Below, cmds)
    /\ UNCHANGED <<prog, sigs>>

\* A wait is given up; nobody listens to the answer any more.
WaitTimesOut ==
    /\ "Timeout" \in Faults
    /\ stack # <<>> /\ Top.ans = "none" /\ Top.cmd \in Timed
    /\ LET unheard == [c \in DOMAIN cmds |->
                         IF cmds[c].owner = Len(stack) THEN [cmds[c] EXCEPT !.owner = 0]
                                                       ELSE cmds[c]]
       IN  Become(Continued(FALSE), Top.by, Below, unheard)
    /\ UNCHANGED <<prog, sigs>>

\* The window takes input only while nothing waits, the hand box is served at
\* any time; both go through the panels, which enable the buttons.
Asked(op) == (op \in UserOps /\ stack = <<>>) \/ (op \in BoxOps /\ Served)

Operation(op, o) ==
    Asked(op) /\ Become(o, "U", stack, cmds) /\ UNCHANGED <<prog, sigs>>

\* The list must end with M02 and name what exists.
OpStart ==
    /\ Asked("start") /\ gr.ui = "init"
    /\ \/ /\ gr.state # "Stopped"
          /\ Become(Return(gr, FALSE), "U", stack, cmds)
          /\ UNCHANGED prog
       \/ /\ gr.state = "Stopped"
          /\ prog' \in Programs
          /\ LET g == [gr EXCEPT !.curr = 1]
             IN  \/ /\ prog'[Len(prog')] # "M02" \/ "Setup" \in Faults
                    /\ Become(Wait(g, "Abort"), "U", stack, cmds)
                 \/ /\ prog'[Len(prog')] = "M02"
                    /\ Become(Return([g EXCEPT !.state = "ReadyToStart", !.timer = "armed",
                                               !.ui = "started"], TRUE),
                              "U", stack, cmds)
    /\ UNCHANGED sigs

OpPause  == gr.ui = "started" /\ Operation("pause", pause(gr))
OpResume == gr.ui = "paused" /\ Operation("resume", resume(gr))
OpStop   == gr.ui # "init" /\ Operation("stop", stop(gr))
OpEstop  == Operation("estop", Wait(gr, "Estop"))
OpAck    == Operation("ack", Wait(gr, "PanelAck"))
OpStartPointMove ==
    /\ gr.state \in {"Stopped", "Paused"}
    /\ Operation("start_pointmove", Wait(gr, "StartPointMove"))
OpStopPointMove == Operation("stop_pointmove", Wait(gr, "StopPointMove"))

----------------------------------------------------------------------------
(* The motion thread: a cycle, then at most one command, the copy of the   *)
(* info, the answer and the signals.                                       *)

\* What does not fit is dropped.
Queued(n) == IF sigs + n > SignalCap THEN SignalCap ELSE sigs + n
Bit(b) == IF b THEN 1 ELSE 0

MotionCycle ==
    /\ pc = "cycle" /\ pc' = "commands"
    /\ Cycle
    /\ up /\ ~up' => "LinkLost" \in Faults
    /\ warning' # warning => "Contact" \in Faults
    /\ task' = [task EXCEPT !.fate =
                  IF @ # "running" \/ mode # "Auto" \/ mode' = "Auto" THEN @
                  ELSE IF raised' THEN "ended" ELSE "lost"]
    /\ UNCHANGED <<runnerVars, info, sigs>>

Effect(kind, ret) ==
    \/ kind \in Motion /\ Start(kind, ret)
    \/ kind = "Pause" /\ Pause(ret)
    \/ kind = "Resume" /\ Resume(ret)
    \/ kind = "Stop" /\ Stop(ret)
    \/ kind = "Estop" /\ EmergencyStop(ret)
    \/ kind = "Ack" /\ ClearWarning(ret)
    \/ kind = "StartPointMove" /\ StartPointMove(ret)
    \/ kind = "StopPointMove" /\ StopPointMove(ret)

TaskAfter(c, ret) ==
    CASE c.kind \in Motion /\ ret -> [node |-> c.node, fate |-> "running"]
      [] c.kind = "Stop" /\ ret /\ task.fate = "running" -> [task EXCEPT !.fate = "stopped"]
      [] c.kind = "Estop" /\ task.fate = "running" -> [task EXCEPT !.fate = "cut"]
      [] OTHER -> task

copy_info == info' = [mode |-> mode', auto |-> auto', warning |-> warning']

\* Mutant: the command is answered before the info is copied.
HandleCommand_StaleInfo ==
    /\ pc = "commands" /\ pc' = "cycle"
    /\ cmds # <<>> /\ cmds' = Tail(cmds)
    /\ \E ret \in BOOLEAN :
         /\ Effect(Head(cmds).kind, ret)
         /\ task' = TaskAfter(Head(cmds), ret)
         /\ stack' = [d \in DOMAIN stack |->
                        IF d = Head(cmds).owner
                        THEN [stack[d] EXCEPT !.ans = IF ret THEN "accepted" ELSE "ignored"]
                        ELSE stack[d]]
    /\ sigs' = Queued(Bit(raised) + Bit(raised'))
    /\ UNCHANGED <<up, gr, prog, info, scenario>>

\* Mutant: an ignored command is never answered.
HandleCommand_Unanswered ==
    /\ pc = "commands" /\ pc' = "cycle"
    /\ cmds # <<>> /\ cmds' = Tail(cmds)
    /\ \E ret \in BOOLEAN :
         /\ Effect(Head(cmds).kind, ret)
         /\ task' = TaskAfter(Head(cmds), ret)
         /\ stack' = [d \in DOMAIN stack |->
                        IF d = Head(cmds).owner /\ ret
                        THEN [stack[d] EXCEPT !.ans = "accepted"]
                        ELSE stack[d]]
    /\ copy_info
    /\ sigs' = Queued(Bit(raised) + Bit(raised'))
    /\ UNCHANGED <<up, gr, prog, scenario>>

HandleCommand ==
    /\ pc = "commands" /\ pc' = "cycle"
    /\ cmds # <<>> /\ cmds' = Tail(cmds)
    /\ \E ret \in BOOLEAN :
         /\ Effect(Head(cmds).kind, ret)
         /\ task' = TaskAfter(Head(cmds), ret)
         /\ stack' = [d \in DOMAIN stack |->
                        IF d = Head(cmds).owner
                        THEN [stack[d] EXCEPT !.ans = IF ret THEN "accepted" ELSE "ignored"]
                        ELSE stack[d]]
    /\ copy_info
    /\ sigs' = Queued(Bit(raised) + Bit(raised'))
    /\ UNCHANGED <<up, gr, prog, scenario>>

NoCommand ==
    /\ pc = "commands" /\ pc' = "cycle"
    /\ cmds = <<>>
    /\ OtherCommand /\ UNCHANGED up
    /\ copy_info
    /\ sigs' = Queued(Bit(raised))
    /\ UNCHANGED <<runnerVars, task>>

----------------------------------------------------------------------------
InterfaceThread ==
    \/ TimerFires \/ SignalArrives \/ ShotFires \/ WaitEnds \/ WaitTimesOut
    \/ OpStart \/ OpPause \/ OpResume \/ OpStop \/ OpEstop \/ OpAck
    \/ OpStartPointMove \/ OpStopPointMove

MotionThread == MotionCycle \/ HandleCommand \/ NoCommand

GNext == InterfaceThread \/ MotionThread

GSpec == GInit /\ [][GNext]_gvars

\* The event loop serves what is due and the user closes message boxes; the
\* motion thread is periodic.  It brings a task to rest (RequestsComplete of
\* MotionProperties), and the moments in which the way back refuses a pause do
\* not last.
GFairness ==
    /\ SF_gvars(TimerFires) /\ SF_gvars(ShotFires) /\ SF_gvars(SignalArrives)
    /\ WF_gvars(WaitEnds)
    /\ WF_gvars(MotionThread)
    /\ SF_gvars(MotionCycle /\ auto = "Pausing" /\ auto' \in {"Paused", "Stopping"})
    /\ SF_gvars(MotionCycle /\ auto = "Stopping" /\ auto' # auto)
    /\ SF_gvars(HandleCommand /\ Head(cmds).kind = "Pause" /\ auto' = "Pausing")

GFairSpec == GSpec /\ GFairness

=============================================================================

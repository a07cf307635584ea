---------------------------- MODULE GCodeTheorems ----------------------------
(***************************************************************************)
(* What the G-code runner guarantees of every program, under every         *)
(* circumstance in which no callback of the runner falls due in the wait   *)
(* of another one: for all programs, operations, faults (a lost link,      *)
(* contacts, late answers, failing nodes), message boxes and queue sizes.  *)
(***************************************************************************)
EXTENDS GCodeProperties, SequenceTheorems, TLAPS

Frame   == [op : Waits, by : {"T", "S", "G", "U"}, cmd : Commands \cup {"none"},
            ans : {"none", "accepted", "ignored"}]
Runner  == [state : RunnerState, curr : Nat, timer : {"off", "armed", "firing"},
            delay : BOOLEAN, shots : Nat, ui : {"init", "started", "paused"}]
Request == [kind : Commands, node : Nat, owner : Nat]
Fates   == {"none", "running", "ended", "stopped", "cut", "lost"}
Outcome == [g : Runner, op : Waits \cup {"Return"}, ret : BOOLEAN]
ServiceInfo ==
    [mode : {"Idle", "Manual", "Auto"},
     auto : {"NormalMoving", "Pausing", "Paused", "Resuming", "Stopping", "Stopped"},
     warning : BOOLEAN]

TypeInv ==
    /\ ServiceTypeOK
    /\ gr \in Runner /\ gr.shots <= MaxShots
    /\ prog \in Programs \cup {<<>>}
    /\ stack \in Seq(Frame)
    /\ cmds \in Seq(Request) /\ Len(cmds) <= MaxQueue
    /\ info \in ServiceInfo
    /\ sigs \in 0..SignalCap
    /\ pc \in {"cycle", "commands"}
    /\ task \in [node : Nat, fate : Fates]
    /\ scenario \in Scenarios

\* The commands a wait may have sent.
CommandFor(op) ==
    CASE op = "Start" -> Motion
      [] op \in {"Stop", "StopPausing"} -> {"Stop"}
      [] op \in {"StopEstop", "Abort", "Estop"} -> {"Estop"}
      [] op \in {"Ack", "PanelAck"} -> {"Ack"}
      [] OTHER -> {op}

\* Operations that wait lie upon message boxes only, and the command of the
\* innermost one is the last of the queue until it is answered.  The others in
\* the queue were given up; a start is given up only in favour of an abort.
WaitInv ==
    /\ \A d \in DOMAIN stack :
         /\ d # Len(stack) => stack[d].op = "Box"
         /\ stack[d].op = "Box" => stack[d].ans = "accepted"
         /\ stack[d].op # "Box" => stack[d].cmd \in CommandFor(stack[d].op)
         /\ stack[d].ans = "none" =>
              /\ cmds # <<>>
              /\ cmds[Len(cmds)].owner = d /\ cmds[Len(cmds)].kind = stack[d].cmd
              /\ stack[d].op = "Start" => cmds[Len(cmds)].node = gr.curr
    /\ \A c \in DOMAIN cmds :
         /\ cmds[c].owner # 0 =>
              /\ c = Len(cmds)
              /\ stack # <<>> /\ cmds[c].owner = Len(stack) /\ Top.ans = "none"
         /\ cmds[c].owner = 0 =>
              /\ cmds[c].kind \in Timed
              /\ cmds[c].kind \in Motion =>
                   stack # <<>> /\ Top.op = "Abort" /\ Top.ans = "none"

Rests      == mode # "Auto" \/ auto = "Stopped"
HeldPaused == mode = "Auto" /\ auto = "Paused"

\* The fate of the task follows the mode, and the copy of MotionInfo, old by a
\* cycle at most, does not take a task for over, stopped or paused that is not.
InfoInv ==
    /\ task.fate = "running" => mode = "Auto"
    /\ mode = "Auto" /\ auto \notin {"Stopping", "Stopped"} => task.fate = "running"
    /\ info.mode = "Idle" => mode = "Idle"
    /\ info.mode = "Auto" /\ info.auto = "Stopped" => Rests
    /\ info.mode = "Auto" /\ info.auto = "Paused" => HeldPaused \/ task.fate = "lost"
    /\ pc = "cycle" => info = [mode |-> mode, auto |-> auto, warning |-> warning]

\* The states of the runner in which an operation waits.
StateFor(op) ==
    CASE op = "Start"  -> {"CurrentNodeIniting"}
      [] op = "Ack"    -> {"Running"}
      [] op = "Pause"  -> {"Running", "WaitingForResumed"}
      [] op = "Resume" -> {"Paused"}
      [] op \in {"Stop", "StopEstop"} -> {"Running", "Paused", "WaitingForResumed"}
      [] op = "StopPausing" -> {"WaitingForPaused"}
      [] OTHER -> RunnerState

\* The runner g by itself, while operation op waits: buttons, flag and index
\* fit the state.
NodeInv(g, op) ==
    /\ g.ui = "init" <=> g.state = "Stopped"
    /\ g.state = "Stopped" => ~g.delay
    /\ prog # <<>> => g.curr \in DOMAIN prog
    /\ g.state # "Stopped" => prog # <<>> /\ prog[Len(prog)] = "M02"
    /\ g.state \in {"WaitingForPaused", "WaitingForResumed", "WaitingForStopped"}
         => Node(g) \in Motion
    /\ g.state \in StateFor(op)
    /\ op \in {"Start", "Ack", "Pause", "Resume", "Stop", "StopEstop", "StopPausing"}
         => Node(g) \in Motion

\* The task of the node g stands at came to no end but its own.
OwnTask(g) == task.node = g.curr /\ task.fate \in {"running", "ended", "lost"}

ForcedStop == {"Abort", "Estop", "StopEstop"}

\* The runner g and the motion thread, while op waits and has answer ans.
\* Between nodes, and at nodes without motion, no task is active; at a motion
\* node the task is the node's own, and in a pause it is paused.
MotionInv(g, op, ans) ==
    /\ op = "Ack" \/ (op \in ForcedStop /\ ans # "none") => mode # "Auto"
    /\ \/ op = "Abort"
       \/ op = "Start" /\ ans = "accepted"
       \/ /\ g.state \notin {"Stopped", "ReadyToStart", "CurrentNodeIniting"}
          /\ Node(g) \in Motion
       \/ Rests
    /\ op = "Start" /\ ans = "accepted" => OwnTask(g)
    /\ \/ op \in ForcedStop
       \/ op \in {"Stop", "StopPausing"} /\ ans = "accepted"
       \/ g.state \notin {"Running", "WaitingForPaused", "Paused", "WaitingForResumed"}
       \/ Node(g) \notin Motion
       \/ OwnTask(g)
    /\ \/ op \in ForcedStop
       \/ op \in {"Stop", "Resume"} /\ ans = "accepted"
       \/ g.state # "Paused"
       \/ Node(g) \notin Motion
       \/ HeldPaused
       \/ task.fate = "lost"

\* The innermost wait and its answer.
Held   == IF stack = <<>> THEN "Return" ELSE Top.op
Answer == IF stack = <<>> THEN "accepted" ELSE Top.ans

GInv ==
    /\ Undisturbed
    /\ TypeInv
    /\ WaitInv
    /\ InfoInv
    /\ NodeInv(gr, Held)
    /\ MotionInv(gr, Held, Answer)

\* A runner that nothing waits for, and an outcome that may be waited for.
Free(g) == g \in Runner /\ NodeInv(g, "Return") /\ MotionInv(g, "Return", "none")
Fine(o) == o \in Outcome /\ NodeInv(o.g, o.op) /\ MotionInv(o.g, o.op, "none")

----------------------------------------------------------------------------
(* The runner's code.                                                      *)

\* What the setters of the runner change.
LEMMA SwitchState ==
    ASSUME NEW g \in Runner, NEW s \in RunnerState
    PROVE  /\ switch_to_state(g, s) \in Runner
           /\ switch_to_state(g, s).state = s
           /\ switch_to_state(g, s).curr = g.curr /\ switch_to_state(g, s).delay = g.delay
           /\ switch_to_state(g, s).shots = g.shots /\ switch_to_state(g, s).ui = g.ui
BY DEF switch_to_state, Runner, RunnerState

LEMMA ResetState ==
    ASSUME NEW g \in Runner
    PROVE  /\ reset_state(g) \in Runner
           /\ reset_state(g).state = "Stopped" /\ ~reset_state(g).delay
           /\ reset_state(g).curr = g.curr /\ reset_state(g).ui = g.ui
           /\ end(g) \in Runner /\ end(g).state = "Stopped" /\ ~end(g).delay
           /\ end(g).ui = "init" /\ end(g).curr = g.curr
           /\ aborted(g) = end(g)
BY DEF reset_state, end, aborted, Runner, RunnerState

LEMMA PausedRunner ==
    ASSUME NEW g \in Runner
    PROVE  /\ paused(g) \in Runner
           /\ paused(g).state = "Paused" /\ paused(g).ui = "paused"
           /\ paused(g).curr = g.curr /\ paused(g).delay = g.delay
<1>1. switch_to_state(g, "Paused") \in Runner
    BY SwitchState DEF RunnerState
<1> QED BY <1>1, SwitchState DEF paused, Runner, RunnerState

\* What the fields of a runner say is all that the invariants look at.
LEMMA SameRunner ==
    ASSUME NEW g, NEW h, NEW op, NEW ans, g.curr = h.curr, g.state = h.state,
           g.ui = h.ui, g.delay = h.delay
    PROVE  /\ NodeInv(g, op) <=> NodeInv(h, op)
           /\ MotionInv(g, op, ans) <=> MotionInv(h, op, ans)
<1>1. Node(g) = Node(h) /\ OwnTask(g) = OwnTask(h)
    BY DEF Node, OwnTask
<1>2. NodeInv(g, op) <=> NodeInv(h, op)
    BY <1>1 DEF NodeInv
<1>3. MotionInv(g, op, ans) <=> MotionInv(h, op, ans)
    BY <1>1 DEF MotionInv
<1> QED BY <1>2, <1>3

\* To end or to abort is fine wherever nothing is active.
LEMMA StoppedFine ==
    ASSUME NEW g \in Runner, NodeInv(g, "Return"), Rests,
           NEW e \in Runner, e.state = "Stopped", ~e.delay, e.ui = "init", e.curr = g.curr,
           NEW ret \in BOOLEAN, NEW op \in {"Return", "Box"}
    PROVE  Fine([g |-> e, op |-> op, ret |-> ret])
<1>1. NodeInv(e, op)
    BY DEF NodeInv, StateFor, RunnerState, Node
<1>2. MotionInv(e, op, "none")
    BY DEF MotionInv, ForcedStop
<1> QED BY <1>1, <1>2 DEF Fine, Outcome, Waits

\* An abort may be asked for in any state.
LEMMA AbortFine ==
    ASSUME NEW g, Free(g)
    PROVE  Fine(Wait(g, "Abort")) /\ Wait(g, "Abort").g = g
<1>1. NodeInv(g, "Abort")
    BY DEF Free, NodeInv, StateFor, Runner
<1>2. MotionInv(g, "Abort", "none")
    BY DEF MotionInv, ForcedStop
<1> QED BY <1>1, <1>2 DEF Wait, Fine, Outcome, Waits, Free

\* The next node may be gone to when nothing is active, from every node but
\* the M02 at the end.
LEMMA NextNodeFine ==
    ASSUME NEW g \in Runner, NodeInv(g, "Return"), Rests, Programs \subseteq Seq(Motion \cup Local),
           prog \in Programs \cup {<<>>},
           g.state # "Stopped", Node(g) # "M02"
    PROVE  /\ Fine(check_to_next_gcode(g))
           /\ check_to_next_gcode(g).op = "Return"
           /\ check_to_next_gcode(g).g.curr = g.curr + 1
           /\ check_to_next_gcode(g).g.state = "CurrentNodeIniting"
<1> DEFINE s == switch_to_state(g, "CurrentNodeIniting")
           h == [s EXCEPT !.curr = @ + 1, !.shots = @ + 1]
<1>1. /\ s \in Runner /\ s.state = "CurrentNodeIniting"
      /\ s.curr = g.curr /\ s.delay = g.delay /\ s.shots = g.shots /\ s.ui = g.ui
    BY SwitchState DEF RunnerState
<1> HIDE DEF s
<1>0. /\ s.curr \in Nat /\ s.shots \in Nat /\ s.curr + 1 \in Nat /\ s.shots + 1 \in Nat
    BY <1>1 DEF Runner
<1>2. /\ h \in Runner /\ h.state = "CurrentNodeIniting" /\ h.ui = g.ui /\ h.delay = g.delay
      /\ h.curr = g.curr + 1
    BY <1>0, <1>1 DEF Runner
<1> HIDE DEF h
<1>3. /\ prog \in Seq(Motion \cup Local) /\ prog # <<>>
      /\ g.curr \in 1..Len(prog) /\ prog[Len(prog)] = "M02" /\ prog[g.curr] # "M02"
    BY DEF NodeInv, Node
<1>4. Len(prog) \in Nat /\ g.curr # Len(prog)
    BY <1>3
<1>5. g.curr + 1 \in 1..Len(prog)
    BY <1>3, <1>4
<1>6. check_to_next_gcode(g) = Return(h, TRUE)
  <2>1. ~(g.curr + 1 > Len(prog))
      BY <1>3, <1>4, <1>5
  <2> QED BY <2>1 DEF check_to_next_gcode, s, h
<1>7. NodeInv(h, "Return")
    BY <1>2, <1>3, <1>5 DEF NodeInv, StateFor, RunnerState
<1>8. MotionInv(h, "Return", "none")
    BY <1>2 DEF MotionInv, ForcedStop
<1> QED BY <1>2, <1>6, <1>7, <1>8 DEF Return, Fine, Outcome

\* pause, resume and stop.
LEMMA PauseFine ==
    ASSUME NEW g, Free(g)
    PROVE  /\ Fine(pause(g)) /\ pause(g).op \in {"Return", "Pause"}
           /\ pause(g).g.curr = g.curr
           /\ pause(g).ret /\ pause(g).g.state = "Stopped" => g.state = "Stopped"
           /\ pause(g).g.state = "Stopped" => g.state = "Stopped"
<1>1. g \in Runner /\ g.state \in RunnerState
    BY DEF Free, Runner
<1>2. CASE g.state \in {"Running", "WaitingForResumed"} /\ Node(g) \in Motion
  <2>1. pause(g) = Wait(g, "Pause")
      BY <1>2 DEF pause
  <2>2. NodeInv(g, "Pause") /\ MotionInv(g, "Pause", "none")
      BY <1>2 DEF Free, NodeInv, MotionInv, StateFor, ForcedStop
  <2> QED BY <1>1, <2>1, <2>2 DEF Wait, Fine, Outcome, Waits
<1>3. CASE g.state \in {"Running", "WaitingForResumed"} /\ Node(g) \notin Motion
  <2>1. pause(g) = Return(paused(g), TRUE)
      BY <1>3 DEF pause
  <2>2. /\ paused(g) \in Runner
        /\ paused(g).state = "Paused" /\ paused(g).ui = "paused"
        /\ paused(g).curr = g.curr /\ paused(g).delay = g.delay
      BY <1>1, PausedRunner
  <2>3. NodeInv(paused(g), "Return") /\ MotionInv(paused(g), "Return", "none")
      BY <1>3, <2>2 DEF Free, NodeInv, MotionInv, StateFor, ForcedStop, Node, RunnerState
  <2> QED BY <2>1, <2>2, <2>3, <1>3 DEF Return, Fine, Outcome
<1>4. CASE g.state = "CurrentNodeIniting"
  <2> DEFINE h == [g EXCEPT !.delay = TRUE]
  <2>1. pause(g) = Return(h, FALSE)
      BY <1>4 DEF pause
  <2>2. /\ h \in Runner
        /\ h.state = g.state /\ h.ui = g.ui /\ h.curr = g.curr /\ h.delay = TRUE
      BY <1>1 DEF Runner
  <2> HIDE DEF h
  <2>3. NodeInv(h, "Return") /\ MotionInv(h, "Return", "none")
      BY <1>4, <2>2 DEF Free, NodeInv, MotionInv, StateFor, ForcedStop, Node, RunnerState
  <2> QED BY <2>1, <2>2, <2>3, <1>4 DEF Return, Fine, Outcome
<1>5. CASE g.state \notin {"Running", "WaitingForResumed", "CurrentNodeIniting"}
  <2>1. PICK ret \in BOOLEAN : pause(g) = Return(g, ret)
      BY <1>5 DEF pause
  <2> QED BY <1>1, <2>1 DEF Return, Fine, Outcome, Free
<1> QED BY <1>1, <1>2, <1>3, <1>4, <1>5

LEMMA ResumeFine ==
    ASSUME NEW g, Free(g)
    PROVE  /\ Fine(resume(g)) /\ resume(g).op \in {"Return", "Resume"}
           /\ resume(g).g.curr = g.curr
<1>1. g \in Runner /\ g.state \in RunnerState
    BY DEF Free, Runner
<1>2. CASE g.state = "Paused" /\ Node(g) \in Motion
  <2>1. resume(g) = Wait(g, "Resume")
      BY <1>2 DEF resume
  <2>2. NodeInv(g, "Resume") /\ MotionInv(g, "Resume", "none")
      BY <1>2 DEF Free, NodeInv, MotionInv, StateFor, ForcedStop
  <2> QED BY <1>1, <2>1, <2>2 DEF Wait, Fine, Outcome, Waits
<1>3. CASE g.state = "Paused" /\ Node(g) \notin Motion
  <2> DEFINE s == switch_to_state(g, "Running")
             h == [s EXCEPT !.ui = "started"]
  <2>1. resume(g) = Return(h, TRUE)
      BY <1>3 DEF resume
  <2>2. /\ s \in Runner
        /\ s.state = "Running" /\ s.curr = g.curr /\ s.delay = g.delay
      BY <1>1, SwitchState DEF RunnerState
  <2> HIDE DEF s
  <2>3. /\ h \in Runner /\ h.ui = "started"
        /\ h.state = "Running" /\ h.curr = g.curr /\ h.delay = g.delay
      BY <2>2 DEF Runner
  <2> HIDE DEF h
  <2>4. NodeInv(h, "Return") /\ MotionInv(h, "Return", "none")
      BY <1>3, <2>3 DEF Free, NodeInv, MotionInv, StateFor, ForcedStop, Node, RunnerState
  <2> QED BY <2>1, <2>3, <2>4 DEF Return, Fine, Outcome
<1>4. CASE g.state # "Paused"
  <2>1. resume(g) = Return(g, g.state = "WaitingForResumed")
      BY <1>4 DEF resume
  <2> QED BY <1>1, <2>1 DEF Return, Fine, Outcome, Free
<1> QED BY <1>2, <1>3, <1>4

LEMMA StopFine ==
    ASSUME NEW g, Free(g)
    PROVE  /\ Fine(stop(g)) /\ stop(g).op \in {"Return", "Stop", "StopPausing"}
           /\ stop(g).g.curr = g.curr
<1>1. g \in Runner /\ g.state \in RunnerState
    BY DEF Free, Runner
<1>2. CASE g.state \in {"Running", "Paused", "WaitingForResumed"} /\ Node(g) \in Motion
  <2>1. stop(g) = Wait(g, "Stop")
      BY <1>2 DEF stop
  <2>2. NodeInv(g, "Stop") /\ MotionInv(g, "Stop", "none")
      BY <1>2 DEF Free, NodeInv, MotionInv, StateFor, ForcedStop
  <2> QED BY <1>1, <2>1, <2>2 DEF Wait, Fine, Outcome, Waits
<1>3. CASE \/ g.state \in {"Running", "Paused", "WaitingForResumed"} /\ Node(g) \notin Motion
           \/ g.state = "CurrentNodeIniting"
  <2>1. stop(g) = Return(end(g), TRUE)
      BY <1>3 DEF stop
  <2>2. Rests
      BY <1>3 DEF Free, MotionInv, ForcedStop
  <2>3. end(g).curr = g.curr
      BY <1>1, ResetState
  <2>4. Fine([g |-> end(g), op |-> "Return", ret |-> TRUE])
      BY <1>1, <2>2, StoppedFine, ResetState DEF Free
  <2> QED BY <2>1, <2>3, <2>4 DEF Return
<1>4. CASE g.state = "WaitingForPaused"
  <2>1. stop(g) = Wait(g, "StopPausing")
      BY <1>4 DEF stop
  <2>2. NodeInv(g, "StopPausing") /\ MotionInv(g, "StopPausing", "none")
      BY <1>4 DEF Free, NodeInv, MotionInv, StateFor, ForcedStop
  <2> QED BY <1>1, <2>1, <2>2 DEF Wait, Fine, Outcome, Waits
<1>5. CASE g.state \notin {"Running", "Paused", "WaitingForResumed", "CurrentNodeIniting",
                            "WaitingForPaused"}
  <2>1. stop(g) = Return(g, g.state = "WaitingForStopped")
      BY <1>5 DEF stop
  <2> QED BY <1>1, <2>1 DEF Return, Fine, Outcome, Free
<1> QED BY <1>2, <1>3, <1>4, <1>5

\* What a callback finds: the program, and a copy of MotionInfo that is not
\* too old.
Ground ==
    /\ Programs \subseteq Seq(Motion \cup Local)
    /\ prog \in Programs \cup {<<>>}
    /\ info \in ServiceInfo
    /\ InfoInv

\* Runner g stays at its node, or goes on to the next one; from a motion node
\* only in the state Running and when MotionInfo says Idle.
GoesOn(g, h) ==
    \/ h.curr = g.curr
    \/ /\ h.curr = g.curr + 1
       /\ g.state = "Running" /\ Node(g) \in Motion => info.mode = "Idle"

\* A new state in which nothing is expected of the motion thread, or in which
\* the task may still run or rest.
LEMMA EnterFine ==
    ASSUME NEW g, Free(g), NEW h \in Runner, NEW ret \in BOOLEAN,
           h.curr = g.curr, h.state \in {"Running", "Paused"}, h.ui # "init",
           g.state # "Stopped",
           \/ Node(g) \notin Motion /\ Rests
           \/ /\ Node(g) \in Motion /\ OwnTask(g)
              /\ h.state = "Paused" => HeldPaused \/ task.fate = "lost"
    PROVE  Fine(Return(h, ret))
<1>1. Node(h) = Node(g) /\ OwnTask(h) = OwnTask(g)
    BY DEF Node, OwnTask
<1>2. NodeInv(h, "Return")
    BY <1>1 DEF Free, NodeInv, StateFor, RunnerState
<1>3. MotionInv(h, "Return", "none")
    BY <1>1 DEF MotionInv, ForcedStop
<1> QED BY <1>2, <1>3 DEF Return, Fine, Outcome

LEMMA InitingFine ==
    ASSUME Ground, NEW g, Free(g), g.state = "CurrentNodeIniting",
           NEW o \in state_current_node_initing(g)
    PROVE  Fine(o) /\ o.op # "Box" /\ GoesOn(g, o.g)
<1>1. g \in Runner /\ Rests
    BY DEF Free, MotionInv, ForcedStop
<1>2. CASE Node(g) \notin Motion
  <2>1. o = Return(switch_to_state(g, "Running"), TRUE)
      BY <1>2 DEF state_current_node_initing
  <2>2. g.ui # "init"
      BY DEF Free, NodeInv
  <2>3. /\ switch_to_state(g, "Running") \in Runner
        /\ switch_to_state(g, "Running").state = "Running"
        /\ switch_to_state(g, "Running").curr = g.curr
        /\ switch_to_state(g, "Running").ui = g.ui
      BY <1>1, SwitchState DEF RunnerState
  <2>4. Fine(o)
      BY <1>1, <1>2, <2>1, <2>2, <2>3, EnterFine
  <2> QED BY <2>1, <2>3, <2>4 DEF Return, GoesOn
<1>3. CASE o = Wait(g, "Start") /\ Node(g) \in Motion
  <2>1. NodeInv(g, "Start") /\ MotionInv(g, "Start", "none")
      BY <1>3 DEF Free, NodeInv, MotionInv, StateFor, ForcedStop
  <2> QED BY <1>1, <1>3, <2>1 DEF Wait, Fine, Outcome, Waits, GoesOn
<1>4. CASE o = Wait(g, "Abort")
    BY <1>4, AbortFine DEF Wait, GoesOn
<1>5. CASE o = check_to_next_gcode(g) /\ Node(g) \in Motion
  <2>1. Node(g) # "M02"
      BY <1>5 DEF Motion
  <2> QED BY <1>1, <1>5, <2>1, NextNodeFine DEF Ground, Free, GoesOn
<1> QED BY <1>2, <1>3, <1>4, <1>5 DEF state_current_node_initing

LEMMA RunningFine ==
    ASSUME Ground, NEW g, Free(g), g.state = "Running", NEW o \in state_running(g)
    PROVE  Fine(o) /\ o.op # "Box" /\ GoesOn(g, o.g)
<1>1. g \in Runner /\ NodeInv(g, "Return")
    BY DEF Free
<1>2. CASE o = Wait(g, "Abort")
    BY <1>2, AbortFine DEF Wait, GoesOn
<1>3. CASE Node(g) \notin Motion /\ o # Wait(g, "Abort")
  <2>1. Rests
      BY <1>3 DEF Free, MotionInv, ForcedStop
  <2>2. CASE o = Return(end(g), TRUE)
    <3>1. end(g).curr = g.curr
        BY <1>1, ResetState
    <3>2. Fine([g |-> end(g), op |-> "Return", ret |-> TRUE])
        BY <1>1, <2>1, StoppedFine, ResetState
    <3> QED BY <2>2, <3>1, <3>2 DEF Return, GoesOn
  <2>3. CASE o = check_to_next_gcode(g) /\ Node(g) # "M02"
      BY <1>1, <1>3, <2>1, <2>3, NextNodeFine DEF Ground, GoesOn
  <2> QED BY <1>3, <2>2, <2>3 DEF state_running, state_running_non_motion
<1>4. CASE Node(g) \in Motion /\ o # Wait(g, "Abort")
  <2>1. Node(g) # "M02" /\ OwnTask(g)
      BY <1>4 DEF Motion, Free, MotionInv, ForcedStop
  <2>2. CASE info.mode = "Auto" /\ info.auto = "Paused"
               /\ o = Return([paused(g) EXCEPT !.delay = FALSE], TRUE)
    <3> DEFINE h == [paused(g) EXCEPT !.delay = FALSE]
    <3>1. /\ paused(g) \in Runner /\ paused(g).state = "Paused" /\ paused(g).ui = "paused"
          /\ paused(g).curr = g.curr
        BY <1>1, PausedRunner
    <3>2. h \in Runner /\ h.state = "Paused" /\ h.ui = "paused" /\ h.curr = g.curr
        BY <3>1 DEF Runner
    <3> HIDE DEF h
    <3>3. HeldPaused \/ task.fate = "lost"
        BY <2>2 DEF Ground, InfoInv
    <3>4. Fine(o)
        BY <1>4, <2>1, <2>2, <3>2, <3>3, EnterFine DEF h
    <3> QED BY <2>2, <3>2, <3>4 DEF Return, GoesOn, h
  <2>3. CASE o = Return(g, TRUE)
      BY <1>1, <2>3 DEF Return, Fine, Free, Outcome, GoesOn
  <2>4. CASE info.mode = "Idle" /\ o = Wait(g, "Ack")
    <3>1. mode # "Auto"
        BY <2>4 DEF Ground, InfoInv
    <3>2. NodeInv(g, "Ack") /\ MotionInv(g, "Ack", "none")
        BY <1>4, <3>1 DEF Free, NodeInv, MotionInv, StateFor, ForcedStop
    <3> QED BY <1>1, <2>4, <3>2 DEF Wait, Fine, Outcome, Waits, GoesOn
  <2>5. CASE info.mode = "Idle" /\ o = check_to_next_gcode(g)
    <3>1. Rests
        BY <2>5 DEF Ground, InfoInv, Rests
    <3> QED BY <1>1, <2>1, <2>5, <3>1, NextNodeFine DEF Ground, GoesOn
  <2> QED
      BY <1>4, <2>2, <2>3, <2>4, <2>5 DEF state_running, Ground, ServiceInfo
<1> QED BY <1>2, <1>3, <1>4

LEMMA WaitingForPausedFine ==
    ASSUME Ground, NEW g, Free(g), g.state = "WaitingForPaused"
    PROVE  LET o == state_waiting_for_paused(g)
           IN  Fine(o) /\ o.op # "Box" /\ GoesOn(g, o.g)
<1> DEFINE o == state_waiting_for_paused(g)
           h == [paused(g) EXCEPT !.delay = FALSE]
<1>1. g \in Runner
    BY DEF Free
<1>2. CASE info.mode = "Auto" /\ info.auto = "Paused"
  <2>0. o = Return(h, TRUE)
      BY <1>2 DEF state_waiting_for_paused
  <2>1. /\ paused(g) \in Runner /\ paused(g).state = "Paused" /\ paused(g).ui = "paused"
        /\ paused(g).curr = g.curr
      BY <1>1, PausedRunner
  <2>2. h \in Runner /\ h.state = "Paused" /\ h.ui = "paused" /\ h.curr = g.curr
      BY <2>1 DEF Runner
  <2> HIDE DEF h
  <2>3. /\ Node(g) \in Motion /\ OwnTask(g)
        /\ HeldPaused \/ task.fate = "lost"
      BY <1>2 DEF Ground, InfoInv, Free, NodeInv, MotionInv, ForcedStop
  <2>4. Fine(Return(h, TRUE))
      BY <2>2, <2>3, EnterFine
  <2> QED BY <2>0, <2>2, <2>4 DEF Return, GoesOn
<1>3. CASE o = Return(g, TRUE)
    BY <1>1, <1>3 DEF Return, Fine, Free, Outcome, GoesOn
<1>4. CASE o = Wait(g, "Abort")
    BY <1>4, AbortFine DEF Wait, GoesOn
<1> QED BY <1>2, <1>3, <1>4 DEF state_waiting_for_paused

LEMMA WaitingForResumedFine ==
    ASSUME Ground, NEW g, Free(g), g.state = "WaitingForResumed"
    PROVE  LET o == state_waiting_for_resumed(g)
           IN  Fine(o) /\ o.op # "Box" /\ GoesOn(g, o.g)
<1> DEFINE o == state_waiting_for_resumed(g)
           s == switch_to_state(g, "Running")
           h == [s EXCEPT !.ui = "started"]
<1>1. g \in Runner
    BY DEF Free
<1>2. CASE o = Return(h, TRUE)
  <2>1. s \in Runner /\ s.state = "Running" /\ s.curr = g.curr
      BY <1>1, SwitchState DEF RunnerState
  <2> HIDE DEF s
  <2>2. h \in Runner /\ h.state = "Running" /\ h.ui = "started" /\ h.curr = g.curr
      BY <2>1 DEF Runner
  <2> HIDE DEF h
  <2>3. Node(g) \in Motion /\ OwnTask(g)
      BY DEF Free, NodeInv, MotionInv, ForcedStop
  <2>4. Fine(Return(h, TRUE))
      BY <2>2, <2>3, EnterFine
  <2> QED BY <1>2, <2>2, <2>4 DEF Return, GoesOn
<1>3. CASE o = Return(g, TRUE)
    BY <1>1, <1>3 DEF Return, Fine, Free, Outcome, GoesOn
<1>4. CASE o = Wait(g, "Abort")
    BY <1>4, AbortFine DEF Wait, GoesOn
<1> QED BY <1>2, <1>3, <1>4 DEF state_waiting_for_resumed

LEMMA WaitingForStoppedFine ==
    ASSUME Ground, NEW g, Free(g), g.state = "WaitingForStopped"
    PROVE  LET o == state_waiting_for_stopped(g)
           IN  Fine(o) /\ o.op # "Box" /\ GoesOn(g, o.g)
<1> DEFINE o == state_waiting_for_stopped(g)
<1>1. g \in Runner /\ NodeInv(g, "Return")
    BY DEF Free
<1>2. CASE info.mode = "Idle" \/ (info.mode = "Auto" /\ info.auto = "Stopped")
  <2>1. o = Return(end(g), TRUE)
      BY <1>2 DEF state_waiting_for_stopped
  <2>2. Rests
      BY <1>2 DEF Ground, InfoInv, Rests
  <2>3. end(g).curr = g.curr
      BY <1>1, ResetState
  <2>4. Fine([g |-> end(g), op |-> "Return", ret |-> TRUE])
      BY <1>1, <2>2, StoppedFine, ResetState
  <2> QED BY <2>1, <2>3, <2>4 DEF Return, GoesOn
<1>3. CASE o = Return(g, TRUE)
    BY <1>1, <1>3 DEF Return, Fine, Free, Outcome, GoesOn
<1>4. CASE o = Wait(g, "Abort")
    BY <1>4, AbortFine DEF Wait, GoesOn
<1> QED BY <1>2, <1>3, <1>4 DEF state_waiting_for_stopped

\* The look at the flag after the switch of _run_once.
LEMMA DelayedPauseFine ==
    ASSUME NEW o, Fine(o), o.op # "Box"
    PROVE  LET p == delayed_pause(o)
           IN  Fine(p) /\ p.op # "Box" /\ p.g.curr = o.g.curr
<1> DEFINE q == pause(o.g)
           h == [q.g EXCEPT !.delay = FALSE]
<1>1. CASE o.op # "Return" \/ ~o.g.delay
    BY <1>1 DEF delayed_pause
<1>2. CASE o.op = "Return" /\ o.g.delay
  <2>1. Free(o.g)
      BY <1>2 DEF Fine, Free, Outcome
  <2>2. Fine(q) /\ q.op \in {"Return", "Pause"} /\ q.g.curr = o.g.curr
      BY <2>1, PauseFine
  <2>3. CASE q.op = "Return" /\ q.ret
    <3>1. delayed_pause(o) = Return(h, TRUE)
        BY <1>2, <2>3 DEF delayed_pause
    <3> HIDE DEF q
    <3>2. q.g \in Runner
        BY <2>2 DEF Fine, Outcome
    <3>3. /\ h \in Runner /\ h.state = q.g.state /\ h.curr = q.g.curr /\ h.ui = q.g.ui
          /\ ~h.delay
        BY <3>2 DEF Runner
    <3> HIDE DEF h
    <3>4. Node(h) = Node(q.g) /\ OwnTask(h) = OwnTask(q.g)
        BY <3>3 DEF Node, OwnTask
    <3>5. NodeInv(h, "Return") /\ MotionInv(h, "Return", "none")
        BY <2>2, <2>3, <3>3, <3>4 DEF Fine, NodeInv, MotionInv
    <3> QED BY <2>2, <3>1, <3>3, <3>5 DEF Return, Fine, Outcome
  <2>4. CASE ~(q.op = "Return" /\ q.ret)
    <3>1. delayed_pause(o) = q
        BY <1>2, <2>4 DEF delayed_pause
    <3> QED BY <2>2, <3>1
  <2> QED BY <2>3, <2>4
<1> QED BY <1>1, <1>2 DEF Fine, Outcome

\* A callback of the runner.
LEMMA RunOnceFine ==
    ASSUME Ground, NEW g, Free(g), NEW p \in run_once(g)
    PROVE  Fine(p) /\ p.op # "Box" /\ GoesOn(g, p.g)
<1>1. g \in Runner /\ g.state \in RunnerState
    BY DEF Free, Runner
<1>2. PICK o : /\ p = delayed_pause(o)
               /\ o \in CASE g.state = "ReadyToStart" ->
                               {Return([switch_to_state(g, "CurrentNodeIniting")
                                          EXCEPT !.ui = "started"], TRUE)}
                          [] g.state = "CurrentNodeIniting" -> state_current_node_initing(g)
                          [] g.state = "Running"            -> state_running(g)
                          [] g.state = "WaitingForPaused"   -> {state_waiting_for_paused(g)}
                          [] g.state = "WaitingForResumed"  -> {state_waiting_for_resumed(g)}
                          [] g.state = "WaitingForStopped"  -> {state_waiting_for_stopped(g)}
                          [] OTHER                          -> {Return(g, TRUE)}
    BY DEF run_once
<1>3. Fine(o) /\ o.op # "Box" /\ GoesOn(g, o.g)
  <2>1. CASE g.state = "ReadyToStart"
    <3> DEFINE s == switch_to_state(g, "CurrentNodeIniting")
               h == [s EXCEPT !.ui = "started"]
    <3>1. o = Return(h, TRUE)
        BY <1>2, <2>1
    <3>2. s \in Runner /\ s.state = "CurrentNodeIniting" /\ s.curr = g.curr
        BY <1>1, SwitchState DEF RunnerState
    <3> HIDE DEF s
    <3>3. /\ h \in Runner /\ h.state = "CurrentNodeIniting" /\ h.ui = "started"
          /\ h.curr = g.curr
        BY <3>2 DEF Runner
    <3> HIDE DEF h
    <3>4. Node(h) = Node(g)
        BY <3>3 DEF Node
    <3>5. NodeInv(h, "Return") /\ MotionInv(h, "Return", "none")
        BY <2>1, <3>3, <3>4
           DEF Free, NodeInv, MotionInv, StateFor, RunnerState, ForcedStop
    <3> QED BY <3>1, <3>3, <3>5 DEF Return, Fine, Outcome, GoesOn
  <2>2. CASE g.state = "CurrentNodeIniting"
      BY <1>2, <2>2, InitingFine
  <2>3. CASE g.state = "Running"
      BY <1>2, <2>3, RunningFine
  <2>4. CASE g.state = "WaitingForPaused"
      BY <1>2, <2>4, WaitingForPausedFine
  <2>5. CASE g.state = "WaitingForResumed"
      BY <1>2, <2>5, WaitingForResumedFine
  <2>6. CASE g.state = "WaitingForStopped"
      BY <1>2, <2>6, WaitingForStoppedFine
  <2>7. CASE g.state \in {"Paused", "Stopped"}
    <3>1. o = Return(g, TRUE)
        BY <1>2, <2>7
    <3> QED BY <1>1, <3>1 DEF Return, Fine, Free, Outcome, GoesOn
  <2> QED BY <1>1, <2>1, <2>2, <2>3, <2>4, <2>5, <2>6, <2>7 DEF RunnerState
<1>4. Fine(p) /\ p.op # "Box" /\ p.g.curr = o.g.curr
    BY <1>2, <1>3, DelayedPauseFine
<1> QED BY <1>3, <1>4 DEF GoesOn

\* A wait whose command was accepted, ignored, or given up.
Over(op, ans, ok) ==
    \/ ans = "accepted" /\ ok = TRUE
    \/ ans = "ignored" /\ ok = FALSE
    \/ /\ ans = "none" /\ ok = FALSE
       /\ op \in {"Start", "Ack", "PanelAck", "StartPointMove", "StopPointMove"}

\* Outside a forced stop, and before a command is accepted, a runner that
\* waits is one that may be left to itself.
LEMMA LetGo ==
    ASSUME NEW g \in Runner, NEW op, NEW ans, NodeInv(g, op), MotionInv(g, op, ans),
           op \notin {"Abort", "Start", "Estop", "StopEstop"} \/ ans # "accepted",
           op \notin ForcedStop
    PROVE  op \notin {"Stop", "StopPausing", "Resume"} \/ ans # "accepted" => Free(g)
<1>1. NodeInv(g, "Return")
    BY DEF NodeInv, StateFor, Runner
<1>2. ASSUME op \notin {"Stop", "StopPausing", "Resume"} \/ ans # "accepted"
      PROVE  MotionInv(g, "Return", "none")
    BY <1>2 DEF MotionInv, ForcedStop
<1> QED BY <1>1, <1>2 DEF Free

\* Entering one of the waiting states.
LEMMA AwaitFine ==
    ASSUME NEW g \in Runner, NEW op, NodeInv(g, op), NEW h \in Runner, NEW ret \in BOOLEAN,
           h.curr = g.curr, h.ui = g.ui, g.state # "Stopped", Node(g) \in Motion,
           \/ h.state \in {"WaitingForPaused", "WaitingForResumed"} /\ OwnTask(g)
           \/ h.state = "WaitingForStopped"
    PROVE  Fine(Return(h, ret))
<1>1. Node(h) = Node(g) /\ OwnTask(h) = OwnTask(g)
    BY DEF Node, OwnTask
<1>2. NodeInv(h, "Return")
    BY <1>1 DEF NodeInv, StateFor, RunnerState
<1>3. MotionInv(h, "Return", "none")
    BY <1>1 DEF MotionInv, ForcedStop
<1> QED BY <1>2, <1>3 DEF Return, Fine, Outcome

\* What follows a wait.
LEMMA ContinueFine ==
    ASSUME Ground, NEW g \in Runner, NEW f \in Frame, NEW ans, NEW ok \in BOOLEAN,
           NodeInv(g, f.op), MotionInv(g, f.op, ans), Over(f.op, ans, ok)
    PROVE  LET o == continue(g, f, ok)
           IN  /\ Fine(o)
               /\ \/ o.g.curr = g.curr
                  \/ /\ o.g.curr = g.curr + 1 /\ f.op = "Ack"
                     /\ g.state = "Running" /\ mode # "Auto"
               /\ ans = "none" /\ f.op = "Start" => o.op = "Abort"
               /\ o.op = "Box" => f.op = "Abort"
<1> DEFINE o == continue(g, f, ok)
<1>0. f.op \in Waits
    BY DEF Frame
<1>1. CASE f.op = "Start"
  <2>1. CASE ok
    <3> DEFINE s == switch_to_state(g, "Running")
    <3>1. o = Return(s, TRUE)
        BY <1>1, <2>1 DEF continue, start_answered
    <3>2. s \in Runner /\ s.state = "Running" /\ s.curr = g.curr /\ s.ui = g.ui
          /\ s.delay = g.delay
        BY SwitchState DEF RunnerState
    <3> HIDE DEF s
    <3>3. ans = "accepted" /\ Node(s) = Node(g) /\ OwnTask(s) = OwnTask(g)
        BY <2>1, <3>2 DEF Over, Node, OwnTask
    <3>4. NodeInv(s, "Return")
        BY <1>1, <3>2, <3>3 DEF NodeInv, StateFor, RunnerState
    <3>5. MotionInv(s, "Return", "none")
        BY <1>1, <3>2, <3>3 DEF NodeInv, MotionInv, ForcedStop
    <3>6. Fine(o) /\ o.op = "Return" /\ o.g.curr = g.curr
        BY <3>1, <3>2, <3>4, <3>5 DEF Return, Fine, Outcome
    <3> QED BY <1>1, <3>3, <3>6
  <2>2. CASE ~ok
    <3>1. Free(g)
        BY <1>1, <2>2, LetGo DEF Over, ForcedStop
    <3>2. o = Wait(g, "Abort")
        BY <1>1, <2>2 DEF continue, start_answered
    <3> QED BY <1>1, <3>1, <3>2, AbortFine DEF Wait
  <2> QED BY <2>1, <2>2
<1>2. CASE f.op = "Ack"
  <2>1. Free(g)
      BY <1>2, LetGo DEF ForcedStop
  <2>2. /\ mode # "Auto" /\ g.state = "Running" /\ Node(g) \in Motion /\ Node(g) # "M02"
      BY <1>2 DEF MotionInv, NodeInv, StateFor, Motion
  <2>3. CASE ok
    <3>1. o = check_to_next_gcode(g)
        BY <1>2, <2>3 DEF continue
    <3> QED BY <1>2, <2>1, <2>2, <3>1, NextNodeFine DEF Ground, Free, Rests
  <2>4. CASE ~ok
    <3>1. o = Wait(g, "Abort")
        BY <1>2, <2>4 DEF continue
    <3> QED BY <1>2, <2>1, <3>1, AbortFine DEF Wait
  <2> QED BY <2>3, <2>4
<1>3. CASE f.op = "Pause"
  <2>1. Free(g)
      BY <1>3, LetGo DEF ForcedStop
  <2>2. g.state \in {"Running", "WaitingForResumed"} /\ Node(g) \in Motion /\ OwnTask(g)
      BY <1>3 DEF MotionInv, NodeInv, StateFor, ForcedStop
  <2>3. CASE ok
    <3> DEFINE s == switch_to_state(g, "WaitingForPaused")
               h == [s EXCEPT !.delay = IF f.by = "U" THEN @ ELSE FALSE]
    <3>1. o = Return(h, TRUE)
        BY <1>3, <2>3 DEF continue
    <3>2. s \in Runner /\ s.state = "WaitingForPaused" /\ s.curr = g.curr /\ s.ui = g.ui
        BY SwitchState DEF RunnerState
    <3> HIDE DEF s
    <3>3. s.delay \in BOOLEAN
        BY <3>2 DEF Runner
    <3>4. h \in Runner /\ h.state = "WaitingForPaused" /\ h.curr = g.curr /\ h.ui = g.ui
        BY <3>2, <3>3 DEF Runner
    <3> HIDE DEF h
    <3>5. Fine(Return(h, TRUE))
        BY <1>3, <2>2, <3>4, AwaitFine
    <3> QED BY <1>3, <3>1, <3>4, <3>5 DEF Return
  <2>4. CASE ~ok
    <3> DEFINE h == [g EXCEPT !.delay = TRUE]
    <3>1. o = Return(h, FALSE)
        BY <1>3, <2>4 DEF continue
    <3>2. h \in Runner /\ h.state = g.state /\ h.curr = g.curr /\ h.ui = g.ui
        BY DEF Runner
    <3> HIDE DEF h
    <3>3. Node(h) = Node(g) /\ OwnTask(h) = OwnTask(g)
        BY <3>2 DEF Node, OwnTask
    <3>4. NodeInv(h, "Return") /\ MotionInv(h, "Return", "none")
        BY <2>1, <2>2, <3>2, <3>3 DEF Free, NodeInv, MotionInv
    <3> QED BY <1>3, <3>1, <3>2, <3>4 DEF Return, Fine, Outcome
  <2> QED BY <2>3, <2>4
<1>4. CASE f.op = "Resume"
  <2>1. g.state = "Paused" /\ Node(g) \in Motion /\ OwnTask(g)
      BY <1>4 DEF MotionInv, NodeInv, StateFor, ForcedStop
  <2>2. CASE ok
    <3> DEFINE s == switch_to_state(g, "WaitingForResumed")
    <3>1. o = Return(s, ok)
        BY <1>4, <2>2 DEF continue
    <3>2. s \in Runner /\ s.state = "WaitingForResumed" /\ s.curr = g.curr /\ s.ui = g.ui
        BY SwitchState DEF RunnerState
    <3> HIDE DEF s
    <3>3. Fine(Return(s, ok))
        BY <1>4, <2>1, <3>2, AwaitFine
    <3> QED BY <1>4, <3>1, <3>2, <3>3 DEF Return
  <2>3. CASE ~ok
    <3>1. Free(g)
        BY <1>4, <2>3, LetGo DEF ForcedStop, Over
    <3>2. o = Return(g, ok)
        BY <1>4, <2>3 DEF continue
    <3> QED BY <1>4, <3>1, <3>2 DEF Return, Fine, Free, Outcome
  <2> QED BY <2>2, <2>3
<1>5. CASE f.op \in {"Stop", "StopPausing"} /\ ok
  <2> DEFINE s == switch_to_state(g, "WaitingForStopped")
  <2>1. o = Return(s, TRUE)
      BY <1>5 DEF continue, stop_answered
  <2>2. s \in Runner /\ s.state = "WaitingForStopped" /\ s.curr = g.curr /\ s.ui = g.ui
      BY SwitchState DEF RunnerState
  <2> HIDE DEF s
  <2>3. g.state # "Stopped" /\ Node(g) \in Motion
      BY <1>5 DEF NodeInv, StateFor
  <2>4. Fine(Return(s, TRUE))
      BY <1>5, <2>2, <2>3, AwaitFine
  <2>5. Fine(o) /\ o.op = "Return" /\ o.g.curr = g.curr
      BY <2>1, <2>2, <2>4 DEF Return
  <2> QED BY <1>5, <2>5
<1>6. CASE f.op = "Stop" /\ ~ok
  <2>1. o = Wait(g, "StopEstop")
      BY <1>6 DEF continue, stop_answered
  <2>2. NodeInv(g, "StopEstop")
      BY <1>6 DEF NodeInv, StateFor
  <2>3. MotionInv(g, "StopEstop", "none")
      BY <1>6 DEF NodeInv, MotionInv, StateFor, ForcedStop
  <2> QED BY <1>6, <2>1, <2>2, <2>3 DEF Wait, Fine, Outcome, Waits
<1>7. CASE f.op = "StopPausing" /\ ~ok
  <2>1. Free(g)
      BY <1>7, LetGo DEF ForcedStop, Over
  <2>2. o = Return(g, ok)
      BY <1>7 DEF continue
  <2> QED BY <1>7, <2>1, <2>2 DEF Return, Fine, Free, Outcome
<1>8. CASE f.op \in ForcedStop
  <2>1. mode # "Auto" /\ NodeInv(g, "Return") /\ g.state \in RunnerState
      BY <1>8 DEF MotionInv, NodeInv, StateFor, ForcedStop, Over, Runner
  <2>2. CASE f.op = "StopEstop"
    <3>1. o = Return(end(g), TRUE)
        BY <2>2 DEF continue
    <3>2. Fine([g |-> end(g), op |-> "Return", ret |-> TRUE])
        BY <2>1, StoppedFine, ResetState DEF Rests
    <3> QED BY <2>2, <3>1, <3>2, ResetState DEF Return
  <2>3. CASE f.op = "Abort"
    <3>1. o = Wait(aborted(g), "Box")
        BY <2>3 DEF continue
    <3>2. Fine([g |-> end(g), op |-> "Box", ret |-> FALSE])
        BY <2>1, StoppedFine, ResetState DEF Rests
    <3>3. aborted(g) = end(g) /\ end(g).curr = g.curr
        BY ResetState
    <3>4. Fine(o) /\ o.op = "Box" /\ o.g.curr = g.curr
        BY <3>1, <3>2, <3>3 DEF Wait
    <3> QED BY <2>3, <3>4
  <2>4. CASE f.op = "Estop" /\ g.state = "Stopped"
    <3>1. o = Return(reset_state(g), TRUE)
        BY <2>4 DEF continue
    <3>2. reset_state(g).ui = "init"
        BY <2>1, <2>4, ResetState DEF NodeInv
    <3>3. Fine([g |-> reset_state(g), op |-> "Return", ret |-> TRUE])
        BY <2>1, <3>2, StoppedFine, ResetState DEF Rests
    <3> QED BY <2>4, <3>1, <3>3, ResetState DEF Return
  <2>5. CASE f.op = "Estop" /\ g.state # "Stopped"
    <3>1. o = Wait(g, "Abort")
        BY <2>5 DEF continue
    <3>2. NodeInv(g, "Abort") /\ MotionInv(g, "Abort", "none")
        BY <2>1 DEF NodeInv, MotionInv, StateFor, ForcedStop
    <3> QED BY <2>5, <3>1, <3>2 DEF Wait, Fine, Outcome, Waits
  <2> QED BY <1>8, <2>2, <2>3, <2>4, <2>5 DEF ForcedStop
<1>9. CASE f.op \in {"Box", "PanelAck", "StartPointMove", "StopPointMove"}
  <2>1. Free(g)
      BY <1>9, LetGo DEF ForcedStop
  <2>2. o = Return(g, ok)
      BY <1>9 DEF continue
  <2> QED BY <1>9, <2>1, <2>2 DEF Return, Fine, Free, Outcome
<1> QED BY <1>0, <1>1, <1>2, <1>3, <1>4, <1>5, <1>6, <1>7, <1>8, <1>9 DEF Waits, ForcedStop

----------------------------------------------------------------------------
(* The interface thread.                                                   *)

\* The parameters and the bounds of a scenario.
LEMMA Parameters ==
    ASSUME TypeInv
    PROVE  /\ Programs \subseteq Seq(Motion \cup Local) /\ <<>> \notin Programs
           /\ MaxShots \in Nat /\ MaxDepth \in Nat /\ MaxQueue \in Nat /\ SignalCap \in Nat
BY RunnerAssumption DEF TypeInv, Programs, MaxShots, MaxDepth

LEMMA AppendAt ==
    ASSUME NEW S, NEW s \in Seq(S), NEW e \in S
    PROVE  /\ Append(s, e) \in Seq(S) /\ Append(s, e) # <<>>
           /\ Len(s) \in Nat /\ Len(Append(s, e)) = Len(s) + 1
           /\ DOMAIN s = 1..Len(s) /\ DOMAIN Append(s, e) = 1..(Len(s) + 1)
           /\ \A i \in 1..Len(s) : Append(s, e)[i] = s[i]
           /\ Append(s, e)[Len(s) + 1] = e
OBVIOUS

\* The command that a wait sends is one of those expected of it.
LEMMA CommandKind ==
    ASSUME NEW g, NEW op \in Waits \ {"Box"}, op = "Start" => Node(g) \in Motion
    PROVE  CommandOf(g, op) \in CommandFor(op) /\ CommandOf(g, op) \in Commands
BY DEF CommandOf, CommandFor, Waits, Commands, Motion

\* A handler ends, opens the message box or waits, with a fine outcome.
LEMMA BecomeKeeps ==
    ASSUME TypeInv, NEW o \in Outcome, o.op = "Start" => Node(o.g) \in Motion,
           NodeInv(o.g, o.op)', MotionInv(o.g, o.op, "none")',
           NEW by \in {"T", "S", "G", "U"}, NEW below \in Seq(Frame),
           \A d \in DOMAIN below : below[d].op = "Box" /\ below[d].ans = "accepted",
           NEW queue \in Seq(Request), Len(queue) <= MaxQueue,
           \A c \in DOMAIN queue : /\ queue[c].owner = 0 /\ queue[c].kind \in Timed
                                   /\ queue[c].kind \in Motion => o.op = "Abort",
           Become(o, by, below, queue)
    PROVE  /\ gr' \in Runner /\ gr'.shots <= MaxShots' /\ gr'.curr = o.g.curr
           /\ stack' \in Seq(Frame)
           /\ cmds' \in Seq(Request) /\ Len(cmds') <= MaxQueue
           /\ WaitInv' /\ NodeInv(gr, Held)' /\ MotionInv(gr, Held, Answer)'
<1>0. o.g \in Runner /\ o.op \in Waits \cup {"Return"}
    BY DEF Outcome
<1>1. /\ gr' \in Runner /\ gr'.curr = o.g.curr /\ gr'.state = o.g.state
      /\ gr'.ui = o.g.ui /\ gr'.delay = o.g.delay
    BY <1>0 DEF Become, Runner
<1>2. gr'.shots <= MaxShots'
    BY DEF Become, MaxShots
<1>3. \A op, ans : /\ NodeInv(o.g, op)' => NodeInv(gr, op)'
                   /\ MotionInv(o.g, op, ans)' => MotionInv(gr, op, ans)'
  <2>1. Node(gr)' = Node(o.g)' /\ OwnTask(gr)' = OwnTask(o.g)'
      BY <1>1 DEF Node, OwnTask
  <2>2. \A op : NodeInv(o.g, op)' => NodeInv(gr, op)'
      BY <1>1, <2>1 DEF NodeInv
  <2>3. \A op, ans : MotionInv(o.g, op, ans)' => MotionInv(gr, op, ans)'
      BY <1>1, <2>1 DEF MotionInv
  <2> QED BY <2>2, <2>3
<1>4. /\ NodeInv(gr, o.op)' /\ MotionInv(gr, o.op, "none")'
    BY <1>3
<1>5. ASSUME o.op \in {"Return", "Box"}, NEW op \in {"Return", "Box"}, NEW ans
      PROVE  NodeInv(gr, op)' /\ MotionInv(gr, op, ans)'
  <2>1. NodeInv(gr, op)'
      BY <1>4, <1>5 DEF NodeInv, StateFor
  <2>2. MotionInv(gr, op, ans)'
      BY <1>4, <1>5 DEF MotionInv, ForcedStop
  <2> QED BY <2>1, <2>2
<1>6. CASE o.op = "Return" /\ stack' = below /\ cmds' = queue
  <2>1. WaitInv'
      BY <1>6 DEF WaitInv, Motion
  <2>2. Held' \in {"Return", "Box"}
      BY <1>6 DEF Held, Top
  <2>3. NodeInv(gr, Held)' /\ MotionInv(gr, Held, Answer)'
    <3>1. PICK op, ans : op = Held' /\ ans = Answer'
        OBVIOUS
    <3>2. NodeInv(gr, op)' /\ MotionInv(gr, op, ans)'
        BY <1>5, <1>6, <2>2, <3>1
    <3> QED BY <3>1, <3>2 DEF NodeInv, MotionInv
  <2> QED BY <1>1, <1>2, <1>6, <2>1, <2>3
<1>7. CASE /\ o.op = "Box" /\ cmds' = queue
           /\ stack' = Append(below, [op |-> "Box", by |-> by, cmd |-> "none", ans |-> "accepted"])
  <2> DEFINE e == [op |-> "Box", by |-> by, cmd |-> "none", ans |-> "accepted"]
  <2>1. e \in Frame
      BY DEF Frame, Waits
  <2>2. /\ stack' \in Seq(Frame) /\ stack' # <<>>
        /\ Len(below) \in Nat /\ Len(stack') = Len(below) + 1
        /\ DOMAIN below = 1..Len(below) /\ DOMAIN stack' = 1..(Len(below) + 1)
        /\ \A i \in 1..Len(below) : stack'[i] = below[i]
        /\ stack'[Len(below) + 1] = e
      BY <1>7, <2>1, AppendAt
  <2>3. \A d \in DOMAIN stack' : stack'[d].op = "Box" /\ stack'[d].ans = "accepted"
    <3>1. TAKE d \in DOMAIN stack'
    <3>2. CASE d \in 1..Len(below)
        BY <2>2, <3>2
    <3>3. CASE d = Len(below) + 1
        BY <2>2, <3>3
    <3> QED BY <2>2, <3>2, <3>3
  <2>4. WaitInv'
      BY <1>7, <2>3 DEF WaitInv, Motion
  <2>5. Held' = "Box" /\ Answer' = "accepted"
      BY <2>2 DEF Held, Answer, Top
  <2>6. NodeInv(gr, "Box")' /\ MotionInv(gr, "Box", "accepted")'
      BY <1>5, <1>7
  <2>7. NodeInv(gr, Held)' /\ MotionInv(gr, Held, Answer)'
      BY <2>5, <2>6
  <2> QED BY <1>1, <1>2, <1>7, <2>2, <2>4, <2>7
<1>8. CASE /\ o.op \notin {"Return", "Box"} /\ Len(queue) < MaxQueue
           /\ LET kind == CommandOf(o.g, o.op)
                  d    == Len(below) + 1
              IN  /\ stack' = Append(below, [op |-> o.op, by |-> by, cmd |-> kind, ans |-> "none"])
                  /\ cmds' = Append(queue, [kind |-> kind, node |-> o.g.curr, owner |-> d])
  <2>0. PICK kind : kind = CommandOf(o.g, o.op)
      OBVIOUS
  <2>1. o.op \in Waits \ {"Box"} /\ kind \in CommandFor(o.op) /\ kind \in Commands
      BY <1>0, <1>8, <2>0, CommandKind
  <2> DEFINE e == [op |-> o.op, by |-> by, cmd |-> kind, ans |-> "none"]
             c == [kind |-> kind, node |-> o.g.curr, owner |-> Len(below) + 1]
  <2>2. e \in Frame /\ c \in Request
      BY <1>0, <2>1 DEF Frame, Request, Runner
  <2>3. /\ stack' \in Seq(Frame) /\ stack' # <<>>
        /\ Len(below) \in Nat /\ Len(stack') = Len(below) + 1
        /\ DOMAIN below = 1..Len(below) /\ DOMAIN stack' = 1..(Len(below) + 1)
        /\ \A i \in 1..Len(below) : stack'[i] = below[i]
        /\ stack'[Len(below) + 1] = e
      BY <1>8, <2>0, <2>2, AppendAt
  <2>4. /\ cmds' \in Seq(Request) /\ cmds' # <<>>
        /\ Len(queue) \in Nat /\ Len(cmds') = Len(queue) + 1
        /\ DOMAIN queue = 1..Len(queue) /\ DOMAIN cmds' = 1..(Len(queue) + 1)
        /\ \A i \in 1..Len(queue) : cmds'[i] = queue[i]
        /\ cmds'[Len(queue) + 1] = c
      BY <1>8, <2>0, <2>2, AppendAt
  <2>5. Top' = e
      BY <2>3 DEF Top
  <2>6. Held' = o.op /\ Answer' = "none"
      BY <2>3, <2>5 DEF Held, Answer
  <2>7. NodeInv(gr, Held)' /\ MotionInv(gr, Held, Answer)'
      BY <1>4, <2>6
  <2>8. Len(cmds') <= MaxQueue
      BY <1>8, <2>4, Parameters
  <2>9. ASSUME NEW d \in DOMAIN stack'
        PROVE  /\ d # Len(stack') => stack'[d].op = "Box"
               /\ stack'[d].op = "Box" => stack'[d].ans = "accepted"
               /\ stack'[d].op # "Box" => stack'[d].cmd \in CommandFor(stack'[d].op)
               /\ stack'[d].ans = "none" =>
                    /\ cmds' # <<>>
                    /\ cmds'[Len(cmds')].owner = d /\ cmds'[Len(cmds')].kind = stack'[d].cmd
                    /\ stack'[d].op = "Start" => cmds'[Len(cmds')].node = gr'.curr
    <3>1. CASE d \in 1..Len(below)
        BY <2>3, <3>1
    <3>2. CASE d = Len(below) + 1
        BY <1>1, <2>1, <2>3, <2>4, <3>2
    <3> QED BY <2>3, <2>9, <3>1, <3>2
  <2>10. ASSUME NEW i \in DOMAIN cmds'
         PROVE  /\ cmds'[i].owner # 0 =>
                     /\ i = Len(cmds')
                     /\ stack' # <<>> /\ cmds'[i].owner = Len(stack') /\ Top'.ans = "none"
                /\ cmds'[i].owner = 0 =>
                     /\ cmds'[i].kind \in Timed
                     /\ cmds'[i].kind \in Motion =>
                          stack' # <<>> /\ Top'.op = "Abort" /\ Top'.ans = "none"
    <3>1. CASE i \in 1..Len(queue)
        BY <2>3, <2>4, <2>5, <3>1
    <3>2. CASE i = Len(queue) + 1
        BY <2>3, <2>4, <2>5, <3>2
    <3> QED BY <2>4, <2>10, <3>1, <3>2
  <2>11. WaitInv'
      BY <2>9, <2>10 DEF WaitInv, Motion, CommandFor, Timed
  <2> QED BY <1>1, <1>2, <2>3, <2>4, <2>7, <2>8, <2>11
<1> QED BY <1>6, <1>7, <1>8 DEF Become

\* What callbacks and operations find: a runner nobody waits for, message
\* boxes, and commands that were given up, none of them a start.
LEMMA AtLarge ==
    ASSUME GInv, Served \/ stack = <<>>
    PROVE  /\ Ground /\ Free(gr)
           /\ \A d \in DOMAIN stack : stack[d].op = "Box" /\ stack[d].ans = "accepted"
           /\ \A c \in DOMAIN cmds : /\ cmds[c].owner = 0 /\ cmds[c].kind \in Timed
                                     /\ cmds[c].kind \notin Motion
<1>1. Ground
    BY Parameters DEF GInv, TypeInv, Ground
<1>2. stack \in Seq(Frame) /\ gr \in Runner
    BY DEF GInv, TypeInv
<1>3. stack # <<>> => Top.op = "Box" /\ Top.ans = "accepted"
  <2>1. SUFFICES ASSUME stack # <<>> PROVE Top.op = "Box" /\ Top.ans = "accepted"
      OBVIOUS
  <2>2. Len(stack) \in DOMAIN stack
      BY <1>2, <2>1
  <2>3. "Reentry" \notin Faults /\ "LongRound" \notin Faults
      BY DEF GInv, Undisturbed
  <2>4. stack[Len(stack)].op = "Box"
      BY <2>1, <2>2, <2>3 DEF Served
  <2> QED BY <2>2, <2>4 DEF GInv, WaitInv, Top
<1>4. \A d \in DOMAIN stack : stack[d].op = "Box" /\ stack[d].ans = "accepted"
  <2>1. TAKE d \in DOMAIN stack
  <2>2. stack # <<>>
      BY <1>2
  <2> QED BY <1>3, <2>2 DEF GInv, WaitInv, Top
<1>5. \A c \in DOMAIN cmds : /\ cmds[c].owner = 0 /\ cmds[c].kind \in Timed
                             /\ cmds[c].kind \notin Motion
    BY <1>3 DEF GInv, WaitInv
<1>6. Held \in {"Return", "Box"}
    BY <1>3 DEF Held
<1>7. NodeInv(gr, Held) /\ MotionInv(gr, Held, Answer)
    BY DEF GInv
<1>8. NodeInv(gr, "Return")
    BY <1>6, <1>7 DEF NodeInv, StateFor
<1>9. MotionInv(gr, "Return", "none")
    BY <1>6, <1>7 DEF MotionInv, ForcedStop
<1> QED BY <1>1, <1>2, <1>4, <1>5, <1>8, <1>9 DEF Free

\* A handler with a fine outcome keeps the invariant.
LEMMA HandlerKeeps ==
    ASSUME GInv, NEW o, Fine(o), prog' = prog, sigs' \in 0..SignalCap,
           NEW by \in {"T", "S", "G", "U"}, NEW below \in Seq(Frame),
           \A d \in DOMAIN below : below[d].op = "Box" /\ below[d].ans = "accepted",
           NEW queue \in Seq(Request), Len(queue) <= MaxQueue,
           \A c \in DOMAIN queue : /\ queue[c].owner = 0 /\ queue[c].kind \in Timed
                                   /\ queue[c].kind \in Motion => o.op = "Abort",
           Become(o, by, below, queue)
    PROVE  GInv' /\ gr'.curr = o.g.curr
<1>1. /\ TypeInv /\ o \in Outcome /\ NodeInv(o.g, o.op) /\ MotionInv(o.g, o.op, "none")
    BY DEF GInv, Fine
<1>2. UNCHANGED <<mode, auto, warning, up, raised, info, pc, task, scenario>>
    BY DEF Become, serviceVars
<1>3. o.op = "Start" => Node(o.g) \in Motion
    BY <1>1 DEF NodeInv
<1>4. NodeInv(o.g, o.op)'
    BY <1>1 DEF NodeInv, Node
<1>5. MotionInv(o.g, o.op, "none")'
    BY <1>1, <1>2 DEF MotionInv, Node, OwnTask, Rests, HeldPaused
<1>6. /\ gr' \in Runner /\ gr'.shots <= MaxShots' /\ gr'.curr = o.g.curr
      /\ stack' \in Seq(Frame)
      /\ cmds' \in Seq(Request) /\ Len(cmds') <= MaxQueue
      /\ WaitInv' /\ NodeInv(gr, Held)' /\ MotionInv(gr, Held, Answer)'
    BY <1>1, <1>3, <1>4, <1>5, BecomeKeeps
<1>7. TypeInv'
    BY <1>1, <1>2, <1>6 DEF TypeInv, ServiceTypeOK, Programs
<1>8. InfoInv' /\ Undisturbed'
    BY <1>2 DEF GInv, InfoInv, Rests, HeldPaused, Undisturbed, Faults
<1> QED BY <1>6, <1>7, <1>8 DEF GInv

\* The callbacks of the runner: its timer, a signal and a single-shot timer.
LEMMA CallbackKeeps ==
    ASSUME GInv, Served, NEW g, NEW by \in {"T", "S", "G"},
           \/ g \in {gr, [gr EXCEPT !.timer = "firing"]}
           \/ gr.shots > 0 /\ g = [gr EXCEPT !.shots = @ - 1],
           prog' = prog, sigs' \in 0..SignalCap,
           NEW o \in run_once(g), Become(o, by, stack, cmds)
    PROVE  GInv' /\ gr'.curr = o.g.curr /\ GoesOn(gr, o.g)
<1>1. /\ Ground /\ Free(gr)
      /\ \A d \in DOMAIN stack : stack[d].op = "Box" /\ stack[d].ans = "accepted"
      /\ \A c \in DOMAIN cmds : /\ cmds[c].owner = 0 /\ cmds[c].kind \in Timed
                                /\ cmds[c].kind \notin Motion
    BY AtLarge
<1>2. /\ stack \in Seq(Frame) /\ cmds \in Seq(Request) /\ Len(cmds) <= MaxQueue
      /\ gr \in Runner
    BY DEF GInv, TypeInv
<1>3. /\ g \in Runner /\ g.curr = gr.curr /\ g.state = gr.state /\ g.ui = gr.ui
      /\ g.delay = gr.delay
    BY <1>2 DEF Runner
<1>4. Free(g)
    BY <1>1, <1>3, SameRunner DEF Free
<1>5. Fine(o) /\ GoesOn(g, o.g)
    BY <1>1, <1>4, RunOnceFine
<1>6. GInv' /\ gr'.curr = o.g.curr
    BY <1>1, <1>2, <1>5, HandlerKeeps
<1> QED BY <1>3, <1>5, <1>6 DEF GoesOn, Node

\* An operation of a panel.
LEMMA OperationKeeps ==
    ASSUME GInv, NEW op, NEW o, Fine(o), Operation(op, o)
    PROVE  GInv' /\ gr'.curr = o.g.curr
<1>1. Served \/ stack = <<>>
    BY DEF Operation, Asked
<1>2. /\ \A d \in DOMAIN stack : stack[d].op = "Box" /\ stack[d].ans = "accepted"
      /\ \A c \in DOMAIN cmds : /\ cmds[c].owner = 0 /\ cmds[c].kind \in Timed
                                /\ cmds[c].kind \notin Motion
    BY <1>1, AtLarge
<1>3. /\ stack \in Seq(Frame) /\ cmds \in Seq(Request) /\ Len(cmds) <= MaxQueue
      /\ sigs \in 0..SignalCap
    BY DEF GInv, TypeInv
<1> QED BY <1>2, <1>3, HandlerKeeps DEF Operation

\* A new program may be started in Idle only; it is checked first.
LEMMA StartKeeps ==
    ASSUME GInv, OpStart
    PROVE  GInv' /\ gr.state = "Stopped"
<1>1. /\ Free(gr)
      /\ \A d \in DOMAIN stack : stack[d].op = "Box" /\ stack[d].ans = "accepted"
      /\ \A c \in DOMAIN cmds : /\ cmds[c].owner = 0 /\ cmds[c].kind \in Timed
                                /\ cmds[c].kind \notin Motion
    BY AtLarge DEF OpStart, Asked
<1>2. /\ stack \in Seq(Frame) /\ cmds \in Seq(Request) /\ Len(cmds) <= MaxQueue
      /\ gr \in Runner /\ sigs \in 0..SignalCap
    BY DEF GInv, TypeInv
<1>3. gr.state = "Stopped" /\ gr.ui = "init" /\ ~gr.delay /\ Rests
    BY <1>1 DEF OpStart, Free, NodeInv, MotionInv, ForcedStop
<1>g. PICK g : g = [gr EXCEPT !.curr = 1]
    OBVIOUS
<1>h. PICK h : h = [g EXCEPT !.state = "ReadyToStart", !.timer = "armed", !.ui = "started"]
    OBVIOUS
<1>4. /\ prog' \in Programs /\ sigs' = sigs
      /\ \/ Become(Wait(g, "Abort"), "U", stack, cmds)
         \/ prog'[Len(prog')] = "M02" /\ Become(Return(h, TRUE), "U", stack, cmds)
    BY <1>3, <1>g, <1>h DEF OpStart
<1>5. prog' \in Seq(Motion \cup Local) /\ prog' # <<>>
    BY <1>4, Parameters DEF GInv
<1>6. 1 \in DOMAIN prog'
    BY <1>5
<1>7. /\ g \in Runner /\ g.state = "Stopped" /\ g.ui = "init" /\ ~g.delay /\ g.curr = 1
    BY <1>2, <1>3, <1>g DEF Runner
<1>8. /\ h \in Runner /\ h.state = "ReadyToStart" /\ h.ui = "started" /\ h.curr = 1
    BY <1>7, <1>h DEF Runner, RunnerState
<1>9. UNCHANGED <<mode, auto, warning, up, raised, info, pc, task, scenario>>
    BY <1>4 DEF Become, serviceVars
<1>10. PICK o : /\ Become(o, "U", stack, cmds)
                /\ \/ o = Wait(g, "Abort")
                   \/ o = Return(h, TRUE) /\ prog'[Len(prog')] = "M02"
    BY <1>4
<1>11. /\ o \in Outcome /\ o.op # "Start"
       /\ NodeInv(o.g, o.op)' /\ MotionInv(o.g, o.op, "none")'
  <2>1. CASE o = Wait(g, "Abort")
    <3>1. NodeInv(g, "Abort")'
        BY <1>5, <1>6, <1>7 DEF NodeInv, StateFor, RunnerState
    <3>2. MotionInv(g, "Abort", "none")'
        BY DEF MotionInv, ForcedStop
    <3> QED BY <1>7, <2>1, <3>1, <3>2 DEF Wait, Outcome, Waits
  <2>2. CASE o = Return(h, TRUE) /\ prog'[Len(prog')] = "M02"
    <3>1. NodeInv(h, "Return")'
        BY <1>5, <1>6, <1>8, <2>2 DEF NodeInv, StateFor, RunnerState
    <3>2. MotionInv(h, "Return", "none")'
        BY <1>3, <1>8, <1>9 DEF MotionInv, ForcedStop, Rests
    <3> QED BY <1>8, <2>2, <3>1, <3>2 DEF Return, Outcome
  <2> QED BY <1>10, <2>1, <2>2
<1>12. TypeInv
    BY DEF GInv
<1>13. /\ gr' \in Runner /\ gr'.shots <= MaxShots'
       /\ stack' \in Seq(Frame)
       /\ cmds' \in Seq(Request) /\ Len(cmds') <= MaxQueue
       /\ WaitInv' /\ NodeInv(gr, Held)' /\ MotionInv(gr, Held, Answer)'
    BY <1>1, <1>2, <1>10, <1>11, <1>12, BecomeKeeps
<1>14. TypeInv'
    BY <1>4, <1>9, <1>12, <1>13 DEF TypeInv, ServiceTypeOK, Programs
<1>15. InfoInv' /\ Undisturbed'
    BY <1>9 DEF GInv, InfoInv, Rests, HeldPaused, Undisturbed, Faults
<1> QED BY <1>3, <1>13, <1>14, <1>15 DEF GInv

\* The rest of a handler, with the look at the flag where _run_once waited.
LEMMA ContinuedFine ==
    ASSUME GInv, stack # <<>>, NEW ok \in BOOLEAN, Over(Top.op, Top.ans, ok)
    PROVE  LET o == Continued(ok)
           IN  /\ Fine(o)
               /\ \/ o.g.curr = gr.curr
                  \/ /\ o.g.curr = gr.curr + 1 /\ Held = "Ack"
                     /\ gr.state = "Running" /\ mode # "Auto"
               /\ Top.ans = "none" /\ Top.op = "Start" => o.op = "Abort"
<1> DEFINE o == continue(gr, Top, ok)
<1>1. Ground /\ gr \in Runner /\ stack \in Seq(Frame)
    BY Parameters DEF GInv, TypeInv, Ground
<1>2. Top \in Frame
    BY <1>1 DEF Top
<1>3. Held = Top.op /\ Answer = Top.ans
    BY DEF Held, Answer
<1>4. NodeInv(gr, Top.op) /\ MotionInv(gr, Top.op, Top.ans)
    BY <1>3 DEF GInv
<1>5. /\ Fine(o)
      /\ \/ o.g.curr = gr.curr
         \/ /\ o.g.curr = gr.curr + 1 /\ Held = "Ack"
            /\ gr.state = "Running" /\ mode # "Auto"
      /\ Top.ans = "none" /\ Top.op = "Start" => o.op = "Abort"
    BY <1>1, <1>2, <1>3, <1>4, ContinueFine
<1> HIDE DEF o
<1>6. CASE o.op = "Box"
  <2>1. Continued(ok) = o
      BY <1>6 DEF Continued, delayed_pause, o
  <2> QED BY <1>5, <2>1
<1>7. CASE o.op # "Box"
  <2>1. /\ Fine(delayed_pause(o)) /\ delayed_pause(o).g.curr = o.g.curr
        /\ o.op = "Abort" => delayed_pause(o) = o
      BY <1>5, <1>7, DelayedPauseFine DEF delayed_pause
  <2>2. Continued(ok) \in {o, delayed_pause(o)}
      BY DEF Continued, o
  <2> QED BY <1>5, <2>1, <2>2
<1> QED BY <1>6, <1>7

\* The frames below the innermost one are message boxes.
LEMMA BelowBoxes ==
    ASSUME GInv, stack # <<>>
    PROVE  /\ Below \in Seq(Frame) /\ Top \in Frame /\ Len(stack) \in DOMAIN stack
           /\ \A d \in DOMAIN Below : Below[d].op = "Box" /\ Below[d].ans = "accepted"
<1>1. stack \in Seq(Frame)
    BY DEF GInv, TypeInv
<1>2. Len(stack) \in Nat \ {0} /\ Top \in Frame /\ Len(stack) \in DOMAIN stack
    BY <1>1 DEF Top
<1>3. /\ Below \in Seq(Frame) /\ Len(Below) = Len(stack) - 1
      /\ \A d \in 1..(Len(stack) - 1) : Below[d] = stack[d]
  <2> DEFINE n == Len(stack) - 1
  <2>1. n \in Nat /\ \A i \in 1..n : stack[i] \in Frame
      BY <1>1, <1>2
  <2> HIDE DEF n
  <2>2. /\ SubSeq(stack, 1, n) \in Seq(Frame)
        /\ Len(SubSeq(stack, 1, n)) = IF 1 <= n THEN n - 1 + 1 ELSE 0
        /\ \A i \in 1..(n - 1 + 1) : SubSeq(stack, 1, n)[i] = stack[1 + i - 1]
      BY <2>1, SubSeqProperties
  <2>3. /\ Len(SubSeq(stack, 1, n)) = n
        /\ \A i \in 1..n : SubSeq(stack, 1, n)[i] = stack[i]
      BY <2>1, <2>2
  <2> QED BY <2>2, <2>3 DEF Below, n
<1>4. \A d \in DOMAIN Below : Below[d].op = "Box" /\ Below[d].ans = "accepted"
    BY <1>1, <1>2, <1>3 DEF GInv, WaitInv
<1> QED BY <1>2, <1>3, <1>4

LEMMA StackLength ==
    ASSUME GInv
    PROVE  Len(stack) \in Nat /\ (stack # <<>> <=> Len(stack) # 0)
BY DEF GInv, TypeInv

LEMMA WaitEndsKeeps ==
    ASSUME GInv, WaitEnds
    PROVE  /\ GInv'
           /\ \/ gr'.curr = gr.curr
              \/ /\ gr'.curr = gr.curr + 1 /\ Held = "Ack"
                 /\ gr.state = "Running" /\ mode # "Auto"
<1> DEFINE ok == Top.ans = "accepted"
           o == Continued(ok)
<1>1. stack # <<>> /\ Top.ans # "none" /\ prog' = prog /\ sigs' = sigs
      /\ Become(o, Top.by, Below, cmds)
    BY DEF WaitEnds
<1>2. /\ Below \in Seq(Frame) /\ Top \in Frame
      /\ \A d \in DOMAIN Below : Below[d].op = "Box" /\ Below[d].ans = "accepted"
    BY <1>1, BelowBoxes
<1>3. Over(Top.op, Top.ans, ok)
    BY <1>1, <1>2 DEF Over, Frame
<1>4. /\ Fine(o)
      /\ \/ o.g.curr = gr.curr
         \/ /\ o.g.curr = gr.curr + 1 /\ Held = "Ack"
            /\ gr.state = "Running" /\ mode # "Auto"
    BY <1>1, <1>3, ContinuedFine
<1>5. /\ cmds \in Seq(Request) /\ Len(cmds) <= MaxQueue /\ sigs \in 0..SignalCap
      /\ Top.by \in {"T", "S", "G", "U"}
    BY <1>2 DEF GInv, TypeInv, Frame
<1>6. \A c \in DOMAIN cmds : /\ cmds[c].owner = 0 /\ cmds[c].kind \in Timed
                             /\ cmds[c].kind \notin Motion
    BY <1>1 DEF GInv, WaitInv
<1> HIDE DEF o
<1>7. GInv' /\ gr'.curr = o.g.curr
    BY <1>1, <1>2, <1>4, <1>5, <1>6, HandlerKeeps
<1> QED BY <1>4, <1>7

LEMMA WaitTimesOutKeeps ==
    ASSUME GInv, WaitTimesOut
    PROVE  /\ GInv'
           /\ \/ gr'.curr = gr.curr
              \/ /\ gr'.curr = gr.curr + 1 /\ Held = "Ack"
                 /\ gr.state = "Running" /\ mode # "Auto"
<1> DEFINE o == Continued(FALSE)
           unheard == [c \in DOMAIN cmds |->
                         IF cmds[c].owner = Len(stack) THEN [cmds[c] EXCEPT !.owner = 0]
                                                       ELSE cmds[c]]
<1>1. stack # <<>> /\ Top.ans = "none" /\ Top.cmd \in Timed /\ prog' = prog /\ sigs' = sigs
      /\ Become(o, Top.by, Below, unheard)
    BY DEF WaitTimesOut
<1>2. /\ Below \in Seq(Frame) /\ Top \in Frame /\ Len(stack) \in DOMAIN stack
      /\ \A d \in DOMAIN Below : Below[d].op = "Box" /\ Below[d].ans = "accepted"
    BY <1>1, BelowBoxes
<1>3. /\ Top.op \in Waits \ {"Box"} /\ Top.cmd \in CommandFor(Top.op)
      /\ cmds # <<>> /\ cmds[Len(cmds)].owner = Len(stack)
      /\ cmds[Len(cmds)].kind = Top.cmd
    BY <1>1, <1>2 DEF GInv, WaitInv, Top, Frame
<1>4. /\ Top.op \in {"Start", "Ack", "PanelAck", "StartPointMove", "StopPointMove"}
      /\ Top.cmd \in Motion => Top.op = "Start"
    BY <1>1, <1>3 DEF CommandFor, Timed, Motion, Waits
<1>5. /\ Fine(o)
      /\ \/ o.g.curr = gr.curr
         \/ /\ o.g.curr = gr.curr + 1 /\ Held = "Ack"
            /\ gr.state = "Running" /\ mode # "Auto"
      /\ Top.op = "Start" => o.op = "Abort"
    BY <1>1, <1>4, ContinuedFine DEF Over
<1>6. /\ cmds \in Seq(Request) /\ Len(cmds) <= MaxQueue /\ sigs \in 0..SignalCap
      /\ Top.by \in {"T", "S", "G", "U"} /\ Len(cmds) \in Nat
    BY <1>2 DEF GInv, TypeInv, Frame
<1>7. \A c \in DOMAIN cmds :
        /\ unheard[c] \in Request /\ unheard[c].owner = 0 /\ unheard[c].kind = cmds[c].kind
        /\ cmds[c].kind \in Timed
        /\ cmds[c].kind \in Motion => o.op = "Abort"
  <2>1. TAKE c \in DOMAIN cmds
  <2>2. cmds[c] \in Request
      BY <1>6
  <2>3. CASE cmds[c].owner = 0
    <3>1. cmds[c].kind \in Timed /\ cmds[c].kind \notin Motion
        BY <1>4, <2>3 DEF GInv, WaitInv
    <3>2. Len(stack) # 0 /\ unheard[c] = cmds[c]
        BY <1>1, <2>3, StackLength
    <3> QED BY <2>2, <2>3, <3>1, <3>2
  <2>4. CASE cmds[c].owner # 0
    <3>1. c = Len(cmds) /\ cmds[c].owner = Len(stack)
        BY <2>4 DEF GInv, WaitInv
    <3>2. unheard[c] = [cmds[c] EXCEPT !.owner = 0]
        BY <3>1
    <3> QED BY <1>1, <1>3, <1>4, <1>5, <2>2, <3>1, <3>2 DEF Request
  <2> QED BY <2>3, <2>4
<1>8. unheard \in Seq(Request) /\ Len(unheard) = Len(cmds) /\ DOMAIN unheard = DOMAIN cmds
  <2>1. DOMAIN cmds = 1..Len(cmds)
      BY <1>6
  <2>2. unheard \in [1..Len(cmds) -> Request]
      BY <1>7, <2>1
  <2> QED BY <1>6, <2>1, <2>2
<1> HIDE DEF o, unheard
<1>9. /\ Len(unheard) <= MaxQueue
      /\ \A c \in DOMAIN unheard : /\ unheard[c].owner = 0 /\ unheard[c].kind \in Timed
                                   /\ unheard[c].kind \in Motion => o.op = "Abort"
    BY <1>6, <1>7, <1>8
<1>10. GInv' /\ gr'.curr = o.g.curr
    BY <1>1, <1>2, <1>5, <1>6, <1>8, <1>9, HandlerKeeps
<1> QED BY <1>5, <1>10

----------------------------------------------------------------------------
(* The motion thread.                                                      *)

\* Where a cycle leads.
LEMMA CycleMoves ==
    ASSUME ServiceTypeOK, Cycle
    PROVE  /\ ServiceTypeOK'
           /\ mode = "Idle" => mode' = "Idle"
           /\ mode # "Auto" => mode' # "Auto"
           /\ mode' = "Auto" /\ auto \in {"Stopping", "Stopped"}
                => auto' \in {"Stopping", "Stopped"}
           /\ Rests => Rests'
           /\ HeldPaused => HeldPaused' \/ (mode' = "Idle" /\ ~raised')
<1>1. CASE Run /\ up' \in BOOLEAN
  <2>1. CASE mode = "Idle"
      BY <1>1, <2>1 DEF Run, ServiceTypeOK, Rests, HeldPaused
  <2>2. CASE mode = "Manual"
      BY <1>1, <2>2 DEF Run, ServiceTypeOK, Rests, HeldPaused
  <2>3. CASE mode = "Auto"
    <3>1. /\ auto' \in AutoStep(auto)
          /\ mode' = IF auto' = "Stopped" THEN "Idle" ELSE mode
          /\ raised' = Reports(auto, auto')
          /\ warning' \in {warning, TRUE}
        BY <1>1, <2>3 DEF Run
    <3>2. raised' \in BOOLEAN
        BY <3>1 DEF Reports
    <3> QED BY <1>1, <2>3, <3>1, <3>2 DEF AutoStep, ServiceTypeOK, Rests, HeldPaused
  <2> QED BY <2>1, <2>2, <2>3 DEF ServiceTypeOK
<1>2. CASE LinkChange /\ up' \in BOOLEAN
    BY <1>2 DEF LinkChange, Reset, ServiceTypeOK, Rests, HeldPaused
<1>3. CASE raised' = FALSE /\ UNCHANGED <<mode, auto, warning, up>>
    BY <1>3 DEF ServiceTypeOK, Rests, HeldPaused
<1> QED BY <1>1, <1>2, <1>3 DEF Cycle

\* What a change of the motion thread must not do to a runner that waits.
LEMMA MotionInvKept ==
    ASSUME NEW g, NEW op, NEW ans, MotionInv(g, op, ans), UNCHANGED prog,
           mode # "Auto" => mode' # "Auto", Rests => Rests', OwnTask(g) => OwnTask(g)',
           HeldPaused => HeldPaused' \/ task'.fate = "lost",
           task.fate = "lost" => task'.fate = "lost"
    PROVE  MotionInv(g, op, ans)'
BY DEF MotionInv, Node

LEMMA MotionCycleKeeps ==
    ASSUME GInv, MotionCycle
    PROVE  GInv'
<1>1. /\ pc = "cycle" /\ pc' = "commands" /\ Cycle
      /\ task' = [task EXCEPT !.fate =
                    IF @ # "running" \/ mode # "Auto" \/ mode' = "Auto" THEN @
                    ELSE IF raised' THEN "ended" ELSE "lost"]
      /\ UNCHANGED <<gr, prog, stack, cmds, scenario, info, sigs>>
    BY DEF MotionCycle, runnerVars
<1>2. /\ ServiceTypeOK'
      /\ mode = "Idle" => mode' = "Idle"
      /\ mode # "Auto" => mode' # "Auto"
      /\ mode' = "Auto" /\ auto \in {"Stopping", "Stopped"}
           => auto' \in {"Stopping", "Stopped"}
      /\ Rests => Rests'
      /\ HeldPaused => HeldPaused' \/ (mode' = "Idle" /\ ~raised')
    BY <1>1, CycleMoves DEF GInv, TypeInv
<1>3. task \in [node : Nat, fate : Fates]
    BY DEF GInv, TypeInv
<1>4. /\ task' \in [node : Nat, fate : Fates] /\ task'.node = task.node
      /\ task'.fate = IF task.fate # "running" \/ mode # "Auto" \/ mode' = "Auto"
                      THEN task.fate
                      ELSE IF raised' THEN "ended" ELSE "lost"
    BY <1>1, <1>3 DEF Fates
<1>5. /\ task'.fate = "running" => mode' = "Auto"
      /\ mode' = "Auto" /\ auto' \notin {"Stopping", "Stopped"} => task'.fate = "running"
    BY <1>2, <1>4 DEF GInv, InfoInv
<1>6. HeldPaused => HeldPaused' \/ task'.fate = "lost"
    BY <1>2, <1>4 DEF GInv, InfoInv, HeldPaused
<1>7. task.fate = "lost" => task'.fate = "lost"
    BY <1>4
<1>8. InfoInv'
    BY <1>1, <1>2, <1>5, <1>6, <1>7 DEF GInv, InfoInv
<1>9. TypeInv' /\ Undisturbed'
    BY <1>1, <1>2, <1>4 DEF GInv, TypeInv, Undisturbed, Faults, MaxShots, Programs
<1>10. WaitInv' /\ NodeInv(gr, Held)'
    BY <1>1 DEF GInv, WaitInv, NodeInv, Held, Top, Node
<1>11. PICK g, op, ans : g = gr /\ op = Held /\ ans = Answer
    OBVIOUS
<1>12. g = gr' /\ op = Held' /\ ans = Answer'
    BY <1>1, <1>11 DEF Held, Answer, Top
<1>13. MotionInv(g, op, ans)
    BY <1>11 DEF GInv
<1>14. OwnTask(g) => OwnTask(g)'
    BY <1>4 DEF OwnTask
<1>15. MotionInv(g, op, ans)'
    BY <1>1, <1>2, <1>6, <1>7, <1>13, <1>14, MotionInvKept
<1>16. MotionInv(gr, Held, Answer)'
    BY <1>12, <1>15
<1> QED BY <1>8, <1>9, <1>10, <1>16 DEF GInv

\* The number of signals stays within the capacity.
LEMMA QueuedFits ==
    ASSUME TypeInv, NEW n \in Nat
    PROVE  Queued(n) \in 0..SignalCap
<1>1. SignalCap \in Nat /\ sigs \in 0..SignalCap
    BY Parameters DEF TypeInv
<1> QED BY <1>1 DEF Queued

LEMMA NoCommandKeeps ==
    ASSUME GInv, NoCommand
    PROVE  GInv'
<1>1. /\ pc' = "cycle" /\ raised' = FALSE
      /\ UNCHANGED <<mode, auto, warning, up, gr, prog, stack, cmds, scenario, task>>
      /\ info' = [mode |-> mode', auto |-> auto', warning |-> warning']
      /\ sigs' = Queued(Bit(raised))
    BY DEF NoCommand, OtherCommand, Nothing, copy_info, runnerVars
<1>2. sigs' \in 0..SignalCap
    BY <1>1, QueuedFits DEF GInv, Bit
<1>3. ServiceTypeOK'
    BY <1>1 DEF GInv, TypeInv, ServiceTypeOK
<1>4. info' \in ServiceInfo
    BY <1>1, <1>3 DEF ServiceTypeOK, ServiceInfo
<1>5. TypeInv' /\ Undisturbed'
    BY <1>1, <1>2, <1>3, <1>4 DEF GInv, TypeInv, Undisturbed, Faults, MaxShots, Programs
<1>6. InfoInv'
    BY <1>1 DEF GInv, InfoInv, Rests, HeldPaused
<1>7. WaitInv' /\ NodeInv(gr, Held)'
    BY <1>1 DEF GInv, WaitInv, NodeInv, Held, Top, Node
<1>8. MotionInv(gr, Held, Answer)'
    BY <1>1 DEF GInv, MotionInv, Held, Answer, Top, Node, Rests, HeldPaused, OwnTask
<1> QED BY <1>5, <1>6, <1>7, <1>8 DEF GInv

\* What the commands do, as far as the runner depends on it.
LEMMA CommandMoves ==
    ASSUME ServiceTypeOK, NEW kind \in Commands, NEW ret \in BOOLEAN, Effect(kind, ret)
    PROVE  /\ mode' \in {"Idle", "Manual", "Auto"} /\ warning' \in BOOLEAN /\ raised' \in BOOLEAN
           /\ auto' \in {"NormalMoving", "Pausing", "Paused", "Resuming", "Stopping", "Stopped"}
           /\ kind \in Motion /\ ret => mode = "Idle" /\ mode' = "Auto" /\ auto' = "NormalMoving"
           /\ kind \notin Motion \/ ~ret =>
                /\ mode # "Auto" => mode' # "Auto"
                /\ mode' = "Auto" => mode = "Auto"
           /\ ~ret => UNCHANGED <<mode, auto>>
           /\ kind = "Estop" => mode' = "Idle"
           /\ kind = "Stop" /\ ret => auto' \in {"Stopping", "Stopped"}
           /\ kind \notin Motion /\ auto \in {"Stopping", "Stopped"}
                => auto' \in {"Stopping", "Stopped"}
           /\ kind \notin Motion /\ kind # "Estop" => (mode' = "Auto" <=> mode = "Auto")
           /\ kind \in {"Ack", "StartPointMove", "StopPointMove"}
                => (auto' = auto /\ (mode' # mode => mode' = "Manual"))
<1> USE DEF ServiceTypeOK
<1>1. CASE kind \in Motion
    BY <1>1 DEF Effect, Start, Nothing, Motion
<1>2. CASE kind = "Pause"
    BY <1>2 DEF Effect, Pause, Nothing, Motion
<1>3. CASE kind = "Resume"
    BY <1>3 DEF Effect, Resume, Nothing, Motion
<1>4. CASE kind = "Stop"
    BY <1>4 DEF Effect, Stop, Nothing, Motion
<1>5. CASE kind = "Estop"
    BY <1>5 DEF Effect, EmergencyStop, Reset, Motion
<1>6. CASE kind = "Ack"
    BY <1>6 DEF Effect, ClearWarning, Motion
<1>7. CASE kind = "StartPointMove"
    BY <1>7 DEF Effect, StartPointMove, Nothing, Motion
<1>8. CASE kind = "StopPointMove"
    BY <1>8 DEF Effect, StopPointMove, Nothing, Motion
<1> QED BY <1>1, <1>2, <1>3, <1>4, <1>5, <1>6, <1>7, <1>8 DEF Commands

\* A command is handled: the command c at the head of the queue, its answer,
\* and its effect on the task.
Handled(c, ret) ==
    /\ cmds # <<>> /\ c = Head(cmds) /\ cmds' = Tail(cmds)
    /\ Effect(c.kind, ret) /\ task' = TaskAfter(c, ret)
    /\ stack' = [d \in DOMAIN stack |->
                   IF d = c.owner
                   THEN [stack[d] EXCEPT !.ans = IF ret THEN "accepted" ELSE "ignored"]
                   ELSE stack[d]]
    /\ pc' = "cycle" /\ info' = [mode |-> mode', auto |-> auto', warning |-> warning']
    /\ sigs' = Queued(Bit(raised) + Bit(raised'))
    /\ UNCHANGED <<up, gr, prog, scenario>>

\* The fate of the task goes on following the mode.
LEMMA HandledInfo ==
    ASSUME GInv, NEW c \in Request, NEW ret \in BOOLEAN, Handled(c, ret)
    PROVE  InfoInv' /\ task' \in [node : Nat, fate : Fates]
<1>1. /\ ServiceTypeOK /\ task \in [node : Nat, fate : Fates] /\ c.kind \in Commands
      /\ c.node \in Nat
    BY DEF GInv, TypeInv, Request
<1>2. /\ c.kind \in Motion /\ ret => mode' = "Auto" /\ auto' = "NormalMoving"
      /\ c.kind \notin Motion \/ ~ret => (mode' = "Auto" => mode = "Auto")
      /\ ~ret => UNCHANGED <<mode, auto>>
      /\ c.kind = "Estop" => mode' = "Idle"
      /\ c.kind = "Stop" /\ ret => auto' \in {"Stopping", "Stopped"}
      /\ c.kind \notin Motion /\ auto \in {"Stopping", "Stopped"}
           => auto' \in {"Stopping", "Stopped"}
      /\ c.kind \notin Motion /\ c.kind # "Estop" => (mode' = "Auto" <=> mode = "Auto")
    BY <1>1, CommandMoves DEF Handled
<1>3. /\ task.fate = "running" => mode = "Auto"
      /\ mode = "Auto" /\ auto \notin {"Stopping", "Stopped"} => task.fate = "running"
    BY DEF GInv, InfoInv
<1>4. CASE c.kind \in Motion /\ ret
    BY <1>1, <1>2, <1>4 DEF Handled, TaskAfter, InfoInv, Fates, Rests, HeldPaused
<1>5. CASE c.kind = "Stop" /\ ret /\ task.fate = "running"
  <2>1. task' = [task EXCEPT !.fate = "stopped"]
      BY <1>5 DEF Handled, TaskAfter, Motion
  <2>2. task' \in [node : Nat, fate : Fates] /\ task'.fate = "stopped"
      BY <1>1, <2>1 DEF Fates
  <2> QED BY <1>2, <1>5, <2>2 DEF Handled, InfoInv, Rests, HeldPaused
<1>6. CASE c.kind = "Estop" /\ task.fate = "running"
  <2>1. task' = [task EXCEPT !.fate = "cut"]
      BY <1>6 DEF Handled, TaskAfter, Motion
  <2>2. task' \in [node : Nat, fate : Fates] /\ task'.fate = "cut"
      BY <1>1, <2>1 DEF Fates
  <2> QED BY <1>2, <1>6, <2>2 DEF Handled, InfoInv, Rests, HeldPaused
<1>7. CASE /\ ~(c.kind \in Motion /\ ret)
           /\ ~(c.kind = "Stop" /\ ret /\ task.fate = "running")
           /\ ~(c.kind = "Estop" /\ task.fate = "running")
  <2>1. task' = task
      BY <1>7 DEF Handled, TaskAfter
  <2> QED BY <1>1, <1>2, <1>3, <1>7, <2>1 DEF Handled, InfoInv, Rests, HeldPaused
<1> QED BY <1>4, <1>5, <1>6, <1>7

\* The queue without its head.
LEMMA TailAt ==
    ASSUME NEW S, NEW s \in Seq(S), s # <<>>
    PROVE  /\ Head(s) = s[1] /\ Head(s) \in S /\ Tail(s) \in Seq(S)
           /\ Len(s) \in Nat \ {0} /\ Len(Tail(s)) = Len(s) - 1
           /\ DOMAIN s = 1..Len(s) /\ DOMAIN Tail(s) = 1..(Len(s) - 1)
           /\ \A i \in 1..(Len(s) - 1) : Tail(s)[i] = s[i + 1]
OBVIOUS

\* A command that was given up does not touch what the runner relies on.
LEMMA HandledUnheard ==
    ASSUME GInv, NEW c \in Request, NEW ret \in BOOLEAN, Handled(c, ret), c.owner = 0
    PROVE  stack' = stack /\ WaitInv' /\ MotionInv(gr, Held, Answer)'
<1>1. /\ stack \in Seq(Frame) /\ cmds \in Seq(Request) /\ cmds # <<>> /\ c.kind \in Commands
      /\ ServiceTypeOK
    BY DEF GInv, TypeInv, Handled, Request
<1>2. /\ c = cmds[1] /\ Len(cmds) \in Nat \ {0} /\ Len(cmds') = Len(cmds) - 1
      /\ DOMAIN cmds = 1..Len(cmds) /\ DOMAIN cmds' = 1..(Len(cmds) - 1)
      /\ \A i \in 1..(Len(cmds) - 1) : cmds'[i] = cmds[i + 1]
      /\ cmds' \in Seq(Request)
    BY <1>1, TailAt DEF Handled
<1>3. stack' = stack
  <2>1. DOMAIN stack = 1..Len(stack) /\ Len(stack) \in Nat
      BY <1>1
  <2>2. \A d \in DOMAIN stack : d # c.owner
      BY <2>1
  <2>3. stack' = [d \in DOMAIN stack |-> stack[d]]
      BY <2>2 DEF Handled
  <2> QED BY <1>1, <2>3
<1>4. /\ c.kind \in Timed
      /\ c.kind \in Motion => stack # <<>> /\ Top.op = "Abort" /\ Top.ans = "none"
    BY <1>2 DEF GInv, WaitInv
<1>5. WaitInv'
  <2>1. ASSUME NEW d \in DOMAIN stack, stack[d].ans = "none"
        PROVE  cmds' # <<>> /\ cmds'[Len(cmds')] = cmds[Len(cmds)]
    <3>1. cmds[Len(cmds)].owner = d /\ d # 0
        BY <1>1, <2>1 DEF GInv, WaitInv
    <3>2. Len(cmds) # 1
        BY <1>2, <3>1
    <3>3. Len(cmds) - 1 \in 1..(Len(cmds) - 1)
        BY <1>2, <3>2
    <3> QED BY <1>2, <3>2, <3>3
  <2>2. ASSUME NEW i \in DOMAIN cmds'
        PROVE  cmds'[i] = cmds[i + 1] /\ i + 1 \in DOMAIN cmds
                 /\ (i + 1 = Len(cmds) => i = Len(cmds'))
      BY <1>2, <2>2
  <2>3. gr' = gr /\ Top' = Top
      BY <1>3 DEF Handled, Top
  <2> QED BY <1>3, <2>1, <2>2, <2>3 DEF GInv, WaitInv
<1>6. Held' = Held /\ Answer' = Answer /\ gr' = gr /\ prog' = prog
    BY <1>3 DEF Held, Answer, Top, Handled
<1>7. PICK g, op, ans : g = gr /\ op = Held /\ ans = Answer
    OBVIOUS
<1>8. MotionInv(g, op, ans)
    BY <1>7 DEF GInv
<1>9. CASE c.kind \in Motion
  <2>1. op = "Abort" /\ ans = "none"
      BY <1>4, <1>7, <1>9 DEF Held, Answer
  <2>2. MotionInv(g, op, ans)'
      BY <2>1 DEF MotionInv, ForcedStop
  <2> QED BY <1>3, <1>5, <1>6, <1>7, <2>2
<1>10. CASE c.kind \notin Motion
  <2>1. c.kind \in {"Ack", "StartPointMove", "StopPointMove"}
      BY <1>4, <1>10 DEF Timed, Motion
  <2>2. /\ auto' = auto /\ (mode' # mode => mode' = "Manual")
        /\ mode' = "Auto" <=> mode = "Auto"
      BY <1>1, <1>10, <2>1, CommandMoves DEF Handled
  <2>3. task' = task
      BY <1>10, <2>1 DEF Handled, TaskAfter
  <2>4. MotionInv(g, op, ans)'
      BY <1>6, <1>8, <2>2, <2>3, MotionInvKept DEF Rests, HeldPaused, OwnTask
  <2> QED BY <1>3, <1>5, <1>6, <1>7, <2>4
<1> QED BY <1>9, <1>10

\* What the answer to the innermost wait means for the runner.
LEMMA AnsweredMotion ==
    ASSUME GInv, NEW c \in Request, NEW ret \in BOOLEAN, Handled(c, ret),
           NEW op \in Waits, MotionInv(gr, op, "none"), NodeInv(gr, op),
           c.kind \in CommandFor(op), op = "Start" => c.node = gr.curr
    PROVE  MotionInv(gr, op, IF ret THEN "accepted" ELSE "ignored")'
<1> DEFINE ans == IF ret THEN "accepted" ELSE "ignored"
<1>1. ServiceTypeOK /\ c.kind \in Commands /\ gr' = gr /\ prog' = prog /\ gr.state \in RunnerState
    BY DEF GInv, TypeInv, Request, Handled, Runner
<1>2. /\ c.kind \notin Motion \/ ~ret => (mode # "Auto" => mode' # "Auto")
      /\ c.kind \in Motion /\ ret => mode' = "Auto"
      /\ ~ret => UNCHANGED <<mode, auto>>
      /\ c.kind = "Estop" => mode' = "Idle"
      /\ c.kind \in {"Ack", "StartPointMove", "StopPointMove"}
           => auto' = auto /\ (mode' # mode => mode' = "Manual")
      /\ c.kind \notin Motion /\ c.kind # "Estop" => (mode' = "Auto" <=> mode = "Auto")
    BY <1>1, CommandMoves DEF Handled
<1>3. c.kind # "Estop" /\ (~ret \/ (c.kind \notin Motion /\ c.kind # "Stop")) => task' = task
    BY DEF Handled, TaskAfter
<1>4. Node(gr)' = Node(gr)
    BY <1>1 DEF Node
<1>5. CASE op = "Start" /\ ret
  <2>1. c.kind \in Motion /\ c.node = gr.curr
      BY <1>5 DEF CommandFor
  <2>2. task' = [node |-> gr.curr, fate |-> "running"]
      BY <1>5, <2>1 DEF Handled, TaskAfter, Motion
  <2>3. gr.state = "CurrentNodeIniting"
      BY <1>5 DEF NodeInv, StateFor
  <2> QED BY <1>1, <1>5, <2>2, <2>3 DEF MotionInv, OwnTask, ForcedStop
<1>6. CASE op \in ForcedStop
  <2>1. mode' = "Idle"
      BY <1>2, <1>6 DEF CommandFor, ForcedStop
  <2> QED BY <1>6, <2>1 DEF MotionInv, ForcedStop, Rests
<1>7. CASE ~ret /\ op \notin ForcedStop
  <2>1. c.kind # "Estop"
      BY <1>7 DEF CommandFor, ForcedStop, Motion
  <2> QED BY <1>1, <1>2, <1>3, <1>4, <1>7, <2>1
          DEF MotionInv, ForcedStop, Rests, HeldPaused, OwnTask
<1>8. CASE op \in {"Stop", "StopPausing"} /\ ret
  <2>1. gr.state \in {"Running", "Paused", "WaitingForResumed", "WaitingForPaused"}
        /\ Node(gr) \in Motion
      BY <1>8 DEF NodeInv, StateFor
  <2>2. gr.state # "Paused" \/ op = "Stop"
      BY <1>8 DEF NodeInv, StateFor
  <2> QED BY <1>1, <1>4, <1>8, <2>1, <2>2 DEF MotionInv, ForcedStop
<1>9. CASE op \in {"Pause", "Resume"} /\ ret
  <2>1. c.kind = op /\ task' = task
      BY <1>3, <1>9 DEF CommandFor, Motion
  <2>2. /\ gr.state \in {"Running", "WaitingForResumed", "Paused"} /\ Node(gr) \in Motion
        /\ gr.state = "Paused" => op = "Resume"
      BY <1>9 DEF NodeInv, StateFor
  <2>3. OwnTask(gr)
      BY <1>9, <2>2 DEF MotionInv, ForcedStop
  <2>4. OwnTask(gr)'
      BY <1>1, <2>1, <2>3 DEF OwnTask
  <2> QED BY <1>1, <1>4, <1>9, <2>2, <2>4 DEF MotionInv, ForcedStop
<1>10. CASE op \in {"Ack", "PanelAck", "StartPointMove", "StopPointMove"} /\ ret
  <2>1. c.kind \in {"Ack", "StartPointMove", "StopPointMove"}
      BY <1>10 DEF CommandFor
  <2>2. /\ task' = task /\ auto' = auto /\ (mode' # mode => mode' = "Manual")
        /\ mode' = "Auto" <=> mode = "Auto"
      BY <1>2, <1>3, <2>1 DEF Motion
  <2> QED BY <1>1, <1>4, <1>10, <2>2
          DEF MotionInv, ForcedStop, Rests, HeldPaused, OwnTask
<1>11. op # "Box"
    BY DEF CommandFor, Commands, Motion, Request
<1> QED
    BY <1>5, <1>6, <1>7, <1>8, <1>9, <1>10, <1>11 DEF Waits, ForcedStop

\* The answer to the innermost wait.
LEMMA HandledAnswered ==
    ASSUME GInv, NEW c \in Request, NEW ret \in BOOLEAN, Handled(c, ret), c.owner # 0
    PROVE  /\ stack' \in Seq(Frame) /\ WaitInv'
           /\ NodeInv(gr, Held)' /\ MotionInv(gr, Held, Answer)'
<1>1. /\ stack \in Seq(Frame) /\ cmds \in Seq(Request) /\ cmds # <<>> /\ c.kind \in Commands
    BY DEF GInv, TypeInv, Handled, Request
<1>2. /\ c = cmds[1] /\ Len(cmds) \in Nat \ {0} /\ Len(cmds') = Len(cmds) - 1
      /\ DOMAIN cmds = 1..Len(cmds) /\ cmds' \in Seq(Request)
    BY <1>1, TailAt DEF Handled
<1>3. /\ Len(cmds) = 1 /\ stack # <<>> /\ c.owner = Len(stack) /\ Top.ans = "none"
    BY <1>2 DEF GInv, WaitInv
<1>4. cmds' = <<>>
    BY <1>2, <1>3
<1>5. DOMAIN stack = 1..Len(stack) /\ Len(stack) \in DOMAIN stack /\ Top \in Frame
    BY <1>1, <1>3 DEF Top
<1> DEFINE ans == IF ret THEN "accepted" ELSE "ignored"
<1>6. /\ DOMAIN stack' = DOMAIN stack
      /\ \A d \in DOMAIN stack : d # Len(stack) => stack'[d] = stack[d]
      /\ stack'[Len(stack)] = [stack[Len(stack)] EXCEPT !.ans = ans]
    BY <1>3, <1>5 DEF Handled
<1>7. /\ stack'[Len(stack)] \in Frame /\ stack'[Len(stack)].ans = ans
      /\ stack'[Len(stack)].op = Top.op /\ stack'[Len(stack)].cmd = Top.cmd
    BY <1>5, <1>6 DEF Frame, Top
<1>8. stack' \in Seq(Frame) /\ Len(stack') = Len(stack) /\ stack' # <<>>
  <2>1. stack' \in [1..Len(stack) -> Frame]
    <3>1. \A d \in 1..Len(stack) : stack'[d] \in Frame
        BY <1>1, <1>5, <1>6, <1>7
    <3>2. stack' = [d \in 1..Len(stack) |-> stack'[d]]
        BY <1>5 DEF Handled
    <3> QED BY <3>1, <3>2
  <2> QED BY <1>1, <1>3, <2>1
<1>9. Top'.op = Top.op /\ Top'.ans = ans
    BY <1>7, <1>8 DEF Top
<1>10. /\ Top.op \in Waits /\ Top.op # "Box" /\ c.kind \in CommandFor(Top.op)
       /\ Top.op = "Start" => c.node = gr.curr
    BY <1>2, <1>3, <1>5 DEF GInv, WaitInv, Top, Frame
<1>11. Held = Top.op /\ Answer = "none" /\ Held' = Top.op /\ Answer' = ans
    BY <1>3, <1>8, <1>9 DEF Held, Answer
<1>12. WaitInv'
  <2>1. ASSUME NEW d \in DOMAIN stack'
        PROVE  /\ d # Len(stack') => stack'[d].op = "Box"
               /\ stack'[d].op = "Box" => stack'[d].ans = "accepted"
               /\ stack'[d].op # "Box" => stack'[d].cmd \in CommandFor(stack'[d].op)
               /\ stack'[d].ans # "none"
    <3>1. CASE d = Len(stack)
      <4>1. Top.cmd \in CommandFor(Top.op)
          BY <1>5, <1>10 DEF GInv, WaitInv, Top
      <4> QED BY <1>7, <1>8, <1>10, <3>1, <4>1
    <3>2. CASE d # Len(stack)
      <4>1. /\ stack'[d] = stack[d]
            /\ stack[d].op = "Box" /\ stack[d].ans = "accepted"
          BY <1>6, <2>1, <3>2 DEF GInv, WaitInv
      <4> QED BY <4>1
    <3> QED BY <3>1, <3>2
  <2> QED BY <1>4, <2>1 DEF WaitInv
<1>13. PICK op : op = Top.op
    OBVIOUS
<1>14. NodeInv(gr, op) /\ MotionInv(gr, op, "none")
    BY <1>11, <1>13 DEF GInv
<1>15. MotionInv(gr, op, IF ret THEN "accepted" ELSE "ignored")'
    BY <1>10, <1>13, <1>14, AnsweredMotion
<1>16. NodeInv(gr, op)'
    BY <1>14 DEF Handled, NodeInv, Node
<1> QED BY <1>8, <1>11, <1>12, <1>13, <1>15, <1>16

LEMMA HandleCommandKeeps ==
    ASSUME GInv, HandleCommand
    PROVE  GInv'
<1>1. cmds \in Seq(Request) /\ cmds # <<>> /\ ServiceTypeOK
    BY DEF GInv, TypeInv, HandleCommand
<1>2. PICK c : c = Head(cmds)
    OBVIOUS
<1>3. PICK ret \in BOOLEAN : Handled(c, ret)
    BY <1>2 DEF HandleCommand, Handled, copy_info
<1>4. /\ c \in Request /\ cmds' \in Seq(Request) /\ Len(cmds') <= Len(cmds)
      /\ Len(cmds') \in Nat /\ Len(cmds) \in Nat
    BY <1>1, <1>2, TailAt DEF HandleCommand
<1>5. InfoInv' /\ task' \in [node : Nat, fate : Fates]
    BY <1>3, <1>4, HandledInfo
<1>6. /\ stack' \in Seq(Frame) /\ WaitInv'
      /\ NodeInv(gr, Held)' /\ MotionInv(gr, Held, Answer)'
  <2>1. CASE c.owner = 0
    <3>1. stack' = stack /\ WaitInv' /\ MotionInv(gr, Held, Answer)'
        BY <1>3, <1>4, <2>1, HandledUnheard
    <3>2. NodeInv(gr, Held)'
        BY <1>3, <3>1 DEF GInv, Handled, NodeInv, Held, Top, Node
    <3> QED BY <3>1, <3>2 DEF GInv, TypeInv
  <2>2. CASE c.owner # 0
      BY <1>3, <1>4, <2>2, HandledAnswered
  <2> QED BY <2>1, <2>2
<1>7. ServiceTypeOK'
  <2>1. c.kind \in Commands /\ Effect(c.kind, ret) /\ up' = up
      BY <1>3, <1>4 DEF Handled, Request
  <2> QED BY <1>1, <2>1, CommandMoves DEF ServiceTypeOK
<1>8. info' \in ServiceInfo
    BY <1>3, <1>7 DEF Handled, ServiceTypeOK, ServiceInfo
<1>9. sigs' \in 0..SignalCap
    BY <1>3, QueuedFits DEF GInv, Handled, Bit
<1>10. Len(cmds') <= MaxQueue
    BY <1>4, Parameters DEF GInv, TypeInv
<1>11. TypeInv' /\ Undisturbed'
    BY <1>3, <1>4, <1>5, <1>6, <1>7, <1>8, <1>9, <1>10
       DEF GInv, TypeInv, Handled, Undisturbed, Faults, MaxShots, Programs
<1> QED BY <1>5, <1>6, <1>11 DEF GInv

----------------------------------------------------------------------------
(* The theorems.                                                           *)

\* An operation that may be asked for in any state.
LEMMA AskFine ==
    ASSUME NEW g, Free(g), NEW op \in {"Estop", "PanelAck", "StartPointMove", "StopPointMove"}
    PROVE  Fine(Wait(g, op)) /\ Wait(g, op).g = g
<1>1. NodeInv(g, op)
    BY DEF Free, NodeInv, StateFor, Runner
<1>2. MotionInv(g, op, "none")
    BY DEF Free, MotionInv, ForcedStop
<1> QED BY <1>1, <1>2 DEF Wait, Fine, Outcome, Waits, Free

\* When a step goes on to the next node: the runner stopped, it waited for the
\* acknowledgement of a contact, or a callback found the task over.
NodeStep ==
    \/ gr'.curr = gr.curr
    \/ gr.state = "Stopped"
    \/ gr'.curr = gr.curr + 1 /\ Held = "Ack" /\ gr.state = "Running" /\ mode # "Auto"
    \/ /\ gr'.curr = gr.curr + 1 /\ Free(gr)
       /\ gr.state = "Running" /\ Node(gr) \in Motion => mode # "Auto"

LEMMA CallbackStep ==
    ASSUME GInv, TimerFires \/ SignalArrives \/ ShotFires
    PROVE  GInv' /\ NodeStep
<1>1. gr \in Runner /\ sigs \in 0..SignalCap /\ SignalCap \in Nat
    BY Parameters DEF GInv, TypeInv
<1>2. PICK g : /\ \/ g \in {gr, [gr EXCEPT !.timer = "firing"]}
                  \/ gr.shots > 0 /\ g = [gr EXCEPT !.shots = @ - 1]
               /\ \E by \in {"T", "S", "G"} : \E o \in run_once(g) : Become(o, by, stack, cmds)
    BY DEF TimerFires, SignalArrives, ShotFires
<1>3. Served /\ prog' = prog /\ sigs' \in 0..SignalCap
    BY <1>1 DEF TimerFires, SignalArrives, ShotFires
<1>4. PICK by \in {"T", "S", "G"} : \E o \in run_once(g) : Become(o, by, stack, cmds)
    BY <1>2
<1>5. PICK o \in run_once(g) : Become(o, by, stack, cmds)
    BY <1>4
<1>6. GInv' /\ gr'.curr = o.g.curr /\ GoesOn(gr, o.g)
    BY <1>2, <1>3, <1>5, CallbackKeeps
<1>7. Free(gr) /\ Ground
    BY <1>3, AtLarge
<1> QED BY <1>6, <1>7 DEF NodeStep, GoesOn, Ground, InfoInv

LEMMA OperationStep ==
    ASSUME GInv, OpPause \/ OpResume \/ OpStop \/ OpEstop \/ OpAck
                   \/ OpStartPointMove \/ OpStopPointMove
    PROVE  GInv' /\ gr'.curr = gr.curr
<1>1. PICK op, o : /\ Operation(op, o)
                   /\ \/ o \in {pause(gr), resume(gr), stop(gr)}
                      \/ \E w \in {"Estop", "PanelAck", "StartPointMove", "StopPointMove"} :
                           o = Wait(gr, w)
    BY DEF OpPause, OpResume, OpStop, OpEstop, OpAck, OpStartPointMove, OpStopPointMove
<1>2. Free(gr)
    BY <1>1, AtLarge DEF Operation, Asked
<1>3. Fine(o) /\ o.g.curr = gr.curr
    BY <1>1, <1>2, PauseFine, ResumeFine, StopFine, AskFine
<1> QED BY <1>1, <1>3, OperationKeeps

\* Every step keeps the invariant.
LEMMA GInvStep ==
    ASSUME GInv, GNext
    PROVE  GInv' /\ NodeStep
<1>1. CASE TimerFires \/ SignalArrives \/ ShotFires
    BY <1>1, CallbackStep
<1>2. CASE WaitEnds
    BY <1>2, WaitEndsKeeps DEF NodeStep
<1>3. CASE WaitTimesOut
    BY <1>3, WaitTimesOutKeeps DEF NodeStep
<1>4. CASE OpStart
    BY <1>4, StartKeeps DEF NodeStep
<1>5. CASE OpPause \/ OpResume \/ OpStop \/ OpEstop \/ OpAck
             \/ OpStartPointMove \/ OpStopPointMove
    BY <1>5, OperationStep DEF NodeStep
<1>6. CASE MotionCycle
    BY <1>6, MotionCycleKeeps DEF NodeStep, MotionCycle, runnerVars
<1>7. CASE HandleCommand
    BY <1>7, HandleCommandKeeps DEF NodeStep, HandleCommand
<1>8. CASE NoCommand
    BY <1>8, NoCommandKeeps DEF NodeStep, NoCommand, runnerVars
<1> QED BY <1>1, <1>2, <1>3, <1>4, <1>5, <1>6, <1>7, <1>8
        DEF GNext, InterfaceThread, MotionThread

LEMMA GInvInit ==
    ASSUME GInit, Undisturbed
    PROVE  GInv
<1>1. MaxShots \in Nat /\ MaxQueue \in Nat /\ SignalCap \in Nat
    BY RunnerAssumption DEF GInit, MaxShots
<1>2. TypeInv
  <2>1. gr \in Runner /\ gr.shots <= MaxShots
      BY <1>1 DEF GInit, Runner, RunnerState
  <2>2. ServiceTypeOK /\ info \in ServiceInfo
      BY DEF GInit, ServiceInit, ServiceTypeOK, ServiceInfo
  <2>3. stack \in Seq(Frame) /\ cmds \in Seq(Request) /\ Len(cmds) <= MaxQueue
      BY <1>1 DEF GInit
  <2>4. task \in [node : Nat, fate : Fates]
      BY DEF GInit, Fates
  <2> QED BY <1>1, <2>1, <2>2, <2>3, <2>4 DEF GInit, TypeInv
<1>3. WaitInv
    BY DEF GInit, WaitInv
<1>4. InfoInv
    BY DEF GInit, ServiceInit, InfoInv
<1>5. Held = "Return"
    BY DEF GInit, Held
<1>6. NodeInv(gr, "Return")
    BY DEF GInit, NodeInv, StateFor, RunnerState
<1>7. MotionInv(gr, "Return", Answer)
    BY DEF GInit, ServiceInit, MotionInv, Rests, ForcedStop
<1> QED BY <1>2, <1>3, <1>4, <1>5, <1>6, <1>7 DEF GInv

LEMMA GInvHolds == GSpec /\ Undisturbed => []GInv
<1>1. GInit /\ Undisturbed => GInv
    BY GInvInit
<1>2. GInv /\ [GNext]_gvars => GInv'
  <2>1. SUFFICES ASSUME GInv, [GNext]_gvars PROVE GInv'
      OBVIOUS
  <2>2. CASE GNext
      BY <2>1, <2>2, GInvStep
  <2>3. CASE UNCHANGED gvars
    <3>1. UNCHANGED <<mode, auto, warning, up, raised, gr, prog, stack, cmds, info, sigs,
                      pc, task, scenario>>
        BY <2>3 DEF gvars, serviceVars
    <3>2. TypeInv' /\ WaitInv' /\ InfoInv' /\ Undisturbed'
        BY <2>1, <3>1 DEF GInv, TypeInv, ServiceTypeOK, WaitInv, InfoInv, Undisturbed,
                          Faults, Top, Rests, HeldPaused, MaxShots, Programs
    <3>3. NodeInv(gr, Held)' /\ MotionInv(gr, Held, Answer)'
        BY <2>1, <3>1 DEF GInv, NodeInv, MotionInv, Held, Answer, Top, Node, Rests,
                          HeldPaused, OwnTask
    <3> QED BY <3>2, <3>3 DEF GInv
  <2> QED BY <2>1, <2>2, <2>3
<1> QED BY <1>1, <1>2, PTL DEF GSpec

\* The runner's state has its type; in particular the index of the current
\* node, with which gcode_list_ is read unchecked, stays inside the list
\* (_check_to_next_gcode), and every command under way has its waiter.
THEOREM RunnerTyped == GSpec /\ Undisturbed => []RunnerTypeOK
<1>1. GInv => RunnerTypeOK
  <2>1. SUFFICES ASSUME GInv PROVE RunnerTypeOK
      OBVIOUS
  <2>2. gr \in [state : RunnerState, curr : Nat, timer : {"off", "armed", "firing"},
                delay : BOOLEAN, shots : 0..MaxShots, ui : {"init", "started", "paused"}]
      BY <2>1, Parameters DEF GInv, TypeInv, Runner
  <2>3. prog # <<>> => gr.curr \in DOMAIN prog
      BY <2>1 DEF GInv, NodeInv
  <2>4. \A c \in DOMAIN cmds : cmds[c].owner \in 0..Len(stack)
      BY <2>1, StackLength DEF GInv, WaitInv
  <2> QED BY <2>1, <2>2, <2>3, <2>4 DEF GInv, TypeInv, RunnerTypeOK, Frame
<1> QED BY <1>1, GInvHolds, PTL

\* The buttons offer a start exactly when the runner can take one: every end
\* of a program sends the signal that switches the panels, once.
THEOREM ButtonsTellTheTruth == GSpec /\ Undisturbed => []ButtonsMatch
<1>1. GInv => ButtonsMatch
    BY DEF GInv, NodeInv, ButtonsMatch
<1> QED BY <1>1, GInvHolds, PTL

\* delay_pause_flag_ does not outlive the program it was set in.
THEOREM PauseForgotten == GSpec /\ Undisturbed => []NoStalePause
<1>1. GInv => NoStalePause
    BY DEF GInv, NodeInv, NoStalePause
<1> QED BY <1>1, GInvHolds, PTL

\* A motion node that the runner calls paused has its task at rest in its
\* pause, unless the link was lost.
THEOREM PausedTaskRests == GSpec /\ Undisturbed => []PausedStill
<1>1. GInv => PausedStill
    BY DEF GInv, MotionInv, PausedStill, AtRest, Held, Answer, ForcedStop, HeldPaused
<1> QED BY <1>1, GInvHolds, PTL

\* However a program came to its end, also by a start that was given up and
\* accepted afterwards, no task is left running in the motion thread.
THEOREM NothingLeftRunning == GSpec /\ Undisturbed => []NoOrphanTask
<1>1. GInv => NoOrphanTask
    BY DEF GInv, MotionInv, NoOrphanTask, StoppedMeansStopped, AtRest, Held, Answer,
           ForcedStop, Rests
<1> QED BY <1>1, GInvHolds, PTL

\* The runner goes on from a motion node only when the task that it started
\* for this node has come to its own end (_state_running takes Idle for it).
THEOREM GoesOnAfterOwnEnd == GSpec /\ Undisturbed => NodeEndedItself
<1>1. GInv /\ [GNext]_gvars =>
        [ /\ Undisturbed /\ gr.state = "Running" /\ Node(gr) \in Motion
          /\ gr'.curr = gr.curr + 1
          => task.node = gr.curr /\ task.fate \in {"ended", "lost"} ]_gvars
  <2>1. SUFFICES ASSUME GInv, GNext, gr.state = "Running", Node(gr) \in Motion,
                        gr'.curr = gr.curr + 1
                 PROVE  task.node = gr.curr /\ task.fate \in {"ended", "lost"}
      OBVIOUS
  <2>2. gr.curr \in Nat
      BY <2>1 DEF GInv, TypeInv, Runner
  <2>3. mode # "Auto" /\ (Held = "Ack" \/ Free(gr))
      BY <2>1, <2>2, GInvStep DEF NodeStep
  <2>4. OwnTask(gr)
      BY <2>1, <2>3 DEF GInv, Free, MotionInv, ForcedStop
  <2>5. task.fate # "running"
      BY <2>1, <2>3 DEF GInv, InfoInv
  <2> QED BY <2>4, <2>5 DEF OwnTask
<1> QED BY <1>1, GInvHolds, PTL DEF GSpec, NodeEndedItself

=============================================================================

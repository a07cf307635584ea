# Verification of the EDM controller

TLA+ models of this electrical-discharge-machine controller, from the Python interpreter
of the programs through the G-code runner and the coordinate systems to the real-time
motion thread; the TLC runs that check them on small instances; and the theorems TLAPS
proves about them.  Everything is translated from the C++ and Python under `src/`;
`PROJECT.json` maps every definition to its lines.

## 1. Inventory of the system

| Part | State | Operations | Talks to |
|---|---|---|---|
| `Motion/Moveruntime*`, `PointMoveHandler` | an accelerated move from start to target, its wrapper state NotStarted ... Stopped | start, pause, resume, stop, clear, run_once | owned four times: manual move, pause move, G00, jump of G01 |
| `Motion/TouchDetectHandler` | detection enabled, latched warning | run_detect_once, set_detect_enable, clear_warning | asked by manual move, pause move and G00 |
| `Motion/PauseMoveController` | nine states, a stack of recorded moves | start/stop of a manual move, activate / pause / resume / stop of the way back, run_once | called by the runner |
| `Motion/MotionStateMachine/*AutoTask` | one task: G00, G01 with jumps, G01Group, G04, M00 | pause, resume, stop, run_once | writes the commanded position, switches power outputs |
| `MotionAutoTaskRunner` | current task, auto state, dominating state | restart_task, pause, resume, stop, manual moves, run_once | task and pause-move controller |
| `MotionStateMachine` | main mode Idle/Manual/Auto, enabled | reset, starts, stops, run_once | the runner; called by the thread |
| `MotionThread/MotionThreadController` | thread state, EtherCAT link state, two request flags | one cycle: work, then one command | drives, command queue, signal queue |
| `MotionCommandQueue`, `MotionSignalQueue`, info cache | queues between the interface and the real-time thread | push, try_get, consume | `App/TaskManager` |
| `App/TaskManager` (GCodeRunner, TaskManager) | state of the G-code program | start, pause, resume, stop, emergency stop, cyclic step | pushes motion commands and waits for their acceptance inside a nested event loop |
| `GlobalCommandQueue` | queue, exit flag, worker thread | push_command, worker loop, destructor | UI and I/O components |
| `Coordinate`, the panels that set it | offsets of the systems, global offset, soft limits, the file with them, cached positions | set an offset, an axis, an origin, the limits; save; load at the start | runner and move panel compute targets and check limits with it |
| `Utils` | filters, CRC, units | arithmetic | devices |
| `EcatManager`, `CanController`, `IOController`, `PowerController`, `ZynqConnection` | devices | I/O | |
| `Interpreter/rs274pyInterpreter`, `GCodeTaskConverter` | modal settings, list of commands, list of points, end flag | one Python method per G or M code; parse, convert to tasks, check before the start | GCodeRunner |
| panels under `App/`, hand box | which buttons are enabled | start, pause, resume, stop, emergency stop, jog, point move, set coordinates | task manager, coordinate system |

What is hard here: commands arrive between any two control cycles and meet five nested
state machines (thread, main mode, runner, task, point move) in any combination; four
different objects write the one commanded position, each from its own remembered
position; a pause can be left by manual moves that have to be undone exactly, and the
undoing can itself be paused and stopped; the drive link may go at any moment; the
interface side decides on cached copies of the motion state, and while it waits for an
answer it serves the events that call the same code again; offsets are computed from
cached positions and saved to a file that is truncated first; a move carries settings
made by other calls long before.  `hazards` in `PROJECT.json` lists each at its line.

What makes each part correct: the thread never makes the commanded position jump, holds
an enabled machine on a ready link and brings accepted pauses and stops to an end; the
way back leads exactly back; the runner passes a node only when its own task has ended
and leaves no task behind when it stops; the interpreter's list carries the settings in
force; what was set in the coordinates is read, kept over restarts, and limits moves.

## 2. Modules

```
PointMove <- MotionSharedData <- PauseMoveController, AutoTasks <- AutoTaskRunner
          <- MotionStateMachine <- MotionThread <- MotionProperties
          <- MotionRefinement   (S == INSTANCE MotionService WITH ...)
MotionService <- GCodeRunner <- GCodeProperties
RS274Interpreter <- MCProgram
Coordinates <- MCCoordinates
GlobalCommandQueue
```

(`<-` is EXTENDS.)  Two modules are compositions.  `MotionThread` puts the motion core
together: its `Next` is one phase of a control cycle (`thread_cycle_work`, then
`fetch_command_and_handle`) or the destructor of the controller in another thread.
`GCodeRunner` puts the interface thread together with the motion thread, the latter as
`MotionService`: the abstract specification of what clients see, which `MotionThread` is
shown, by TLC and by proof, to implement.

* **PointMove** - values, no variables.  A move is a record; `PmPause`, `PmStop`,
  `PmRunOnce` give the set of possible results because the S-curve is abstracted: one
  cycle brings the move one to `MaxStep` grid units closer to the end of the current
  plan, a deceleration ends anywhere on the rest of the way.  The cycle after the end
  was reached ends the plan, as in `MoveruntimeWrapper::run_once`; `moving` tells
  whether a pause or stop finds a speed to decelerate from.
* **MotionSharedData** - `cmd_axis`, `touch`, `signals` (those of one call), `power`.
* **PauseMoveController** - `pmc_state`, `pmc_pm`, `axis_recorder`; `pmc_x` is method x.
* **AutoTasks** - the tasks as records.  Servo feed and the moment of a jump are the
  environment's; the voltages and timers behind them are data.  A jump is kept with its
  geometry: up, down to the buffer, buffer fed by the servo.
* **AutoTaskRunner** - `state`, `domin`; `runner_x` is method x, `recovery_x` the
  branches of the recovery.
* **MotionStateMachine** - `main_mode`, `enabled`, `pm`; methods under their own names.
* **MotionThread** - thread and link states; one operator per command.  A handler takes
  its answer `ret` as a parameter: FALSE is an ignored command.  What the drives answer,
  and that the position read when the link becomes ready is any position, is the
  environment's choice.
* **MotionProperties** - the properties of the thread.
* **MotionService** - main mode, auto state, touch warning, link, "a signal is raised":
  for every command when it is accepted and what a client then sees, and where a control
  cycle may lead.  **MotionRefinement** holds the mapping.
* **GCodeRunner** - the runner's methods as functions from a runner to an outcome: it
  returns, or it sends a command and waits.  `stack` holds the operations that wait in
  `WaitforCmdTobeAccepted`, innermost last, because each wait is an event loop in which
  the timer, the dispatcher, single shots and the hand box call the runner again.
  `cmds` is the command queue with the waiter of each command, `info` the copy of
  `MotionInfo`, `sigs` the bounded signal queue, `task` a history variable that remembers
  for which node the last task was started and how it fared.  The message box after an
  abort is a wait, too.
* **GCodeProperties** - the scenarios and the properties of the runner.
* **RS274Interpreter** - `env` (modal settings), `list`, `points`; one action per method;
  a raised exception ends the run of the program.  `Parsed`, `MakeGCodeTaskList` (with the
  loop `gcode_task_list` of the converter) and `check_gcode_list_at_first` take the finished
  list to the start.
* **Coordinates** - the conversions between motor, machine and system coordinates, the
  operations of the coordinate system and of the panels, the file (open and empty between
  the two halves of a save), the restart, and the targets of lines, touch moves, groups,
  point moves and jogs with their looks at the soft limits.
* **GlobalCommandQueue** - the worker with the condition variable split at the points
  where another thread can come between: test under the lock, block (which releases it),
  wake, fetch, run, check.

Operators named `x_Something` after a mapped `x` and marked "Mutant" are plausible bugs
of `x`; no specification uses them.  They show that each property can fail.

### Abstractions

*Motion.*  One axis on an integer grid stands for the axis vector; tasks move along a
line, so the positions that matter are the points on it.  Speeds are the number of grid
units in a cycle.  The model's client gives every G01 and every segment of a group a
length (a direction of length zero is a division by zero in `MotionUtils.h`).  Build
options are those of `config.h`: the drill task is compiled out, the back-off at a pause
is compiled in.  Commands that only set parameters (speed ratio, velocity offset, jump
parameters, statistics) are left out.  `signals` holds the signals of the last call.

*Runner.*  A node is its kind; where it leads is in `Coordinates`.  That a target is
where the axis stands or beyond a limit is the fault "Setup".  The time between events
is abstracted: a callback either cannot fall due inside a wait, or (fault "Reentry") it
can at any moment of it, and (fault "LongRound") also in the round of events in which the
answer has already come.  `WaitforCmdTobeAccepted` usually lasts a cycle or two, far less
than the runner's timer, which is the assumption `Undisturbed` names.

*Interpreter.*  Coordinates, line numbers and options of a command are carried through
unchanged and left out.  A call with unusable arguments raises; which arguments those are
is data.

*Coordinates.*  Lengths are integers, finer than the resolution `Grid` of the file, so
that rounding is visible.  A touch move that is shortened goes along an axis or a
diagonal, so that it ends on an integer.  Panel moves start from an `info` that is up to
date; the runner reads the position itself.  Actual positions and the cache of the
current coordinates are displayed only.

## 3. Runs

| Run | Bounds | Shows |
|---|---|---|
| `pauses` | 3 positions, 1 recorded move; G01 and groups of 2 lines | the task stands where the axis stands, the way back is kept, a resume finds a paused task |
| `machining` | 5 positions, back-off 2; G00, G01 with jumps, delays of 2 cycles, M00; no manual moves | types, back-off only after the jump, power outputs follow the machining, accepted pauses and stops complete |
| `way_back` | 3 positions, 2 recorded moves; G00 | the way back over two moves leads to the task's position and ends, its pauses and stops complete, the axis never jumps, a latched contact holds the axis |
| `link` | 3 positions; manual moves and delays of 2 cycles, link lost, thread stopped | a ready link has an enabled machine, a manual move ends, the thread implements the service and answers as it promises.  The thread may end, so deadlock is not checked |
| `command_queue` | 5 commands | commands are run once and in order; none waits beside a sleeping worker.  The queue may be destroyed, so deadlock is not checked |
| `runner` | 5 scenarios (below), 2 commands and 1 signal in the queues | no task outlives its program, the buttons tell the truth, no pause is left over, a node is left only after its own task has ended (undisturbed waits); what the runner calls paused is at rest, types (callbacks and the hand box inside waits too) |
| `runner_progress` | two motion nodes, no room for signals, late answers | pause and stop come about by polling alone, every wait ends |
| `program` | 5 commands, 1 point, feeds 0 and 1, systems -1, 54, 60 of which 54 exists | moves carry the settings in force, a program ends once, moves are in systems that exist.  A program is run once, so deadlock is not checked |
| `coordinates` | 1 axis, values -1 and 1, file resolution 2, groups of 2 points | a value set is the value read, restarts keep it, groups go where they are written, no axis gets further beyond either limit |
| `queue_exit`, `forced_stop`, `set_zero` | | violations, see below |

`Kinds` is the set of motions the client of the thread starts, so that a run enumerates
the interplay of a few of them with everything else: pause, resume, stop, emergency stop,
manual moves and their stops, touch contacts, clearing.  Three positions are the smallest
number for which a move can be stopped on its way and the way back has a middle; two
recorded moves are the smallest number for which the order of undoing matters.
`MaxStep = 1` makes "moved further than a cycle allows" visible on that grid.  A delay of
two cycles is the shortest that can be paused.  In `machining` four steps of line give the
buffer at the end of a jump more than one step, and the back-off can both complete and hit
the start of the line.

The scenarios of `runner` are the values of the rigid variable `scenario`.  Three have
undisturbed waits:

* `Window` - every operation of the window; contacts, answers that come after the wait was
  given up; programs with a fast move, a programmed pause, a touch move, and one without an
  end.
* `HandBox` - the hand box acts in the message boxes of aborts; contacts, nodes whose
  set-up fails.
* `Link` - the link goes and comes during a group and a delay.

Two re-enter the runner in waits, with two motion nodes in a row:

* `Nested` - callbacks in every round of events of a wait, three deep, and two single shots
  under way.
* `NestedBox` - also the hand box pauses, resumes and stops inside waits, two deep.

Without callbacks in waits, every combination of operations and faults is covered by the
theorems; the first three scenarios show the hazards on small instances.

`NoOrphanTask`, `ButtonsMatch`, `NoStalePause` and `NodeEndedItself` are stated for
undisturbed waits: with re-entered waits they fail (`forced_stop` shows the first; an
abort nested in another leaves the runner Running after the panels were told it stopped).
`PausedStill` holds with re-entered waits.  The range of the current index (in
`RunnerTypeOK`) holds with them only for programs without a touch move, which is why the
programs of `Nested` and `NestedBox` have none; see the observation on touch moves.

In `coordinates` one axis is enough because the code treats axes alike and separately,
except for the shortening of touch moves and jogs along a diagonal; the proofs have any
finite number of axes.  The constraint `GroupsAlone` of `program` leaves out programs that build
a group and also use commands that neither move nor set anything a move carries.

*Fairness.*  `MotionThread` assumes `WF_vars(Cycle)`: the thread is a periodic real-time
thread that runs a cycle every period (`_wait_peroid`), whatever commands come.  No
fairness is assumed of clients or drives.  The progress properties are therefore about
what the thread does by itself; they except a link or a thread that has gone.  A group
with speed ratio 0 stands still, which is why the end of a task is not claimed.
`GlobalCommandQueue` assumes weak fairness of the worker and of a destructor that was
entered; spurious wake-ups may but need not come.  `GCodeRunner` assumes weak fairness of
the motion thread and of the end of a wait, and strong fairness of timer, single shots and
signals (a callback that is due is served in one of the event loops, though not in each);
that an accepted pause and stop come to their end, and that a pause is not refused for
ever, is strong fairness of the service's steps, which `RequestsComplete`
justifies.

### Disagreements

* `queue_exit`: the destructor's flag and notification can both fall between the worker's
  look at the flag and its sleep; the worker then sleeps for ever and `join` hangs.
* `forced_stop`: a stop that meets a task that has just ended is refused and forced by an
  emergency stop; in the wait for it a signal makes the runner start the next node behind
  that stop, and the runner then ends with a task running and no stop button.
* `set_zero`: `coord_set_zero` of a program stores the motor position as the offset, which
  is defined in machine coordinates; with a global offset that is not zero the axis does
  not read zero.  The panel's button does it right (`SetMeansRead`).

### Observations without a run

* `MotionAutoTaskRunner.h` lists the only auto states that exist while the way back
  dominates; `reset()` adds Stopped (an emergency stop on the way back).
  `ModeMatchesRunner` shows that it is harmless.
* `MotionThreadController.cpp:710` asks for the touch detection to be off after the manual
  move it was switched on for.  Only a cycle in Idle switches it off; a machining task
  accepted in the very cycle in which the move ended runs with it on (and ignores it).
* With re-entered waits a touch move may take the runner past a node.  The timer and the
  signal of the end of the move both find the contact; the second enters in the wait of the
  first for the clearing of the warning (`GCodeRunner.cpp:1149`), with the state still
  Running, and each goes to the next node.  If the node that is passed is the final M02,
  the index leaves the list, the abort waits in the event loop in the state
  CurrentNodeIniting, and the next callback meets
  `assert(curr_gcode_num_ < gcode_list_.size())` (`GCodeRunner.cpp:553`).  The scenario
  `Scenario({<<"Touch", "M02">>}, {"start"}, {}, {"Contact", "Reentry"}, 2, 1)` violates
  `RunnerTypeOK` in this way in a trace of 17 states.  No run contains it, and no property
  here says that nodes are not passed with re-entered waits.
* A lost link resets the thread to Idle, which the runner takes for the end of the node
  (`NodeEndedItself` excepts it); lost in a pause, it goes unnoticed (`PausedStill`).
* A program all of whose commands the converter drops becomes an empty list, whose last
  element `_check_gcode_list_at_first` reads (`EndsOnce` excepts it).
* The feed given with a single point of a group is not checked, unlike every other feed.
* The fine step of a jog may end less than a step beyond a soft limit (`LimitsHold` allows
  exactly that).  The default soft limits of all axes but the first are zero.
* A line that ends by itself after an earlier pause skips the sub-state that switches the
  high-frequency output off; the program's M codes are expected to do it.
* The operator may change the current system while a program runs; its `coord_set_zero`
  then acts on the other system.

## 4. Proofs

| Module | Theorems | For |
|---|---|---|
| `LoopTheorems` | lemmas: least numbers, invariants of loops and values computed by them | |
| `MotionTheorems` | `TypeCorrect`, `ModesMatch`, `ResumeNeverFails`, `ReadyMeansEnabled`, `BackOffAfterJump`, `OutputsFollow` | `TypeOK`, `ModeMatchesRunner`, `ResumeFindsPausedTask`, `EnabledWhenReady`, `NoBackOffInJump`, `PowerFollowsMachining` |
| `MotionPositionTheorems` | `TaskGoesOnFromAxis`, `WayBackLeadsHome`, `AxisNeverJumps`, `ContactHoldsAxis` | `TaskHoldsAxis`, `WayBackKept`, `NoCmdAxisJump`, `WarningHoldsAxis` |
| `MotionRefinementTheorems` | `ThreadImplementsService`, `EveryAnswerAsPromised` | `ImplementsService`, `CommandsAsPromised` |
| `GCodeTheorems` | `RunnerTyped`, `ButtonsTellTheTruth`, `PauseForgotten`, `PausedTaskRests`, `NothingLeftRunning`, `GoesOnAfterOwnEnd` | `RunnerTypeOK`, `ButtonsMatch`, `NoStalePause`, `PausedStill`, `NoOrphanTask`, `NodeEndedItself`, with undisturbed waits |
| `CommandQueueTheorems` | `CommandsKept`, `NoLostWakeUp` | `NothingLost`, `NoSleepOnWork` |
| `InterpreterTheorems` | `SettingsCarried`, `EndsExactlyOnce`, `MovesChecked` | `ModalSettings`, `EndsOnce`, `MovesInKnownSystems` |
| `CoordinateTheorems` | `CacheFresh`, `SetReads`, `RestartFinds`, `GroupReadsAsWritten`, `LimitsRespected` | `MachineCacheFresh`, `SetMeansRead`, `RestartKeeps`, `GroupAsWritten`, `LimitsHold` |

They hold for every value of the constants under the named assumptions of the modules
(positive numbers of positions and steps, `Kinds`, `Delays`, `Events` subsets of what
exists, programs that are not empty, numbers where numbers are meant, finitely many
axes).  The numbers that bound a run for TLC - positions, records, segments, commands,
points, queue sizes, values of offsets - are constants like the others, so the theorems
have no bound on them.

*Types.*  `TypeOK` is inductive.  The interesting parts are that every position stays on
the axis (a clamped feed, a deceleration inside the rest of the way, an undo between
recorded points) and that the back-off of a pause never exceeds its distance.

*Modes.*  Neither `ModeMatchesRunner` nor `ResumeFindsPausedTask` is inductive alone:
the end of the way back leaves the recovery only if the task's resume succeeds, which
holds because the task rests paused; and the task rests paused because the runner, in
the states the first property allows, does not run it.  Their conjunction `ModeInv` is
inductive together with `TypeOK`; lemma `PausedTaskResumes` gives the step at the end of
the way back.

*Outputs.*  A task may carry sub-states that an earlier pause left set; `PowerInv` adds
to the two properties that the outputs are off in the back-off itself.

*Position.*  `PosInv` says for each object that writes the commanded position that it
stands where the axis stands whenever its turn comes.  `ManualKept`: the manual move in
Manual.  `LineKept`: the points of a line and of its jump lie on the segment, and a jump
in progress runs to its target.  `AutoKept`: in Auto, either the task commands the axis
from where it stands, or (in a pause) the recorded moves and the one being made lead from
the task to the axis, or (on the way back) the move being undone stands at the axis and
ends where the remaining records begin, with the states of runner, controller and move
matched (`Undoing`, `Undone`, `Leaving`).  Lemmas `PathAppend` and `PathPop` are the two
operations on the record.  A step from one phase to the next changes the writer but not
the position, so the axis never jumps: lemma `MachineCyclePos` gives the bound on each
cycle together with the invariant.

*Refinement.*  `RefInv` adds to these that there is a task in Auto (without one the
runner's answers would not follow from the auto state) and that the link is not ready
before the thread runs.  Lemmas map the starts, the calls of the runner, the other
commands (`StartPromised`, `AutoCallPromised`, `OtherCommandPromised`) and the control
cycle (`AutoCyclePromised`, `RunPromised`, `WorkPromised`) to the service's operators.

*Runner.*  The theorems have the hypothesis `Undisturbed`: in the scenario at hand no
callback falls due in the wait of another operation.  Everything else is free: programs,
operations of the window and the hand box, message boxes and what is done inside them,
lost links, contacts, failing nodes, answers that come after the wait was given up, queue
sizes.  `GInv` is inductive:
`WaitInv` - below the innermost wait there are only message boxes; its command is the
last one in the queue; the commands without a waiter were given up, and a start is given
up only in favour of an abort behind it.
`InfoInv` - the cached copy of the motion state may be old, but it never shows Idle,
Stopped or Paused for a task that is not (a lost link excepted): the copy is written
before the answer.  This is why `_state_running` may take Idle for the end.
`NodeInv` - buttons, delayed pause and index fit the state in which an operation waits.
`MotionInv` - the task that is active is the one of the current node, and none is active
at other nodes, in the middle of an operation too, depending on its answer.
The lemmas `...Fine` follow the methods of the runner, those named `...Keeps` the steps
of the system.

*Queue.*  `QueueInv` adds that only a worker about to run holds a command.

*Interpreter.*  `ModalSettings` speaks of the list; the commands are made from `env`.  The
invariant `EnvironmentCurrent` ties the two: a setting that `env` has is the one of the
latest setting command in the list.  `EndMarked` ties the end flag to the last command
and `TasksLooked` the task list to the converter's loop and to the look before the start.
Lemma `TaskListFacts` says what that loop makes of a list of any length: it keeps the
supported commands, so that an end that was last stays last, and drops the others.

*Coordinates.*  `CoordInv` is the types, `MachineCacheFresh` (the reason why
`SetMeansRead` holds), and that the file is torn exactly during a save
and otherwise holds the rounded configuration; `KeptTwice` and `JsonTwice` say that
rounding a second time changes nothing, so restarts do not drift.  For groups,
`SegmentsChain` says that the increments lead from point to point, `GroupEndSegment` that
their sum after n points is the target of the n-th, and `ReadsSegment` that this target
reads as written.  For limits, `CheckedInside` says that a move which passes the check
takes no axis further beyond either of its limits, so that
none crosses to the other side (`Beyond` measures each limit by itself); a group is a chain of such moves (`GroupInside`), a shortened
touch move and a jog are made as long as the nearest limit allows (`AlongInside`, over
`SmallestValue`, the only place where the number of axes has to be finite).
`IndexKnown`: the current system is one that exists, across restarts with another file.

*Loops.*  The library's induction schemes quantify over operators, which the provers
cannot instantiate.  `LoopTheorems` states what the proofs need about sets and functions
instead: a set of numbers that holds 0 and is closed under the step of a loop holds all of
`0..n` (`LoopInvariant`, from the least number principle `Least`), and the function a loop
computes exists and is unique (`LoopExists`, `LoopSame`).

Only model-checked: the progress properties `RequestsComplete`, `ManualMoveEnds`,
`EveryCommandRuns`, `PauseHonoured`, `StopEnds`, `WaitsEnd` (liveness under fairness is
outside this prover), and `PausedStill` and `RunnerTypeOK` with callbacks
inside waits (scenarios `Nested`, `NestedBox`), where any number of steps of the runner may be suspended
in each other and the invariant has to speak of every frame of the stack.

## 5. Not modelled, and the plan

1. The proofs of `PausedStill`, and of `RunnerTypeOK` for programs without touch moves,
   without `Undisturbed`: an invariant of every suspended frame in place of `WaitInv`'s "message boxes only".
2. The decoding of received frames and the CRC as operators against reference
   definitions.

Left out for good: device I/O (EtherCAT, CAN, power, servo board), whose answers are the
environment's choices; the display and the dialogs of the Qt panels; settings and logging;
the drill task, which this configuration does not compile; the reals behind the speed
plan and the filters.  The Python files other than `rs274.py` are G-code programs written
by a CAM post-processor (one call of the interpreter per line, with numbers) and scripts
that plot recorded data; they are inputs and tools of the controller and hold none of its
logic, so nothing in them is mapped.  Nearly all the code modelled here is C++.

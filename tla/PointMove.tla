----------------------------- MODULE PointMove -----------------------------
(***************************************************************************)
(* One accelerated point-to-point move: PointMoveHandler on top of         *)
(* MoveruntimeWrapper on top of the S-curve planner Moveruntime.  Four     *)
(* objects of the motion thread own one: the state machine (manual moves), *)
(* the pause-move controller (moves made while an auto task is paused),    *)
(* the G00 task and the jump of the G01 task.                              *)
(*                                                                         *)
(* Positions are points of one axis on a grid.  The S-curve is abstracted  *)
(* to what its users can tell apart: in every control cycle the move gets  *)
(* closer to the end of the current plan by one to MaxStep grid units, the *)
(* cycle after the end is reached the plan is over, and the speed is zero  *)
(* from a (re)plan until the first cycle that runs it.                     *)
(***************************************************************************)
EXTENDS Integers

CONSTANTS MaxPos,   \* the axis travels over 0..MaxPos
          MaxStep   \* the longest distance covered in one control cycle

ASSUME PointMoveAssumption == MaxPos \in Nat \ {0} /\ MaxStep \in Nat \ {0}

Pos == 0..MaxPos

\* MoveruntimeWrapper::State
MrtState == {"NotStarted", "Running", "Pausing", "Paused", "Stopping", "Stopped"}

\* start, target and curr are start_pos_, target_pos_ and curr_pos_ of the
\* handler; goal is where the plan being run ends (the target, or the point
\* where a deceleration ends); moving says that get_current_speed() > 0.
PointMoves == [st : MrtState, start : Pos, target : Pos, goal : Pos,
               curr : Pos, moving : BOOLEAN]

\* A handler that was never started.
IdlePm == [st |-> "NotStarted", start |-> 0, target |-> 0, goal |-> 0,
           curr |-> 0, moving |-> FALSE]

----------------------------------------------------------------------------
Abs(n) == IF n < 0 THEN -n ELSE n

Between(a, b) == {x \in Pos : (a <= x /\ x <= b) \/ (b <= x /\ x <= a)}

\* The points after c on the way to g, and those one cycle can reach.
Ahead(c, g) == Between(c, g) \ {c}
Toward(c, g) == {x \in Ahead(c, g) : Abs(x - c) <= MaxStep}

PmOver(p) == p.st \in {"Stopped", "NotStarted"}

\* The call's answer and the handler after it.
PmResult(ok, p) == [ok |-> ok, pm |-> p]

\* PointMoveHandler::start: the positions are overwritten before the plan is
\* tried, and the plan fails (state untouched) when there is nowhere to go.
PmStart(p, from, to) ==
    LET placed == [p EXCEPT !.start = from, !.target = to, !.curr = from]
    IN  IF from = to
          THEN PmResult(FALSE, placed)
          ELSE PmResult(TRUE, [placed EXCEPT !.st = "Running", !.goal = to,
                                             !.moving = FALSE])

\* Nothing to decelerate from: speed zero or no length left.
PmAtRest(p) == ~p.moving \/ p.curr = p.target

\* The replan that decelerates to a stop within the remaining length.
PmDecelerate(p, st) ==
    {PmResult(TRUE, [p EXCEPT !.st = st, !.goal = g, !.moving = FALSE])
        : g \in Between(p.curr, p.target)}

PmPause(p) ==
    CASE p.st \in {"Pausing", "Paused"} -> {PmResult(TRUE, p)}
      [] p.st = "Running" /\ PmAtRest(p) ->
            {PmResult(TRUE, [p EXCEPT !.st = "Paused"])}
      [] p.st = "Running" /\ ~PmAtRest(p) -> PmDecelerate(p, "Pausing")
      [] OTHER -> {PmResult(FALSE, p)}

\* Resuming with no length left ends the move.
PmResume(p) ==
    IF p.st # "Paused" THEN PmResult(FALSE, p)
    ELSE IF p.curr = p.target
      THEN PmResult(TRUE, [p EXCEPT !.st = "Stopped"])
      ELSE PmResult(TRUE, [p EXCEPT !.st = "Running", !.goal = p.target,
                                    !.moving = FALSE])

PmStop(p, immediate) ==
    CASE immediate -> {PmResult(TRUE, [p EXCEPT !.st = "Stopped"])}
      [] ~immediate /\ p.st = "NotStarted" -> {PmResult(FALSE, p)}
      [] ~immediate /\ p.st = "Pausing" ->
            {PmResult(TRUE, [p EXCEPT !.st = "Stopping"])}
      [] ~immediate /\ p.st = "Running" /\ ~PmAtRest(p) ->
            PmDecelerate(p, "Stopping")
      [] ~immediate /\ (p.st = "Paused" \/ (p.st = "Running" /\ PmAtRest(p))) ->
            {PmResult(TRUE, [p EXCEPT !.st = "Stopped"])}
      [] OTHER -> {PmResult(TRUE, p)}

\* clear(): start overwrites every position before one is read again, so the
\* old ones are forgotten here.
PmClear == IdlePm

\* One control cycle.
PmRunOnce(p) ==
    IF p.st \notin {"Running", "Pausing", "Stopping"} THEN {p}
    ELSE IF p.curr = p.goal
      THEN {[p EXCEPT !.st = IF p.st = "Pausing" THEN "Paused" ELSE "Stopped",
                      !.moving = FALSE]}
      ELSE {[p EXCEPT !.curr = c, !.moving = TRUE] : c \in Toward(p.curr, p.goal)}

============================================================================

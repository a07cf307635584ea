------------------------ MODULE PauseMoveController ------------------------
(***************************************************************************)
(* The moves an operator may make while an auto task is paused, and the    *)
(* way back.  Every manual move is recorded on a stack; when the task is   *)
(* resumed the recorded moves are undone one after the other, so that the  *)
(* task goes on from the point where it was paused.                        *)
(*                                                                         *)
(* Operators named pmc_x model PauseMoveController::x.  One that returns a *)
(* value takes it as its first argument and is enabled for that value.     *)
(***************************************************************************)
EXTENDS MotionSharedData, Sequences

VARIABLES pmc_state,      \* PauseMoveController::State
          pmc_pm,         \* its PointMoveHandler
          axis_recorder   \* the stack of undone-able moves, top last

pmcVars == <<pmc_state, pmc_pm, axis_recorder>>

PmcState == {"NotInited", "AllowManualPointMove", "ManualPointMoving",
             "Recovering", "RecoveringPausing", "RecoveringPaused",
             "RecorverOver", "OutSideStopping", "OutSideOrErrorStopped"}

AxisRecord == [start : Pos, stop : Pos]

PmcTypeOK ==
    /\ pmc_state \in PmcState
    /\ pmc_pm \in PointMoves
    /\ axis_recorder \in Seq(AxisRecord)

Top(s) == s[Len(s)]
Pop(s) == SubSeq(s, 1, Len(s) - 1)

----------------------------------------------------------------------------
pmc_init ==
    /\ pmc_state' = "AllowManualPointMove"
    /\ pmc_pm' = PmClear
    /\ axis_recorder' = <<>>

\* A manual move starts at the commanded position; ManualPointMoveStarted is
\* set exactly when ret is TRUE.
pmc_start_manual_pointmove(ret, target) ==
    \/ /\ pmc_state # "AllowManualPointMove"
       /\ ret = FALSE
       /\ UNCHANGED pmcVars
    \/ /\ pmc_state = "AllowManualPointMove"
       /\ LET r == PmStart(pmc_pm, cmd_axis, target)
          IN  /\ ret = r.ok
              /\ pmc_pm' = r.pm
              /\ pmc_state' = IF r.ok THEN "ManualPointMoving" ELSE pmc_state
       /\ UNCHANGED axis_recorder

pmc_stop_manual_pointmove(ret, immediate) ==
    \/ /\ pmc_state # "ManualPointMoving"
       /\ ret = FALSE
       /\ UNCHANGED pmcVars
    \/ /\ pmc_state = "ManualPointMoving"
       /\ \E r \in PmStop(pmc_pm, immediate) : ret = r.ok /\ pmc_pm' = r.pm
       /\ UNCHANGED <<pmc_state, axis_recorder>>

\* Mutant: the answer of the point move is not looked at.
pmc_pause_recover_Unchecked(ret) ==
    \/ /\ pmc_state = "Recovering"
       /\ ret = TRUE
       /\ \E r \in PmPause(pmc_pm) : pmc_pm' = r.pm
       /\ pmc_state' = "RecoveringPausing"
       /\ UNCHANGED axis_recorder
    \/ /\ pmc_state # "Recovering"
       /\ ret = (pmc_state \in {"RecoveringPausing", "RecoveringPaused"})
       /\ UNCHANGED pmcVars

\* Pausing the way back fails between two recorded moves.
pmc_pause_recover(ret) ==
    \/ /\ pmc_state \in {"RecoveringPausing", "RecoveringPaused"}
       /\ ret = TRUE
       /\ UNCHANGED pmcVars
    \/ /\ pmc_state = "Recovering"
       /\ \E r \in PmPause(pmc_pm) :
            /\ ret = r.ok
            /\ pmc_pm' = r.pm
            /\ pmc_state' = IF r.ok THEN "RecoveringPausing" ELSE pmc_state
       /\ UNCHANGED axis_recorder
    \/ /\ pmc_state \notin {"RecoveringPausing", "RecoveringPaused", "Recovering"}
       /\ ret = FALSE
       /\ UNCHANGED pmcVars

\* Mutant: the state goes on, the point move is left paused.
pmc_resume_recover_MoveLeftPaused(ret) ==
    /\ ret = (pmc_state \in {"Recovering", "RecorverOver", "RecoveringPaused"})
    /\ pmc_state' = IF pmc_state = "RecoveringPaused" THEN "Recovering" ELSE pmc_state
    /\ UNCHANGED <<pmc_pm, axis_recorder>>

pmc_resume_recover(ret) ==
    \/ /\ pmc_state \in {"Recovering", "RecorverOver"}
       /\ ret = TRUE
       /\ UNCHANGED pmcVars
    \/ /\ pmc_state = "RecoveringPaused"
       /\ LET r == PmResume(pmc_pm)
          IN  /\ ret = r.ok
              /\ pmc_pm' = r.pm
              /\ pmc_state' = IF r.ok THEN "Recovering" ELSE pmc_state
       /\ UNCHANGED axis_recorder
    \/ /\ pmc_state \notin {"Recovering", "RecorverOver", "RecoveringPaused"}
       /\ ret = FALSE
       /\ UNCHANGED pmcVars

\* The top record is undone from where it stopped to where it started.
UndoTop ==
    LET top == Top(axis_recorder)
    IN  PmStart(pmc_pm, top.stop, top.start)

\* Nothing recorded: the way back is over at once.
pmc_activate_recover(ret) ==
    \/ /\ pmc_state = "ManualPointMoving"
       /\ ret = FALSE
       /\ UNCHANGED pmcVars
    \/ /\ pmc_state \in {"Recovering", "RecorverOver", "RecoveringPaused"}
       /\ pmc_resume_recover(ret)
    \/ /\ pmc_state \notin {"ManualPointMoving", "Recovering", "RecorverOver",
                            "RecoveringPaused"}
       /\ axis_recorder = <<>>
       /\ ret = TRUE
       /\ pmc_state' = "RecorverOver"
       /\ UNCHANGED <<pmc_pm, axis_recorder>>
    \/ /\ pmc_state \notin {"ManualPointMoving", "Recovering", "RecorverOver",
                            "RecoveringPaused"}
       /\ axis_recorder # <<>>
       /\ ret = UndoTop.ok
       /\ pmc_pm' = UndoTop.pm
       /\ axis_recorder' = Pop(axis_recorder)
       /\ pmc_state' = IF UndoTop.ok THEN "Recovering" ELSE "OutSideOrErrorStopped"

pmc_stop(ret, immediate) ==
    \/ /\ pmc_state \in {"AllowManualPointMove", "OutSideOrErrorStopped",
                         "RecorverOver", "RecoveringPaused"}
       /\ ret = TRUE
       /\ pmc_state' = "OutSideOrErrorStopped"
       /\ UNCHANGED <<pmc_pm, axis_recorder>>
    \/ /\ pmc_state = "OutSideStopping"
       /\ ret = TRUE
       /\ UNCHANGED pmcVars
    \/ /\ pmc_state \in {"ManualPointMoving", "Recovering", "RecoveringPausing"}
       /\ ret = TRUE
       /\ \E r \in PmStop(pmc_pm, immediate) : pmc_pm' = r.pm
       /\ pmc_state' = "OutSideStopping"
       /\ UNCHANGED axis_recorder
    \/ /\ pmc_state = "NotInited"
       /\ ret = FALSE
       /\ UNCHANGED pmcVars

----------------------------------------------------------------------------
(* run_once, one operator per state.  pmc_raised is the signal that         *)
(* run_once sets in this cycle.                                            *)
pmc_raised ==
    IF pmc_state = "ManualPointMoving" /\ PmOver(pmc_pm)
      THEN {"ManualPointMoveStopped"} ELSE {}

\* The commanded position follows the controller's point move.
Follow(moves) == \E p \in moves : pmc_pm' = p /\ cmd_axis' = p.curr

\* Mutants: the target is recorded instead of the point reached; a move that
\* was stopped on its way is not recorded.
PlannedRecord == [start |-> pmc_pm.start, stop |-> pmc_pm.target]

pmc_manual_pointmoving_Ended(recs) ==
    /\ PmOver(pmc_pm)
    /\ touch' = SetDetectEnable(touch, FALSE)
    /\ axis_recorder' = recs
    /\ pmc_state' = "AllowManualPointMove"
    /\ UNCHANGED <<pmc_pm, cmd_axis>>

pmc_manual_pointmoving_Moving ==
    /\ ~PmOver(pmc_pm)
    /\ Follow(PmRunOnce(pmc_pm))
    /\ UNCHANGED <<pmc_state, axis_recorder, touch>>

pmc_manual_pointmoving_RecordsTarget ==
    \/ pmc_manual_pointmoving_Ended(Append(axis_recorder, PlannedRecord))
    \/ pmc_manual_pointmoving_Moving

pmc_manual_pointmoving_StoppedLost ==
    \/ pmc_manual_pointmoving_Ended(
         IF pmc_pm.curr # pmc_pm.target THEN axis_recorder
         ELSE Append(axis_recorder, PlannedRecord))
    \/ pmc_manual_pointmoving_Moving

\* A finished manual move is recorded unless it ended where it started.  A
\* contact stops the move at once; the next cycle sees that it is over.
pmc_manual_pointmoving ==
    \/ /\ PmOver(pmc_pm)
       /\ touch' = SetDetectEnable(touch, FALSE)
       /\ axis_recorder' =
            IF pmc_pm.start = pmc_pm.curr THEN axis_recorder
            ELSE Append(axis_recorder, [start |-> pmc_pm.start,
                                        stop |-> pmc_pm.curr])
       /\ pmc_state' = "AllowManualPointMove"
       /\ UNCHANGED <<pmc_pm, cmd_axis>>
    \/ /\ ~PmOver(pmc_pm)
       /\ \E contact \in BOOLEAN :
            /\ touch' = TouchAfter(touch, contact)
            /\ IF TouchHit(touch, contact)
                 THEN \E r \in PmStop(pmc_pm, TRUE) : Follow(PmRunOnce(r.pm))
                 ELSE Follow(PmRunOnce(pmc_pm))
       /\ UNCHANGED <<pmc_state, axis_recorder>>

\* Mutant: the way back is over after the first move that is undone.
pmc_recovering_OneMove ==
    /\ IF PmOver(pmc_pm)
         THEN pmc_state' = "RecorverOver" /\ UNCHANGED <<pmc_pm, cmd_axis>>
         ELSE Follow(PmRunOnce(pmc_pm)) /\ UNCHANGED pmc_state
    /\ UNCHANGED <<axis_recorder, touch>>

\* Contacts are not looked at on the way back.
pmc_recovering ==
    /\ \/ /\ PmOver(pmc_pm)
          /\ axis_recorder = <<>>
          /\ pmc_state' = "RecorverOver"
          /\ UNCHANGED <<pmc_pm, axis_recorder, cmd_axis>>
       \/ /\ PmOver(pmc_pm)
          /\ axis_recorder # <<>>
          /\ pmc_pm' = UndoTop.pm
          /\ axis_recorder' = Pop(axis_recorder)
          /\ UNCHANGED <<pmc_state, cmd_axis>>
       \/ /\ ~PmOver(pmc_pm)
          /\ Follow(PmRunOnce(pmc_pm))
          /\ UNCHANGED <<pmc_state, axis_recorder>>
    /\ UNCHANGED touch

pmc_recovering_pausing ==
    /\ \/ /\ pmc_pm.st = "Paused"
          /\ pmc_state' = "RecoveringPaused"
          /\ UNCHANGED <<pmc_pm, cmd_axis>>
       \/ /\ pmc_pm.st # "Paused"
          /\ Follow(PmRunOnce(pmc_pm))
          /\ UNCHANGED pmc_state
    /\ UNCHANGED <<axis_recorder, touch>>

\* Mutant: the decelerating move is not run any more.
pmc_outside_stopping_NotRun ==
    /\ pmc_state' = IF PmOver(pmc_pm) THEN "OutSideOrErrorStopped" ELSE pmc_state
    /\ UNCHANGED <<pmc_pm, axis_recorder, cmd_axis, touch>>

pmc_outside_stopping ==
    /\ \/ /\ PmOver(pmc_pm)
          /\ pmc_state' = "OutSideOrErrorStopped"
          /\ UNCHANGED <<pmc_pm, cmd_axis>>
       \/ /\ ~PmOver(pmc_pm)
          /\ Follow(PmRunOnce(pmc_pm))
          /\ UNCHANGED pmc_state
    /\ UNCHANGED <<axis_recorder, touch>>

pmc_run_once ==
    \/ pmc_state = "ManualPointMoving" /\ pmc_manual_pointmoving
    \/ pmc_state = "Recovering" /\ pmc_recovering
    \/ pmc_state = "RecoveringPausing" /\ pmc_recovering_pausing
    \/ pmc_state = "OutSideStopping" /\ pmc_outside_stopping
    \/ /\ pmc_state \notin {"ManualPointMoving", "Recovering",
                            "RecoveringPausing", "OutSideStopping"}
       /\ UNCHANGED <<pmcVars, cmd_axis, touch>>

=============================================================================

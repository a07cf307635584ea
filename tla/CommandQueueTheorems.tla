------------------------ MODULE CommandQueueTheorems ------------------------
(***************************************************************************)
(* What holds of the command queue for any number of commands.             *)
(***************************************************************************)
EXTENDS GlobalCommandQueue, SequenceTheorems, TLAPS

\* Moving the head of a queue to the end of what is in front of it.
LEMMA ShiftHead ==
    ASSUME NEW S, NEW s \in Seq(S), NEW q \in Seq(S), q # <<>>
    PROVE  /\ <<Head(q)>> \in Seq(S)
           /\ Tail(q) \in Seq(S)
           /\ s \o <<Head(q)>> \o Tail(q) = s \o q
<1>1. Head(q) \in S /\ Tail(q) \in Seq(S) /\ Len(Tail(q)) = Len(q) - 1
    BY HeadTailProperties
<1>2. <<Head(q)>> \in Seq(S)
    BY <1>1
<1>3. <<Head(q)>> \o Tail(q) = q
    BY <1>1, EmptySeq
<1>4. s \o <<Head(q)>> \o Tail(q) = s \o (<<Head(q)>> \o Tail(q))
    BY <1>1, <1>2, ConcatAssociative
<1> QED BY <1>1, <1>2, <1>3, <1>4

\* Appending to a queue appends to what it is a part of.
LEMMA ConcatAppend ==
    ASSUME NEW S, NEW s \in Seq(S), NEW q \in Seq(S), NEW x \in S
    PROVE  s \o Append(q, x) = Append(s \o q, x)
BY AppendProperties, ConcatProperties

\* Only a worker that is about to run a command holds one.
HeldToRun == worker # "run" => fetched = <<>>

\* The inductive invariant: the command in the worker's hands would be
\* overwritten by the next fetch if it could outlive its run.
QueueInv == TypeOK /\ NothingLost /\ NoSleepOnWork /\ HeldToRun

\* Every step of a client, the worker or the owner keeps the invariant.
LEMMA QueueInvStep == QueueInv /\ [Next]_vars => QueueInv'
<1> SUFFICES ASSUME QueueInv, [Next]_vars PROVE QueueInv'
    OBVIOUS
<1> USE DEF QueueInv, TypeOK, HeldToRun
<1> DEFINE front == executed \o fetched
<1>0. front \in Seq(Commands)
    BY ConcatProperties
<1>1. CASE push_command
  <2>1. Len(pushed) + 1 \in Commands
      BY <1>1, LenProperties, GcqAssumption DEF push_command, PushNext, Commands
  <2>2. /\ command_queue' \in Seq(Commands)
        /\ pushed' \in Seq(Commands)
      BY <1>1, <2>1, AppendProperties DEF push_command, PushNext
  <2>3. front \o command_queue' = pushed'
    <3>1. front \o Append(command_queue, Len(pushed) + 1)
            = Append(front \o command_queue, Len(pushed) + 1)
      <4> HIDE DEF front
      <4> QED BY <1>0, <2>1, ConcatAppend
    <3>2. front \o command_queue = pushed
        BY DEF NothingLost
    <3> HIDE DEF front
    <3> QED BY <1>1, <3>1, <3>2 DEF push_command, PushNext
  <2> QED BY <1>1, <2>2, <2>3 DEF push_command, NothingLost, NoSleepOnWork, Notified, Locked
<1>2. CASE worker_fetch
  <2>1. CASE command_queue = <<>>
      BY <1>2, <2>1 DEF worker_fetch, NothingLost, NoSleepOnWork
  <2>2. CASE command_queue # <<>>
    <3>1. /\ fetched' \in Seq(Commands) /\ command_queue' \in Seq(Commands)
          /\ executed \o fetched' \o command_queue' = executed \o command_queue
        BY <1>2, <2>2, ShiftHead DEF worker_fetch
    <3>2. executed \o fetched = executed
        BY <1>2 DEF worker_fetch
    <3> QED BY <1>2, <3>1, <3>2 DEF worker_fetch, NothingLost, NoSleepOnWork
  <2> QED BY <2>1, <2>2
<1>3. CASE worker_run
  <2>1. front \o <<>> = front
      BY <1>0
  <2> QED BY <1>0, <1>3, <2>1 DEF worker_run, NothingLost, NoSleepOnWork
<1>4. CASE worker_lock \/ worker_test \/ worker_block \/ worker_check \/ SpuriousWake
    BY <1>4 DEF worker_lock, worker_test, worker_block, worker_check, SpuriousWake,
                NothingLost, NoSleepOnWork
<1>5. CASE SetExitFlag \/ Destructor
    BY <1>5 DEF SetExitFlag, Destructor, NotifyExit, Join, Notified, NothingLost,
                NoSleepOnWork
<1>6. CASE UNCHANGED vars
    BY <1>6 DEF vars, NothingLost, NoSleepOnWork
<1> QED BY <1>1, <1>2, <1>3, <1>4, <1>5, <1>6 DEF Next, Worker

\* The inductive invariant holds in every state.
LEMMA QueueInvAlways == Spec => []QueueInv
<1>1. Init => QueueInv
  <2>1. <<>> \in Seq(Commands)
      OBVIOUS
  <2>2. Init => TypeOK
      BY <2>1 DEF Init, TypeOK
  <2>3. Init => NothingLost
    <3>1. <<>> \o <<>> \o <<>> = <<>>
        BY <2>1, ConcatEmptySeq
    <3> QED BY <3>1 DEF Init, NothingLost
  <2> QED BY <2>2, <2>3 DEF Init, QueueInv, NoSleepOnWork, HeldToRun
<1> QED BY <1>1, QueueInvStep, PTL DEF Spec

\* Every pushed command is run exactly once and in order, or still waits.
THEOREM CommandsKept == Spec => []NothingLost
<1>1. QueueInv => NothingLost
    BY DEF QueueInv
<1> QED BY <1>1, QueueInvAlways, PTL

\* The worker never sleeps while a command waits.
THEOREM NoLostWakeUp == Spec => []NoSleepOnWork
<1>1. QueueInv => NoSleepOnWork
    BY DEF QueueInv
<1> QED BY <1>1, QueueInvAlways, PTL

=============================================================================

------------------------- MODULE GlobalCommandQueue -------------------------
(***************************************************************************)
(* GlobalCommandQueue: a worker thread runs the commands that clients push *)
(* on a queue.  The worker sleeps on a condition variable while there is   *)
(* nothing to do; the destructor asks it to exit and joins it.             *)
(*                                                                         *)
(* cv_.wait(lock, predicate) is three steps: the predicate is evaluated    *)
(* under the lock, the worker blocks, which releases the lock in the same  *)
(* step, and after a notification it takes the lock and evaluates again.   *)
(***************************************************************************)
EXTENDS Naturals, Sequences

CONSTANT MaxCommands   \* bound on the commands pushed
ASSUME GcqAssumption == MaxCommands \in Nat

VARIABLES command_queue,     \* command_queue_
          thread_exit_flag,  \* thread_exit_flag_
          worker,            \* where the worker is in _run
          fetched,           \* fetched_cmd: <<>> or the one command
          owner,             \* where the owner is in the destructor
          pushed,            \* every command pushed so far, in order
          executed           \* every command run so far, in order

vars == <<command_queue, thread_exit_flag, worker, fetched, owner, pushed, executed>>

\* The commands are numbered as they come.
Commands == 1..MaxCommands

TypeOK ==
    /\ command_queue \in Seq(Commands)
    /\ thread_exit_flag \in BOOLEAN
    /\ worker \in {"lock", "test", "block", "asleep", "fetch", "run", "check", "exited"}
    /\ fetched \in Seq(Commands)
    /\ owner \in {"alive", "notify", "join", "gone"}
    /\ pushed \in Seq(Commands)
    /\ executed \in Seq(Commands)

Init ==
    /\ command_queue = <<>> /\ thread_exit_flag = FALSE
    /\ worker = "lock" /\ fetched = <<>> /\ owner = "alive"
    /\ pushed = <<>> /\ executed = <<>>

\* The worker holds mutex_ from lock to block or fetch.
Locked == worker \in {"test", "block", "fetch"}

\* notify_all: a sleeping worker goes for the lock.
Notified == IF worker = "asleep" THEN "lock" ELSE worker

----------------------------------------------------------------------------
(* The clients.                                                            *)

\* Appends the next command.
PushNext ==
    /\ Len(pushed) < MaxCommands
    /\ command_queue' = Append(command_queue, Len(pushed) + 1)
    /\ pushed' = Append(pushed, Len(pushed) + 1)

\* Mutants: the lock is not taken; the worker is not notified.
push_command_Unlocked ==
    /\ owner = "alive"
    /\ PushNext
    /\ worker' = Notified
    /\ UNCHANGED <<thread_exit_flag, fetched, owner, executed>>

push_command_Silent ==
    /\ owner = "alive" /\ ~Locked
    /\ PushNext
    /\ UNCHANGED <<worker, thread_exit_flag, fetched, owner, executed>>

\* The notification is given under the lock.
push_command ==
    /\ owner = "alive" /\ ~Locked
    /\ PushNext
    /\ worker' = Notified
    /\ UNCHANGED <<thread_exit_flag, fetched, owner, executed>>

----------------------------------------------------------------------------
(* The worker thread, _run.                                                *)

worker_lock ==
    /\ worker = "lock"
    /\ worker' = "test"
    /\ UNCHANGED <<command_queue, thread_exit_flag, fetched, owner, pushed, executed>>

worker_test ==
    /\ worker = "test"
    /\ worker' = IF thread_exit_flag \/ command_queue # <<>> THEN "fetch" ELSE "block"
    /\ UNCHANGED <<command_queue, thread_exit_flag, fetched, owner, pushed, executed>>

worker_block ==
    /\ worker = "block"
    /\ worker' = "asleep"
    /\ UNCHANGED <<command_queue, thread_exit_flag, fetched, owner, pushed, executed>>

\* Mutant: the command is read but stays in the queue.
worker_fetch_NoPop ==
    /\ worker = "fetch"
    /\ fetched' = IF command_queue = <<>> THEN <<>> ELSE <<Head(command_queue)>>
    /\ worker' = "run"
    /\ UNCHANGED <<command_queue, thread_exit_flag, owner, pushed, executed>>

worker_fetch ==
    /\ worker = "fetch"
    /\ fetched' = IF command_queue = <<>> THEN <<>> ELSE <<Head(command_queue)>>
    /\ command_queue' = IF command_queue = <<>> THEN <<>> ELSE Tail(command_queue)
    /\ worker' = "run"
    /\ UNCHANGED <<thread_exit_flag, owner, pushed, executed>>

\* The command runs without the lock.
worker_run ==
    /\ worker = "run"
    /\ executed' = executed \o fetched
    /\ fetched' = <<>>
    /\ worker' = "check"
    /\ UNCHANGED <<command_queue, thread_exit_flag, owner, pushed>>

worker_check ==
    /\ worker = "check"
    /\ worker' = IF thread_exit_flag THEN "exited" ELSE "lock"
    /\ UNCHANGED <<command_queue, thread_exit_flag, fetched, owner, pushed, executed>>

Worker == \/ worker_lock \/ worker_test \/ worker_block \/ worker_fetch
          \/ worker_run \/ worker_check

\* A condition variable may wake without a notification.
SpuriousWake ==
    /\ worker = "asleep"
    /\ worker' = "lock"
    /\ UNCHANGED <<command_queue, thread_exit_flag, fetched, owner, pushed, executed>>

----------------------------------------------------------------------------
(* ~GlobalCommandQueue.                                                    *)

\* The flag is set without the lock.
SetExitFlag ==
    /\ owner = "alive"
    /\ owner' = "notify"
    /\ thread_exit_flag' = TRUE
    /\ UNCHANGED <<command_queue, worker, fetched, pushed, executed>>

NotifyExit ==
    /\ owner = "notify"
    /\ owner' = "join"
    /\ worker' = Notified
    /\ UNCHANGED <<command_queue, thread_exit_flag, fetched, pushed, executed>>

Join ==
    /\ owner = "join" /\ worker = "exited"
    /\ owner' = "gone"
    /\ UNCHANGED <<command_queue, thread_exit_flag, worker, fetched, pushed, executed>>

Destructor == NotifyExit \/ Join

----------------------------------------------------------------------------
Next == push_command \/ Worker \/ SpuriousWake \/ SetExitFlag \/ Destructor

\* Both threads are scheduled; nobody has to push a command or to destroy
\* the queue, and no spurious wake-up has to come.
Spec == Init /\ [][Next]_vars /\ WF_vars(Worker) /\ WF_vars(Destructor)

----------------------------------------------------------------------------
\* Every command that was pushed is run once, in the order of the pushes, or
\* still waits for its turn.
NothingLost == executed \o fetched \o command_queue = pushed

\* The worker never goes to sleep on a command: none can slip in between its
\* look at the queue and its sleep, because the lock covers both.
NoSleepOnWork == worker \in {"block", "asleep"} => command_queue = <<>>

\* A command is run unless the queue is destroyed first.
EveryCommandRuns ==
    \A n \in Commands :
      (Len(pushed) >= n) ~> (Len(executed) >= n \/ thread_exit_flag)

\* ~GlobalCommandQueue wakes a worker that may be asleep so that it exits.
\* The flag and the notification may both come between the worker's look at
\* the flag and its sleep, and the join then waits for ever.
DestructorReturns == (owner = "notify") ~> (owner = "gone")

=============================================================================

---------------------------- MODULE JobDispatch ----------------------------
(***************************************************************************)
(* How jobs get from the callers to the worker threads and their results   *)
(* back: the mutex and condition variable of each queue, the flags finished*)
(* and error a caller waits for, the start of the threads in the           *)
(* constructor and their end in the destructor (insecure-lockmanager, and  *)
(* the same code in the enclaves).  What a job does to the tables is the   *)
(* subject of module LockManager; here it succeeds or fails.               *)
(*                                                                         *)
(* Threads take the number of the queue they serve in the order in which   *)
(* they get to run, which need not be the order of pthread_create.  In the *)
(* enclave variants it is the worker that initialises the mutex and the    *)
(* condition variable of its queue, and destroys them when it ends.  The   *)
(* destructor sends QUIT and joins the threads, but not in demand-paging:  *)
(* there this is commented out, and the enclave is destroyed with the      *)
(* workers, and the jobs that are queued, in it.                           *)
(***************************************************************************)
EXTENDS Integers, Sequences, FiniteSets

CONSTANTS
  NumThreads,     \* worker threads, and queues
  Client,         \* threads that call create_job
  MaxCalls,       \* bound: the calls a client makes
  Builds,         \* the lock managers to look at
  EarlyCalls      \* FALSE: calls come to an enclave only when all threads have started

ASSUME NumThreadsAssumption == NumThreads \in Nat \ {0}
ASSUME MaxCallsAssumption == MaxCalls \in Nat
ASSUME VariantAssumption ==
  /\ Builds \subseteq {"insecure", "demand_paging", "out_of_enclave"}
  /\ EarlyCalls \in BOOLEAN

CONSTANTS Main, Nobody, Raw, Destroyed

Thread == 0..(NumThreads - 1)
Queue == Thread

\* Threads and the states of a mutex are told apart.
ASSUME ActorAssumption ==
  /\ {Nobody, Raw, Destroyed} \cap (Thread \cup Client \cup {Main}) = {}
  /\ Nobody # Raw /\ Nobody # Destroyed /\ Raw # Destroyed
  /\ Client \cap Thread = {} /\ Main \notin Client \cup Thread

\* A job somebody waits for names its caller, who owns its flags.
Work(caller) == [command |-> "WORK", caller |-> caller]
QUIT == [command |-> "QUIT", caller |-> Nobody]

VARIABLES
  build,      \* which of the lock managers it is; never changes
  num,        \* the number the next thread takes
  main,       \* constructor and destructor: [step, i]
  mutex,      \* of each queue: who holds it, or Nobody, Raw or Destroyed
  queue,      \* the jobs of each queue
  worker,     \* of each thread: [step, id, job]
  client,     \* of each client: [step, queue, wait, calls]
  flags       \* of each client's call: [alive, finished, error]

vars == <<build, num, main, mutex, queue, worker, client, flags>>

\* The workers, their mutexes and the queues are in an enclave.
inEnclave == build # "insecure"

Init ==
  /\ build \in Builds
  /\ num = 0
  /\ main = [step |-> "construct", i |-> 0]
  /\ mutex = [q \in Queue |-> Raw]
  /\ queue = [q \in Queue |-> <<>>]
  /\ worker = [th \in Thread |-> [step |-> "absent", id |-> 0, job |-> QUIT]]
  /\ client = [c \in Client |-> [step |-> "idle", queue |-> 0, wait |-> FALSE, calls |-> 0]]
  /\ flags = [c \in Client |-> [alive |-> FALSE, finished |-> FALSE, error |-> FALSE]]

-----------------------------------------------------------------------------
(* The mutex of a queue.  One that nobody initialised, or that was          *)
(* destroyed, keeps nobody out.                                             *)

CanLock(q) == mutex[q] \in {Nobody, Raw, Destroyed}

Lock(q, self) ==
  /\ CanLock(q)
  /\ mutex' = [mutex EXCEPT ![q] = IF @ = Destroyed THEN @ ELSE self]

Unlocked(q) == [mutex EXCEPT ![q] = IF @ = Destroyed THEN @ ELSE Nobody]

\* Fault: nobody is woken up.
SignalNobody(q) == worker

\* pthread_cond_signal: the thread that sleeps on queue q goes for the mutex.
Signal(q) ==
  [th \in Thread |->
     IF worker[th].step = "asleep" /\ worker[th].id = q
     THEN [worker[th] EXCEPT !.step = "lock"] ELSE worker[th]]

-----------------------------------------------------------------------------
(* The constructor and the destructor.                                     *)

Construct ==
  /\ main.step = "construct"
  /\ main' = IF main.i = NumThreads - 1 THEN [step |-> "up", i |-> 0]
             ELSE [main EXCEPT !.i = @ + 1]
  /\ worker' = [worker EXCEPT ![main.i].step = "start"]
  /\ mutex' = [mutex EXCEPT ![main.i] = IF inEnclave THEN @ ELSE Nobody]
  /\ UNCHANGED <<build, num, queue, client, flags>>

\* All threads have initialised what they use.
Started == \A th \in Thread : worker[th].step \notin {"absent", "start", "init"}

MayUse == inEnclave /\ ~EarlyCalls => Started

\* The destructor runs when nobody calls any more; jobs nobody waits for may
\* still be queued.
Destruct ==
  /\ build # "demand_paging"
  /\ main.step = "up" /\ MayUse
  /\ \A c \in Client : client[c].step = "idle"
  /\ main' = [step |-> "quit", i |-> 0]
  /\ UNCHANGED <<build, num, mutex, queue, worker, client, flags>>

\* The destructor of demand-paging: neither QUIT nor join.
DestroyEnclave ==
  /\ build = "demand_paging"
  /\ main.step = "up"
  /\ \A c \in Client : client[c].step = "idle"
  /\ main' = [step |-> "destroyed", i |-> 0]
  /\ UNCHANGED <<build, num, mutex, queue, worker, client, flags>>

\* Threads make no step in an enclave that has been destroyed.
EnclaveGone == main.step = "destroyed"

LockToQuit ==
  /\ main.step = "quit"
  /\ Lock(main.i, Main)
  /\ main' = [main EXCEPT !.step = "push"]
  /\ UNCHANGED <<build, num, queue, worker, client, flags>>

\* Fault: the loop ends one queue too early.
PushQuitShort ==
  /\ main.step = "push"
  /\ queue' = [queue EXCEPT ![main.i] = Append(@, QUIT)]
  /\ worker' = Signal(main.i)
  /\ mutex' = Unlocked(main.i)
  /\ main' = IF main.i >= NumThreads - 2 THEN [step |-> "join", i |-> 0]
             ELSE [step |-> "quit", i |-> main.i + 1]
  /\ UNCHANGED <<build, num, client, flags>>

\* Fault: QUIT overtakes the jobs that are queued.
PushQuitFirst ==
  /\ main.step = "push"
  /\ queue' = [queue EXCEPT ![main.i] = <<QUIT>> \o @]
  /\ worker' = Signal(main.i)
  /\ mutex' = Unlocked(main.i)
  /\ main' = IF main.i = NumThreads - 1 THEN [step |-> "join", i |-> 0]
             ELSE [step |-> "quit", i |-> main.i + 1]
  /\ UNCHANGED <<build, num, client, flags>>

PushQuit ==
  /\ main.step = "push"
  /\ queue' = [queue EXCEPT ![main.i] = Append(@, QUIT)]
  /\ worker' = Signal(main.i)
  /\ mutex' = Unlocked(main.i)
  /\ main' = IF main.i = NumThreads - 1 THEN [step |-> "join", i |-> 0]
             ELSE [step |-> "quit", i |-> main.i + 1]
  /\ UNCHANGED <<build, num, client, flags>>

\* Thread i has ended, but it is the mutex of queue i that is destroyed, which
\* another thread may serve.  (A mutex that is held is left as it is.)
Join ==
  /\ main.step = "join"
  /\ worker[main.i].step = "gone"
  /\ mutex' = [mutex EXCEPT ![main.i] = IF @ = Nobody /\ ~inEnclave THEN Destroyed ELSE @]
  /\ main' = IF main.i = NumThreads - 1 THEN [step |-> "down", i |-> 0]
             ELSE [main EXCEPT !.i = @ + 1]
  /\ UNCHANGED <<build, num, queue, worker, client, flags>>

-----------------------------------------------------------------------------
(* The worker threads: process_request.                                    *)

Served(th) == worker[th].id
At(th, step) == worker[th].step = step
Goto(th, step) == worker' = [worker EXCEPT ![th].step = step]

TakeNumber(th) ==
  /\ At(th, "start")
  /\ worker' = [worker EXCEPT ![th].step = IF inEnclave THEN "init" ELSE "lock",
                              ![th].id = num]
  /\ num' = num + 1
  /\ UNCHANGED <<build, main, mutex, queue, client, flags>>

\* Fault: the worker takes the mutex for initialised.
InitNothing(th) ==
  /\ At(th, "init")
  /\ Goto(th, "lock")
  /\ UNCHANGED <<build, num, main, mutex, queue, client, flags>>

\* Only in the enclave variants.  Whoever holds the mutex holds it no more.
InitQueue(th) ==
  /\ At(th, "init")
  /\ mutex' = [mutex EXCEPT ![Served(th)] = Nobody]
  /\ Goto(th, "lock")
  /\ UNCHANGED <<build, num, main, queue, client, flags>>

\* Fault: the job is popped without the mutex.
LockOnlyToLook(th) ==
  /\ ~EnclaveGone
  /\ \E step \in {<<"lock", "check">>, <<"relock", "pop">>, <<"quit", "last">>} :
       /\ At(th, step[1]) /\ Goto(th, step[2])
       /\ IF step[1] = "relock" THEN UNCHANGED mutex ELSE Lock(Served(th), th)
  /\ UNCHANGED <<build, num, main, queue, client, flags>>

LockQueue(th) ==
  /\ ~EnclaveGone
  /\ \E step \in {<<"lock", "check">>, <<"relock", "pop">>, <<"quit", "last">>} :
       At(th, step[1]) /\ Goto(th, step[2])
  /\ Lock(Served(th), th)
  /\ UNCHANGED <<build, num, main, queue, client, flags>>

\* pthread_cond_wait gives the mutex back and sleeps in one step.
Sleep(th) ==
  /\ At(th, "check")
  /\ queue[Served(th)] = <<>>
  /\ mutex' = Unlocked(Served(th))
  /\ Goto(th, "asleep")
  /\ UNCHANGED <<build, num, main, queue, client, flags>>

\* pthread_cond_wait may return without a signal.
WakeSpuriously(th) ==
  /\ At(th, "asleep") /\ ~EnclaveGone
  /\ Goto(th, "lock")
  /\ UNCHANGED <<build, num, main, mutex, queue, client, flags>>

\* The job is copied and stays in the queue until it has been served.
TakeJob(th) ==
  /\ At(th, "check")
  /\ queue[Served(th)] # <<>>
  /\ LET job == Head(queue[Served(th)])
     IN worker' = [worker EXCEPT ![th].job = job,
                                 ![th].step = IF job = QUIT THEN "quit" ELSE "serve"]
  /\ mutex' = Unlocked(Served(th))
  /\ UNCHANGED <<build, num, main, queue, client, flags>>

\* Fault: finished is set before error.
FinishFirst(th) ==
  /\ At(th, "serve")
  /\ \E c \in Client \cup {Nobody} :
       /\ worker[th].job.caller = c
       /\ flags' = IF c = Nobody THEN flags ELSE [flags EXCEPT ![c].finished = TRUE]
       /\ Goto(th, IF c = Nobody THEN "relock" ELSE "finish")
  /\ UNCHANGED <<build, num, main, mutex, queue, client>>

\* The job fails or not, and *error is set before *finished.
Serve(th) ==
  /\ At(th, "serve")
  /\ LET c == worker[th].job.caller
     IN IF c = Nobody
        THEN Goto(th, "relock") /\ UNCHANGED flags
        ELSE /\ Goto(th, "finish")
             /\ \E error \in BOOLEAN : flags' = [flags EXCEPT ![c].error = error]
  /\ UNCHANGED <<build, num, main, mutex, queue, client>>

Finish(th) ==
  /\ At(th, "finish")
  /\ flags' = [flags EXCEPT ![worker[th].job.caller].finished = TRUE]
  /\ Goto(th, "relock")
  /\ UNCHANGED <<build, num, main, mutex, queue, client>>

\* With the mutex still held the worker looks for the next job.
Pop(th) ==
  /\ At(th, "pop")
  /\ queue' = [queue EXCEPT ![Served(th)] = Tail(@)]
  /\ worker' = [worker EXCEPT ![th].step = "check", ![th].job = QUIT]
  /\ UNCHANGED <<build, num, main, mutex, client, flags>>

PopQuit(th) ==
  /\ At(th, "last")
  /\ queue' = [queue EXCEPT ![Served(th)] = Tail(@)]
  /\ mutex' = IF inEnclave THEN [mutex EXCEPT ![Served(th)] = Destroyed]
              ELSE Unlocked(Served(th))
  /\ Goto(th, "gone")
  /\ UNCHANGED <<build, num, main, client, flags>>

-----------------------------------------------------------------------------
(* The callers: create_job and send_job.                                   *)

CalledAt(c, step) == client[c].step = step

MayCall(c) ==
  /\ main.step = "up" /\ MayUse
  /\ CalledAt(c, "idle")
  /\ client[c].calls < MaxCalls

Idle(c) == [client[c] EXCEPT !.step = "idle", !.queue = 0, !.wait = FALSE]

Call(c, q, wait) ==
  /\ MayCall(c)
  /\ client' = [client EXCEPT ![c] =
       [step |-> "lock", queue |-> q, wait |-> wait, calls |-> @.calls + 1]]
  /\ flags' = [flags EXCEPT ![c] =
       IF wait THEN [alive |-> TRUE, finished |-> FALSE, error |-> FALSE] ELSE @]
  /\ UNCHANGED <<build, num, main, mutex, queue, worker>>

\* Fault: the error is set, but not the flag the caller waits for.
RefuseSilently(c, wait) ==
  /\ MayCall(c)
  /\ client' = [client EXCEPT ![c].calls = @ + 1, ![c].step = IF wait THEN "spin" ELSE "idle"]
  /\ flags' = [flags EXCEPT ![c] =
       IF wait THEN [alive |-> TRUE, finished |-> FALSE, error |-> TRUE] ELSE @]
  /\ UNCHANGED <<build, num, main, mutex, queue, worker>>

\* The transaction of a lock or unlock request is not registered: no job.
Refuse(c, wait) ==
  /\ MayCall(c)
  /\ client' = [client EXCEPT ![c].calls = @ + 1, ![c].step = IF wait THEN "spin" ELSE "idle"]
  /\ flags' = [flags EXCEPT ![c] =
       IF wait THEN [alive |-> TRUE, finished |-> TRUE, error |-> TRUE] ELSE @]
  /\ UNCHANGED <<build, num, main, mutex, queue, worker>>

LockToPush(c) ==
  /\ CalledAt(c, "lock")
  /\ Lock(client[c].queue, c)
  /\ client' = [client EXCEPT ![c].step = "push"]
  /\ UNCHANGED <<build, num, main, queue, worker, flags>>

PushJob(c) ==
  /\ CalledAt(c, "push")
  /\ LET q == client[c].queue
     IN /\ queue' = [queue EXCEPT ![q] =
             Append(@, Work(IF client[c].wait THEN c ELSE Nobody))]
        /\ worker' = Signal(q)
        /\ mutex' = Unlocked(q)
  /\ client' = [client EXCEPT ![c] =
       IF @.wait THEN [@ EXCEPT !.step = "spin"] ELSE Idle(c)]
  /\ UNCHANGED <<build, num, main, flags>>

\* while (!*job.finished) continue; then the flags are read and deleted.
Return(c) ==
  /\ CalledAt(c, "spin")
  /\ flags[c].finished
  /\ flags' = [flags EXCEPT ![c] = [alive |-> FALSE, finished |-> FALSE, error |-> FALSE]]
  /\ client' = [client EXCEPT ![c] = Idle(c)]
  /\ UNCHANGED <<build, num, main, mutex, queue, worker>>

-----------------------------------------------------------------------------

MainStep == Construct \/ Destruct \/ DestroyEnclave \/ LockToQuit \/ PushQuit \/ Join

WorkerStep(th) ==
  /\ ~EnclaveGone
  /\ \/ TakeNumber(th) \/ InitQueue(th)
     \/ Sleep(th) \/ TakeJob(th) \/ Serve(th) \/ Finish(th) \/ Pop(th) \/ PopQuit(th)

ClientStep(c) == PushJob(c) \/ Return(c)

\* The lock manager is gone.
Down == main.step \in {"down", "destroyed"} /\ UNCHANGED vars

Next ==
  \/ MainStep \/ Down
  \/ \E th \in Thread : LockQueue(th) \/ WorkerStep(th) \/ WakeSpuriously(th)
  \/ \E c \in Client :
       \/ \E q \in Queue, wait \in BOOLEAN : Call(c, q, wait)
       \/ \E wait \in BOOLEAN : Refuse(c, wait)
       \/ LockToPush(c) \/ ClientStep(c)

Spec == Init /\ [][Next]_vars

\* Every thread is scheduled, and one that waits for a mutex gets it in the end
\* when it is free again and again.  Nobody is obliged to call.
Fairness ==
  /\ WF_vars(Construct \/ PushQuit \/ Join) /\ SF_vars(LockToQuit)
  /\ \A th \in Thread : WF_vars(WorkerStep(th)) /\ SF_vars(LockQueue(th))
  /\ \A c \in Client : WF_vars(ClientStep(c)) /\ SF_vars(LockToPush(c))

FairSpec == Spec /\ Fairness

-----------------------------------------------------------------------------

\* Threads between the lock and the unlock of the mutex of queue q.
InQueue(q) ==
  {th \in Thread : Served(th) = q /\ worker[th].step \in {"check", "pop", "last"}}
  \cup {c \in Client : client[c].queue = q /\ CalledAt(c, "push")}
  \cup {m \in {Main} : main.step = "push" /\ main.i = q}

\* The queues are std::queue objects without a lock of their own: no two threads
\* are at work on the same one.
OneInQueue == \A q \in Queue : \A a, b \in InQueue(q) : a = b

\* A thread can get a number as soon as it has been created, and a client can
\* call as soon as the constructor is through: the mutex they then use has been
\* initialised.
InitialisedBeforeUse ==
  /\ \A th \in Thread :
       worker[th].step \notin {"absent", "start", "init"} => mutex[Served(th)] # Raw
  /\ main.step # "construct" /\ Started => \A q \in Queue : mutex[q] # Raw

\* No lost wakeup: a worker does not sleep on a queue that has jobs.
NoLostWakeup ==
  \A th \in Thread : worker[th].step = "asleep" => queue[Served(th)] = <<>>

\* The flags of a call belong to exactly one job until *finished is set, and to
\* none afterwards: the caller never waits for a forgotten job, and no worker
\* writes to flags that the caller has deleted.
Answered(q) ==
  \E th \in Thread : Served(th) = q /\ worker[th].step \in {"relock", "pop"}

Unanswered(c) ==
  LET Places(q) == {i \in DOMAIN queue[q] :
                      queue[q][i].caller = c /\ ~(i = 1 /\ Answered(q))}
  IN UNION {{<<q, i>> : i \in Places(q)} : q \in Queue}

OneJobPerCall ==
  \A c \in Client :
    Cardinality(Unanswered(c)) =
      (IF CalledAt(c, "spin") /\ ~flags[c].finished THEN 1 ELSE 0)

\* Where the destructor stops the workers, the jobs that were queued before it
\* ran are served before the threads end, those that nobody waits for included.
\* (demand-paging has no such promise to keep: its destructor loses them.)
NothingLeft == main.step = "down" => \A q \in Queue : queue[q] = <<>>

\* Every call returns, and the destructor ends where it waits for the threads.
CallsReturn == \A c \in Client : ~CalledAt(c, "idle") ~> CalledAt(c, "idle")
ShutsDown == main.step = "quit" ~> main.step = "down"
=============================================================================

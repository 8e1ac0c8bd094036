--------------------------- MODULE Dispatch_proofs ---------------------------
(***************************************************************************)
(* Theorems about JobDispatch, for any number of worker threads, clients   *)
(* and calls, if calls come to an enclave only when its workers have       *)
(* started (Disciplined).                                                  *)
(***************************************************************************)
EXTENDS JobDispatch, FiniteSetTheorems, SequenceTheorems, TLAPS

Disciplined == EarlyCalls => Builds \subseteq {"insecure"}

Job == {QUIT} \cup [command : {"WORK"}, caller : Client \cup {Nobody}]

WorkerState ==
  [step : {"absent", "start", "init", "lock", "check", "asleep", "serve", "finish",
           "relock", "pop", "quit", "last", "gone"},
   id : Thread, job : Job]

ClientState ==
  [step : {"idle", "lock", "push", "spin"}, queue : Queue, wait : BOOLEAN, calls : Nat]

FlagState == [alive : BOOLEAN, finished : BOOLEAN, error : BOOLEAN]

MainState == [step : {"construct", "up", "quit", "push", "join", "down", "destroyed"},
               i : Thread]

MutexState == Thread \cup Client \cup {Main, Nobody, Raw, Destroyed}

TypeInv ==
  /\ inEnclave => ~EarlyCalls
  /\ num \in Nat
  /\ main \in MainState
  /\ mutex \in [Queue -> MutexState]
  /\ queue \in [Queue -> Seq(Job)]
  /\ worker \in [Thread -> WorkerState]
  /\ client \in [Client -> ClientState]
  /\ flags \in [Client -> FlagState]

\* The thread has taken its number.
Numbered(th) == worker[th].step \notin {"absent", "start"}

\* The constructor creates the threads in order.
Created ==
  \A th \in Thread :
    worker[th].step = "absent" <=> main.step = "construct" /\ th >= main.i

\* The numbers taken are those below num, each by one thread.
Numbers ==
  /\ num = Cardinality({th \in Thread : Numbered(th)})
  /\ \A th \in Thread : Numbered(th) => Served(th) < num
  /\ \A a, b \in Thread : Numbered(a) /\ Numbered(b) /\ Served(a) = Served(b) => a = b
  /\ \A q \in 0..(num - 1) : \E th \in Thread : Numbered(th) /\ Served(th) = q

Initialised ==
  /\ ~inEnclave =>
       /\ \A th \in Thread : worker[th].step # "init"
       /\ \A q \in Queue : main.step # "construct" \/ q < main.i => mutex[q] # Raw
  /\ inEnclave =>
       \A th \in Thread :
         worker[th].step \notin {"absent", "start", "init"} => mutex[Served(th)] # Raw

\* Clients call while the lock manager is up, and an enclave has started by then.
Calling ==
  /\ \A c \in Client : ~CalledAt(c, "idle") => main.step = "up" /\ (inEnclave => Started)
  /\ main.step \notin {"construct", "up", "destroyed"} => (inEnclave => Started)

\* The destructor has pushed QUIT to queue q.
QuitSent(q) ==
  \/ main.step \in {"join", "down"}
  \/ main.step \in {"quit", "push"} /\ q < main.i

\* Who is in a queue has its mutex, or else the mutex is gone, and with it all
\* others who would want it.
Held ==
  /\ \A th \in Thread :
       worker[th].step \in {"check", "pop", "last"} => mutex[Served(th)] \in {th, Destroyed}
  /\ \A c \in Client : CalledAt(c, "push") => mutex[client[c].queue] = c
  /\ main.step = "push" => mutex[main.i] = Main
  /\ \A q \in Queue : mutex[q] = Destroyed => QuitSent(q)

\* QUIT is the last job of a queue.
QuitLast ==
  \A q \in Queue : \A i \in DOMAIN queue[q] :
    queue[q][i] = QUIT => QuitSent(q) /\ i = Len(queue[q])

\* What a worker has in hand is the first job of its queue.
InHand ==
  \A th \in Thread :
    /\ worker[th].step \in {"serve", "finish", "relock", "pop", "quit", "last"} =>
         queue[Served(th)] # <<>> /\ worker[th].job = queue[Served(th)][1]
    /\ worker[th].step \in {"serve", "finish", "relock", "pop"} => worker[th].job # QUIT
    /\ worker[th].step = "finish" => worker[th].job.caller \in Client
    /\ worker[th].step \in {"quit", "last"} => worker[th].job = QUIT
    /\ worker[th].step = "gone" => queue[Served(th)] = <<>> /\ QuitSent(Served(th))

Joined ==
  \A th \in Thread :
    main.step = "down" \/ (main.step = "join" /\ th < main.i) => worker[th].step = "gone"

\* The flags of a call are new when its job is pushed.
NotFinished ==
  \A c \in Client :
    client[c].step \in {"lock", "push"} /\ client[c].wait => ~flags[c].finished

Pending(c, q, i) == queue[q][i].caller = c /\ ~(i = 1 /\ Answered(q))

Waits(c) == CalledAt(c, "spin") /\ ~flags[c].finished

\* A client that waits has one job, others have none.
OneJob ==
  \A c \in Client :
    /\ Waits(c) => \E q \in Queue : \E i \in DOMAIN queue[q] : Pending(c, q, i)
    /\ \A q, p \in Queue : \A i \in DOMAIN queue[q], j \in DOMAIN queue[p] :
         Pending(c, q, i) /\ Pending(c, p, j) => Waits(c) /\ q = p /\ i = j

DispatchInv ==
  /\ TypeInv /\ Created /\ Numbers /\ Initialised /\ Calling /\ Held
  /\ QuitLast /\ InHand /\ NoLostWakeup /\ Joined /\ NotFinished /\ OneJob

LEMMA InitDispatch == Disciplined /\ Init => DispatchInv
<1> SUFFICES ASSUME Disciplined, Init PROVE DispatchInv
  OBVIOUS
<1> USE NumThreadsAssumption, VariantAssumption, ActorAssumption
<1>1. 0 \in Thread /\ QUIT \in Job /\ QUIT.caller = Nobody
  BY DEF Thread, Job, QUIT
<1>2. TypeInv
  <2>1. inEnclave => ~EarlyCalls
    BY DEF Init, Disciplined, inEnclave
  <2>2. queue \in [Queue -> Seq(Job)]
    BY DEF Init
  <2>3. worker \in [Thread -> [step : {"absent"}, id : Thread, job : Job]]
    BY <1>1 DEF Init
  <2> QED
    BY <1>1, <2>1, <2>2, <2>3
    DEF Init, TypeInv, Queue, WorkerState, ClientState, FlagState, MainState, MutexState
<1>3. Created /\ Initialised
  BY DEF Init, Created, Initialised, Thread, Queue
<1>4. Numbers
  <2>1. {th \in Thread : Numbered(th)} = {}
    BY DEF Init, Numbered
  <2>2. num = Cardinality({th \in Thread : Numbered(th)})
    BY <2>1, FS_EmptySet DEF Init
  <2> QED
    BY <2>2 DEF Init, Numbers, Numbered
<1>5. Calling /\ Held /\ NoLostWakeup /\ InHand /\ Joined /\ NotFinished
  BY DEF Init, Calling, CalledAt, Held, NoLostWakeup, InHand, Joined, NotFinished
<1>6. QuitLast /\ OneJob
  BY DEF Init, QuitLast, OneJob, Waits, CalledAt
<1> QED
  BY <1>2, <1>3, <1>4, <1>5, <1>6 DEF DispatchInv

-----------------------------------------------------------------------------
(* The numbers of the threads.                                             *)

\* A thread that is about to take a number gets one below the threads that
\* have been created, and when all have started all queues are served.
LEMMA NumberBound ==
  ASSUME TypeInv, Created, Numbers
  PROVE  /\ main.step = "construct" => num <= main.i
         /\ \A th \in Thread : At(th, "start") =>
              num \in Thread /\ (main.step = "construct" => num < main.i)
         /\ Started => \A q \in Queue : \E th \in Thread : Numbered(th) /\ Served(th) = q
<1> DEFINE D == {th \in Thread : Numbered(th)}
           C == {th \in Thread : ~At(th, "absent")}
           n == IF main.step = "construct" THEN main.i ELSE NumThreads
<1> USE NumThreadsAssumption
<1>1. main.i \in Thread /\ num \in Nat
  BY DEF TypeInv, MainState
<1>2. n \in 0..NumThreads
  BY <1>1 DEF Thread
<1>3. C = 0..(n - 1)
  BY <1>1 DEF Created, Thread, At
<1>4. D \subseteq C
  BY DEF Numbered, At
<1>5. num = Cardinality(D)
  BY DEF Numbers
<1>6. \A th \in Thread : At(th, "start") => th \in C /\ th \notin D
  BY DEF Numbered, At
<1>7. Started => D = Thread
  BY DEF Started, Numbered
<1>8. D \subseteq Thread
  OBVIOUS
<1> HIDE DEF D, C
<1>9. IsFiniteSet(C) /\ Cardinality(C) = n
  <2> HIDE DEF n
  <2>1. 0 \in Int /\ n - 1 \in Int
    BY <1>2
  <2> QED
    BY <1>2, <1>3, <2>1, FS_Interval
<1>10. num <= n /\ (num = n => C = D)
  BY <1>4, <1>5, <1>9, FS_Subset
<1>11. ASSUME NEW th \in Thread, At(th, "start")
       PROVE  num \in Thread /\ (main.step = "construct" => num < main.i)
  <2>1. num < n
    BY <1>1, <1>2, <1>6, <1>10, <1>11
  <2> QED
    BY <1>1, <1>2, <2>1 DEF Thread
<1>12. ASSUME Started PROVE num = NumThreads
  <2>1. 0 \in Int /\ NumThreads - 1 \in Int
    OBVIOUS
  <2> QED
    BY <1>5, <1>7, <1>12, <2>1, FS_Interval DEF Thread
<1>13. Started => \A q \in Queue : \E th \in Thread : Numbered(th) /\ Served(th) = q
  BY <1>12 DEF Numbers, Queue, Thread
<1> QED
  BY <1>10, <1>11, <1>13

-----------------------------------------------------------------------------
(* Types.                                                                  *)

\* A signal moves threads that sleep on the queue, and nothing else of a thread.
LEMMA SignalMoves ==
  ASSUME worker \in [Thread -> WorkerState], NEW q, worker' = Signal(q)
  PROVE  /\ worker' \in [Thread -> WorkerState]
         /\ \A th \in Thread :
              /\ worker'[th].id = worker[th].id /\ worker'[th].job = worker[th].job
              /\ worker'[th].step =
                   IF At(th, "asleep") /\ Served(th) = q THEN "lock" ELSE worker[th].step
  BY DEF WorkerState, Signal, At, Served

\* A step of thread th leaves the other threads alone.
LEMMA ThreadMoves ==
  ASSUME worker \in [Thread -> WorkerState], NEW th \in Thread, NEW state \in WorkerState,
         worker' = [worker EXCEPT ![th] = state]
  PROVE  /\ worker' \in [Thread -> WorkerState]
         /\ worker'[th] = state
         /\ \A o \in Thread : o # th => worker'[o] = worker[o]
  OBVIOUS

LEMMA GotoMoves ==
  ASSUME worker \in [Thread -> WorkerState], NEW th \in Thread, NEW step, Goto(th, step)
  PROVE  /\ worker'[th].step = step
         /\ worker'[th].id = worker[th].id /\ worker'[th].job = worker[th].job
         /\ \A o \in Thread : o # th => worker'[o] = worker[o]
         /\ step \in {"absent", "start", "init", "lock", "check", "asleep", "serve",
                      "finish", "relock", "pop", "quit", "last", "gone"} =>
              worker' \in [Thread -> WorkerState]
  BY DEF WorkerState, Goto

LEMMA WorkTyped ==
  /\ QUIT \in Job /\ QUIT.caller = Nobody
  /\ \A c \in Client \cup {Nobody} : Work(c) \in Job /\ Work(c).caller = c /\ Work(c) # QUIT
  /\ \A job \in Job : job.caller \in Client \cup {Nobody}
<1>1. QUIT \in Job /\ QUIT.caller = Nobody /\ QUIT.command = "QUIT"
  BY DEF Job, QUIT
<1>2. ASSUME NEW c \in Client \cup {Nobody}
      PROVE  Work(c) \in Job /\ Work(c).caller = c /\ Work(c).command = "WORK"
  BY <1>2 DEF Job, Work
<1>3. "WORK" # "QUIT"
  OBVIOUS
<1> QED
  BY <1>1, <1>2, <1>3 DEF Job

LEMMA QueueTyped ==
  ASSUME queue \in [Queue -> Seq(Job)], NEW q \in Queue
  PROVE  /\ queue[q] # <<>> => /\ queue[q][1] \in Job /\ Head(queue[q]) = queue[q][1]
                               /\ [queue EXCEPT ![q] = Tail(@)] \in [Queue -> Seq(Job)]
         /\ \A job \in Job : [queue EXCEPT ![q] = Append(@, job)] \in [Queue -> Seq(Job)]
<1>1. queue[q] \in Seq(Job)
  OBVIOUS
<1>2. queue[q] # <<>> => queue[q][1] \in Job /\ Tail(queue[q]) \in Seq(Job)
  BY <1>1, HeadTailProperties
<1>3. \A job \in Job : Append(queue[q], job) \in Seq(Job)
  BY <1>1
<1> QED
  BY <1>1, <1>2, <1>3

\* What the steps of a thread that are no mere Goto do to it.
LEMMA TakeNumberMoves ==
  ASSUME TypeInv, Created, Numbers, NEW th \in Thread, TakeNumber(th)
  PROVE  /\ worker' \in [Thread -> WorkerState]
         /\ worker'[th].step = (IF inEnclave THEN "init" ELSE "lock")
         /\ worker'[th].step \in {"init", "lock"}
         /\ worker'[th].id = num /\ worker'[th].job = worker[th].job
         /\ \A o \in Thread : o # th => worker'[o] = worker[o]
<1> DEFINE step == IF inEnclave THEN "init" ELSE "lock"
           state == [worker[th] EXCEPT !.step = step, !.id = num]
<1>1. num \in Thread
  BY NumberBound DEF TakeNumber
<1>2. worker[th] \in WorkerState /\ worker \in [Thread -> WorkerState]
  BY DEF TypeInv
<1>3. step \in {"init", "lock"}
  OBVIOUS
<1>4. worker' = [worker EXCEPT ![th] = state]
  BY <1>2 DEF TakeNumber
<1>5. state \in WorkerState /\ state.step = step /\ state.id = num /\ state.job = worker[th].job
  <2> HIDE DEF step
  <2> QED
    BY <1>1, <1>2, <1>3 DEF WorkerState
<1> HIDE DEF state
<1> QED
  BY <1>2, <1>4, <1>5, ThreadMoves

LEMMA TakeJobMoves ==
  ASSUME TypeInv, NEW th \in Thread, TakeJob(th)
  PROVE  /\ worker' \in [Thread -> WorkerState]
         /\ queue[Served(th)] # <<>> /\ worker'[th].job = queue[Served(th)][1]
         /\ worker'[th].step = (IF queue[Served(th)][1] = QUIT THEN "quit" ELSE "serve")
         /\ worker'[th].step \in {"quit", "serve"}
         /\ worker'[th].id = worker[th].id
         /\ \A o \in Thread : o # th => worker'[o] = worker[o]
<1> DEFINE job == queue[Served(th)][1]
           step == IF job = QUIT THEN "quit" ELSE "serve"
           state == [worker[th] EXCEPT !.job = job, !.step = step]
<1>1. worker[th] \in WorkerState /\ worker \in [Thread -> WorkerState]
  BY DEF TypeInv
<1>2. Served(th) \in Queue
  BY <1>1 DEF WorkerState, Served, Queue
<1>3. queue[Served(th)] # <<>> /\ job \in Job /\ Head(queue[Served(th)]) = job
  BY <1>2, QueueTyped DEF TypeInv, TakeJob
<1>4. step \in {"quit", "serve"}
  OBVIOUS
<1>5. worker' = [worker EXCEPT ![th] = state]
  BY <1>1, <1>3 DEF TakeJob
<1>6. state \in WorkerState /\ state.step = step /\ state.id = worker[th].id /\ state.job = job
  <2> HIDE DEF step, job
  <2> QED
    BY <1>1, <1>3, <1>4 DEF WorkerState
<1> HIDE DEF state
<1> QED
  BY <1>1, <1>3, <1>5, <1>6, ThreadMoves

LEMMA PopMoves ==
  ASSUME TypeInv, NEW th \in Thread, Pop(th)
  PROVE  /\ worker' \in [Thread -> WorkerState]
         /\ worker'[th].step = "check" /\ worker'[th].id = worker[th].id
         /\ \A o \in Thread : o # th => worker'[o] = worker[o]
<1> DEFINE state == [worker[th] EXCEPT !.step = "check", !.job = QUIT]
<1>1. worker[th] \in WorkerState /\ worker \in [Thread -> WorkerState]
  BY DEF TypeInv
<1>2. worker' = [worker EXCEPT ![th] = state]
  BY <1>1 DEF Pop
<1>3. state \in WorkerState /\ state.step = "check" /\ state.id = worker[th].id
  BY <1>1, WorkTyped DEF WorkerState
<1> HIDE DEF state
<1> QED
  BY <1>1, <1>2, <1>3, ThreadMoves

LEMMA ConstructMoves ==
  ASSUME TypeInv, Construct
  PROVE  /\ worker' \in [Thread -> WorkerState]
         /\ worker'[main.i].step = "start"
         /\ \A th \in Thread : worker'[th].id = worker[th].id /\ worker'[th].job = worker[th].job
         /\ \A o \in Thread : o # main.i => worker'[o] = worker[o]
<1>1. main.i \in Thread /\ worker \in [Thread -> WorkerState]
  BY DEF TypeInv, MainState
<1>2. Goto(main.i, "start")
  BY DEF Construct, Goto
<1> QED
  BY <1>1, <1>2, GotoMoves

LEMMA WorkersTyped ==
  ASSUME TypeInv, Created, Numbers, [Next]_vars
  PROVE  worker' \in [Thread -> WorkerState]
<1>1. worker \in [Thread -> WorkerState]
  BY DEF TypeInv
<1>2. CASE UNCHANGED worker
  BY <1>1, <1>2
<1>3. CASE Construct
  BY <1>3, ConstructMoves
<1>4. ASSUME NEW q, worker' = Signal(q) PROVE worker' \in [Thread -> WorkerState]
  BY <1>1, <1>4, SignalMoves
<1>5. ASSUME NEW th \in Thread, NEW step \in {"init", "lock", "check", "asleep", "serve",
             "finish", "relock", "pop", "quit", "last", "gone"}, Goto(th, step)
      PROVE  worker' \in [Thread -> WorkerState]
  BY <1>1, <1>5, GotoMoves
<1>6. ASSUME NEW th \in Thread, LockQueue(th) \/ WorkerStep(th) \/ WakeSpuriously(th)
      PROVE  worker' \in [Thread -> WorkerState]
  BY <1>5, <1>6, TakeNumberMoves, TakeJobMoves, PopMoves
  DEF LockQueue, WorkerStep, WakeSpuriously, InitQueue, Sleep, Serve, Finish, PopQuit
<1> QED
  BY <1>2, <1>3, <1>4, <1>6
  DEF Next, MainStep, Down, Destruct, DestroyEnclave, LockToQuit, PushQuit, Join, Call,
      Refuse, LockToPush, ClientStep, PushJob, Return, vars

LEMMA QueuesTyped ==
  ASSUME TypeInv, InHand, [Next]_vars
  PROVE  queue' \in [Queue -> Seq(Job)]
<1>1. queue \in [Queue -> Seq(Job)] /\ main.i \in Queue /\ \A th \in Thread : Served(th) \in Queue
  BY DEF TypeInv, MainState, WorkerState, Served, Queue
<1>2. CASE UNCHANGED queue
  BY <1>1, <1>2
<1>3. CASE PushQuit
  BY <1>1, <1>3, WorkTyped, QueueTyped DEF PushQuit
<1>4. ASSUME NEW th \in Thread, Pop(th) \/ PopQuit(th) PROVE queue' \in [Queue -> Seq(Job)]
  BY <1>1, <1>4, QueueTyped DEF Pop, PopQuit, InHand, At
<1>5. ASSUME NEW c \in Client, PushJob(c) PROVE queue' \in [Queue -> Seq(Job)]
  <2>1. Work(IF client[c].wait THEN c ELSE Nobody) \in Job /\ client[c].queue \in Queue
    BY WorkTyped DEF TypeInv, ClientState
  <2> QED
    BY <1>1, <1>5, <2>1, QueueTyped DEF PushJob
<1> QED
  BY <1>2, <1>3, <1>4, <1>5
  DEF Next, MainStep, Down, Construct, Destruct, DestroyEnclave, LockToQuit, Join, Call,
      Refuse, LockToPush,
      ClientStep, Return, LockQueue, WorkerStep, WakeSpuriously, TakeNumber, InitQueue, Sleep,
      TakeJob, Serve, Finish, vars

LEMMA MutexTyped ==
  ASSUME TypeInv, [Next]_vars
  PROVE  mutex' \in [Queue -> MutexState]
<1> USE DEF MutexState
<1>1. mutex \in [Queue -> MutexState]
  BY DEF TypeInv
<1>2. ASSUME NEW q, NEW self \in MutexState, mutex' = [mutex EXCEPT ![q] = self]
      PROVE  mutex' \in [Queue -> MutexState]
  BY <1>1, <1>2
<1>3. ASSUME NEW q, NEW self \in MutexState,
             Lock(q, self) \/ mutex' = Unlocked(q)
      PROVE  mutex' \in [Queue -> MutexState]
  BY <1>1, <1>3 DEF Lock, Unlocked
<1>4. CASE UNCHANGED mutex
  BY <1>1, <1>4
<1>5. CASE MainStep
  BY <1>1, <1>3, <1>4, <1>5
  DEF MainStep, Construct, Destruct, DestroyEnclave, LockToQuit, PushQuit, Join
<1>6. ASSUME NEW th \in Thread, LockQueue(th) \/ WorkerStep(th) \/ WakeSpuriously(th)
      PROVE  mutex' \in [Queue -> MutexState]
  BY <1>2, <1>3, <1>4, <1>6
  DEF LockQueue, WorkerStep, WakeSpuriously, TakeNumber, InitQueue, Sleep, TakeJob, Serve,
      Finish, Pop, PopQuit
<1>7. ASSUME NEW c \in Client, LockToPush(c) \/ ClientStep(c)
      PROVE  mutex' \in [Queue -> MutexState]
  BY <1>3, <1>4, <1>7 DEF LockToPush, ClientStep, PushJob, Return
<1> QED
  BY <1>4, <1>5, <1>6, <1>7 DEF Next, Down, Call, Refuse, vars

\* What the steps of a client do to it: they leave the other clients alone.
LEMMA CallMoves ==
  ASSUME TypeInv, NEW c \in Client, NEW q \in Queue, NEW wait \in BOOLEAN, Call(c, q, wait)
  PROVE  /\ client' \in [Client -> ClientState]
         /\ client[c].step = "idle" /\ main.step = "up" /\ MayUse
         /\ client'[c].step = "lock" /\ client'[c].wait = wait
         /\ \A d \in Client : d # c => client'[d] = client[d]
<1> DEFINE state == [step |-> "lock", queue |-> q, wait |-> wait, calls |-> client[c].calls + 1]
<1>1. client \in [Client -> ClientState] /\ client[c] \in ClientState
  BY DEF TypeInv
<1>2. client[c].step = "idle" /\ main.step = "up" /\ MayUse
  BY DEF Call, MayCall, CalledAt
<1>3. client' = [client EXCEPT ![c] = state]
  BY <1>1 DEF Call
<1>4. state \in ClientState /\ state.step = "lock" /\ state.wait = wait
  BY <1>1 DEF ClientState
<1> HIDE DEF state
<1> QED
  BY <1>1, <1>2, <1>3, <1>4

LEMMA RefuseMoves ==
  ASSUME TypeInv, NEW c \in Client, NEW wait \in BOOLEAN, Refuse(c, wait)
  PROVE  /\ client' \in [Client -> ClientState]
         /\ client[c].step = "idle" /\ main.step = "up" /\ MayUse
         /\ client'[c].step = (IF wait THEN "spin" ELSE "idle")
         /\ \A d \in Client : d # c => client'[d] = client[d]
<1> DEFINE step == IF wait THEN "spin" ELSE "idle"
           state == [client[c] EXCEPT !.calls = client[c].calls + 1, !.step = step]
<1>1. client \in [Client -> ClientState] /\ client[c] \in ClientState
  BY DEF TypeInv
<1>2. client[c].step = "idle" /\ main.step = "up" /\ MayUse
  BY DEF Refuse, MayCall, CalledAt
<1>3. client' = [client EXCEPT ![c] = state]
  BY <1>1 DEF Refuse
<1>4. step \in {"spin", "idle"}
  OBVIOUS
<1>5. state \in ClientState /\ state.step = step
  <2>1. client[c].calls + 1 \in Nat
    BY <1>1 DEF ClientState
  <2> HIDE DEF step
  <2> QED
    BY <1>1, <1>4, <2>1 DEF ClientState
<1> HIDE DEF state
<1> QED
  BY <1>1, <1>2, <1>3, <1>5

LEMMA LockToPushMoves ==
  ASSUME TypeInv, NEW c \in Client, LockToPush(c)
  PROVE  /\ client' \in [Client -> ClientState]
         /\ client[c].step = "lock" /\ client'[c].step = "push"
         /\ client'[c].queue = client[c].queue /\ client'[c].wait = client[c].wait
         /\ \A d \in Client : d # c => client'[d] = client[d]
  BY DEF TypeInv, ClientState, LockToPush, CalledAt

LEMMA PushJobMoves ==
  ASSUME TypeInv, NEW c \in Client, PushJob(c)
  PROVE  /\ client' \in [Client -> ClientState]
         /\ client[c].step = "push"
         /\ client'[c].step = (IF client[c].wait THEN "spin" ELSE "idle")
         /\ \A d \in Client : d # c => client'[d] = client[d]
<1> DEFINE state == IF client[c].wait THEN [client[c] EXCEPT !.step = "spin"] ELSE Idle(c)
<1>1. client \in [Client -> ClientState] /\ client[c] \in ClientState
  BY DEF TypeInv, ClientState
<1>2. client' = [client EXCEPT ![c] = state] /\ client[c].step = "push"
  BY <1>1 DEF PushJob, CalledAt
<1>3. 0 \in Queue
  BY NumThreadsAssumption DEF Queue, Thread
<1>4. state \in ClientState /\ state.step = IF client[c].wait THEN "spin" ELSE "idle"
  BY <1>1, <1>3 DEF Idle, ClientState
<1> HIDE DEF state
<1> QED
  BY <1>1, <1>2, <1>4

LEMMA ReturnMoves ==
  ASSUME TypeInv, NEW c \in Client, Return(c)
  PROVE  /\ client' \in [Client -> ClientState]
         /\ client[c].step = "spin" /\ client'[c].step = "idle"
         /\ \A d \in Client : d # c => client'[d] = client[d]
<1>1. client \in [Client -> ClientState] /\ client[c] \in ClientState
  BY DEF TypeInv, ClientState
<1>2. client' = [client EXCEPT ![c] = Idle(c)] /\ client[c].step = "spin"
  BY <1>1 DEF Return, CalledAt
<1>3. 0 \in Queue
  BY NumThreadsAssumption DEF Queue, Thread
<1>4. Idle(c) \in ClientState /\ Idle(c).step = "idle"
  BY <1>1, <1>3 DEF Idle, ClientState
<1> QED
  BY <1>1, <1>2, <1>4

LEMMA ClientsTyped ==
  ASSUME TypeInv, [Next]_vars
  PROVE  client' \in [Client -> ClientState]
<1>1. client \in [Client -> ClientState]
  BY DEF TypeInv
<1>2. CASE UNCHANGED client
  BY <1>1, <1>2
<1>3. ASSUME NEW c \in Client,
             \/ \E q \in Queue, wait \in BOOLEAN : Call(c, q, wait)
             \/ \E wait \in BOOLEAN : Refuse(c, wait)
             \/ LockToPush(c) \/ ClientStep(c)
      PROVE  client' \in [Client -> ClientState]
  BY <1>3, CallMoves, RefuseMoves, LockToPushMoves, PushJobMoves, ReturnMoves DEF ClientStep
<1> QED
  BY <1>2, <1>3
  DEF Next, MainStep, Down, Construct, Destruct, DestroyEnclave, LockToQuit, PushQuit, Join,
      LockQueue, WorkerStep, WakeSpuriously, TakeNumber, InitQueue, Sleep, TakeJob, Serve,
      Finish, Pop, PopQuit, vars

LEMMA FlagsTyped ==
  ASSUME TypeInv, [Next]_vars
  PROVE  flags' \in [Client -> FlagState]
<1>1. flags \in [Client -> FlagState]
  BY DEF TypeInv
<1>2. CASE UNCHANGED flags
  BY <1>1, <1>2
<1>3. ASSUME NEW c, NEW value \in BOOLEAN,
             \/ flags' = [flags EXCEPT ![c].error = value]
             \/ flags' = [flags EXCEPT ![c].finished = value]
      PROVE  flags' \in [Client -> FlagState]
  BY <1>1, <1>3 DEF FlagState
<1>4. ASSUME NEW c, NEW state \in FlagState,
             flags' = [flags EXCEPT ![c] = state] \/ flags' = [flags EXCEPT ![c] = flags[c]]
      PROVE  flags' \in [Client -> FlagState]
  BY <1>1, <1>4
<1>5. \A alive, finished, error \in BOOLEAN :
        [alive |-> alive, finished |-> finished, error |-> error] \in FlagState
  BY DEF FlagState
<1>6. ASSUME NEW c \in Client,
             \/ \E q \in Queue, wait \in BOOLEAN : Call(c, q, wait)
             \/ \E wait \in BOOLEAN : Refuse(c, wait)
             \/ Return(c)
      PROVE  flags' \in [Client -> FlagState]
  BY <1>1, <1>4, <1>5, <1>6 DEF Call, Refuse, Return
<1>7. ASSUME NEW th \in Thread, Serve(th) \/ Finish(th)
      PROVE  flags' \in [Client -> FlagState]
  BY <1>2, <1>3, <1>7 DEF Serve, Finish
<1> QED
  BY <1>2, <1>6, <1>7
  DEF Next, MainStep, Down, Construct, Destruct, DestroyEnclave, LockToQuit, PushQuit, Join,
      LockToPush,
      ClientStep, PushJob, LockQueue, WorkerStep, WakeSpuriously, TakeNumber, InitQueue, Sleep,
      TakeJob, Pop, PopQuit, vars

LEMMA EnclaveStays == [Next]_vars => inEnclave' = inEnclave
  BY DEF inEnclave, Next, MainStep, Down, Construct, Destruct, DestroyEnclave, LockToQuit,
      PushQuit, Join, LockToPush,
      ClientStep, PushJob, Return, Call, Refuse, LockQueue, WorkerStep, WakeSpuriously,
      TakeNumber, InitQueue, Sleep, TakeJob, Serve, Finish, Pop, PopQuit, vars

LEMMA TypeStep ==
  ASSUME TypeInv, Created, Numbers, InHand, [Next]_vars
  PROVE  TypeInv'
<1>1. inEnclave' = inEnclave
  BY EnclaveStays
<1>2. num' \in Nat
  <2>1. num \in Nat /\ num + 1 \in Nat
    BY DEF TypeInv
  <2> QED
    BY <2>1
    DEF Next, MainStep, Down, Construct, Destruct, DestroyEnclave, LockToQuit, PushQuit, Join,
        LockToPush,
        ClientStep, PushJob, Return, Call, Refuse, LockQueue, WorkerStep, WakeSpuriously,
        TakeNumber, InitQueue, Sleep, TakeJob, Serve, Finish, Pop, PopQuit, vars
<1>3. main' \in MainState
  <2>1. 0 \in Thread /\ main \in MainState /\ main.i \in Thread
        /\ (main.i # NumThreads - 1 => main.i + 1 \in Thread)
    BY NumThreadsAssumption DEF TypeInv, MainState, Thread
  <2>2. CASE UNCHANGED main
    BY <2>1, <2>2
  <2>3. CASE MainStep
    BY <2>1, <2>3
    DEF MainStep, Construct, Destruct, DestroyEnclave, LockToQuit, PushQuit, Join, MainState
  <2> QED
    BY <2>2, <2>3
    DEF Next, Down, LockToPush, ClientStep, PushJob, Return, Call, Refuse, LockQueue, WorkerStep,
        WakeSpuriously, TakeNumber, InitQueue, Sleep, TakeJob, Serve, Finish, Pop, PopQuit, vars
<1> QED
  BY <1>1, <1>2, <1>3, WorkersTyped, QueuesTyped, MutexTyped, ClientsTyped, FlagsTyped
  DEF TypeInv

-----------------------------------------------------------------------------
(* Threads are created and numbered in order.                              *)

\* Only the constructor and TakeNumber change who is numbered, and a thread begins
\* to serve with TakeNumber or InitQueue.
Settled ==
  /\ num' = num
  /\ \A th \in Thread :
       /\ worker'[th].id = worker[th].id
       /\ worker'[th].step = "absent" <=> worker[th].step = "absent"
       /\ worker'[th].step = "start" <=> worker[th].step = "start"
       /\ worker'[th].step = "init" => worker[th].step = "init"
       /\ worker[th].step = "init" => worker'[th].step = "init" \/ InitQueue(th)

LEMMA SettledStep ==
  ASSUME TypeInv, [Next]_vars, ~Construct, \A th \in Thread : ~TakeNumber(th)
  PROVE  Settled
<1> USE DEF Settled
<1>1. worker \in [Thread -> WorkerState]
  BY DEF TypeInv
<1>2. num' = num
  BY DEF Next, MainStep, Down, Destruct, DestroyEnclave, LockToQuit, PushQuit, Join, LockToPush,
      ClientStep, PushJob, Return, Call, Refuse, LockQueue, WorkerStep, WakeSpuriously,
      InitQueue, Sleep, TakeJob, Serve, Finish, Pop, PopQuit, vars
<1>3. CASE UNCHANGED worker
  BY <1>2, <1>3
<1>4. ASSUME NEW q, worker' = Signal(q) PROVE Settled
  BY <1>1, <1>2, <1>4, SignalMoves DEF At
<1>5. ASSUME NEW th \in Thread, Numbered(th), worker[th].step = "init" => InitQueue(th),
             NEW step \in {"lock", "check", "asleep", "serve",
                           "finish", "relock", "pop", "quit", "last", "gone"}, Goto(th, step)
      PROVE  Settled
  BY <1>1, <1>2, <1>5, GotoMoves DEF Numbered
<1>6. ASSUME NEW th \in Thread, TakeJob(th) PROVE Settled
  BY <1>1, <1>2, <1>6, TakeJobMoves DEF TakeJob, At
<1>7. ASSUME NEW th \in Thread, Pop(th) PROVE Settled
  BY <1>1, <1>2, <1>7, PopMoves DEF Pop, At
<1>8. ASSUME NEW th \in Thread, LockQueue(th) \/ WorkerStep(th) \/ WakeSpuriously(th)
      PROVE  Settled
  BY <1>3, <1>5, <1>6, <1>7, <1>8
  DEF LockQueue, WorkerStep, WakeSpuriously, InitQueue, Sleep, Serve, Finish, PopQuit, At, Numbered
<1> QED
  BY <1>3, <1>4, <1>8
  DEF Next, MainStep, Down, Destruct, DestroyEnclave, LockToQuit, PushQuit, Join, Call,
      Refuse, LockToPush, ClientStep, PushJob, Return, vars

\* What the steps of the constructor and the destructor do to main.
LEMMA MainMoves ==
  ASSUME TypeInv, [Next]_vars, ~Construct
  PROVE  main' = main \/ (main.step # "construct" /\ main'.step # "construct")
<1>1. CASE Destruct \/ DestroyEnclave \/ LockToQuit \/ PushQuit \/ Join
  BY <1>1 DEF TypeInv, MainState, Destruct, DestroyEnclave, LockToQuit, PushQuit, Join
<1> QED
  BY <1>1
  DEF Next, MainStep, Down, LockToPush, ClientStep, PushJob, Return, Call, Refuse, LockQueue,
      WorkerStep, WakeSpuriously, TakeNumber, InitQueue, Sleep, TakeJob, Serve, Finish, Pop,
      PopQuit, vars

LEMMA CreatedStep ==
  ASSUME TypeInv, Created, Numbers, [Next]_vars
  PROVE  Created'
<1>1. CASE Construct
  BY <1>1, ConstructMoves DEF Construct, Created, TypeInv, MainState, Thread
<1>2. ASSUME NEW th \in Thread, TakeNumber(th) PROVE Created'
  <2>1. main' = main /\ worker[th].step = "start" /\ worker'[th].step # "absent"
    BY <1>2, TakeNumberMoves DEF TakeNumber, At
  <2> QED
    BY <1>2, <2>1, TakeNumberMoves DEF Created
<1>3. CASE ~Construct /\ \A th \in Thread : ~TakeNumber(th)
  BY <1>3, SettledStep, MainMoves DEF Settled, Created
<1> QED
  BY <1>1, <1>2, <1>3

LEMMA NumbersStep ==
  ASSUME TypeInv, Created, Numbers, [Next]_vars
  PROVE  Numbers'
<1> DEFINE D == {th \in Thread : Numbered(th)}
<1>1. IsFiniteSet(D)
  <2>1. 0 \in Int /\ NumThreads - 1 \in Int /\ D \in SUBSET Thread
    BY NumThreadsAssumption
  <2> HIDE DEF D
  <2> QED
    BY <2>1, FS_Interval, FS_Subset DEF Thread
<1>2. ASSUME D' = D, num' = num, \A th \in Thread : worker'[th].id = worker[th].id
      PROVE  Numbers'
  BY <1>2 DEF Numbers, Numbered, Served
<1>3. CASE Construct
  <2>1. worker[main.i].step = "absent"
    BY <1>3 DEF Construct, Created, TypeInv, MainState, Thread
  <2>2. \A th \in Thread : Numbered(th)' <=> Numbered(th)
    BY <1>3, <2>1, ConstructMoves DEF Numbered
  <2> QED
    BY <1>2, <1>3, <2>2, ConstructMoves DEF Construct
<1>4. ASSUME NEW th \in Thread, TakeNumber(th) PROVE Numbers'
  <2>1. num' = num + 1 /\ th \notin D
    BY <1>4 DEF TakeNumber, At, Numbered
  <2>2. D' = D \cup {th}
    BY <1>4, TakeNumberMoves DEF Numbered
  <2>3. num' = Cardinality(D')
    BY <1>1, <2>1, <2>2, FS_AddElement DEF Numbers
  <2>4. \A o \in Thread : worker'[o].id = IF o = th THEN num ELSE worker[o].id
    BY <1>4, TakeNumberMoves
  <2>5. \A o \in Thread : Numbered(o)' <=> Numbered(o) \/ o = th
    BY <2>2
  <2>6. \A o \in Thread : Numbered(o) => worker[o].id < num
    BY DEF Numbers, Served
  <2>7. num \in Nat /\ \A o \in Thread : worker[o].id \in Nat
    BY DEF TypeInv, WorkerState, Thread
  <2>8. \A o \in Thread : Numbered(o)' => Served(o)' < num'
    BY <2>1, <2>4, <2>5, <2>6, <2>7 DEF Served
  <2>9. \A a, b \in Thread : Numbered(a)' /\ Numbered(b)' /\ Served(a)' = Served(b)' => a = b
    <3>1. \A a, b \in Thread :
            Numbered(a) /\ Numbered(b) /\ worker[a].id = worker[b].id => a = b
      BY DEF Numbers, Served
    <3> SUFFICES ASSUME NEW a \in Thread, NEW b \in Thread,
                        Numbered(a)', Numbered(b)', worker'[a].id = worker'[b].id
                 PROVE  a = b
      BY DEF Served
    <3>2. CASE a # th /\ b # th
      BY <2>4, <2>5, <3>1, <3>2
    <3>3. CASE a = th \/ b = th
      BY <2>4, <2>5, <2>6, <2>7, <3>3
    <3> QED
      BY <3>2, <3>3
  <2>10. \A q \in 0..(num' - 1) : \E o \in Thread : Numbered(o)' /\ Served(o)' = q
    <3> SUFFICES ASSUME NEW q \in 0..(num' - 1)
                 PROVE  \E o \in Thread : Numbered(o)' /\ Served(o)' = q
      OBVIOUS
    <3>1. CASE q = num
      BY <2>4, <2>5, <3>1 DEF Served
    <3>2. CASE q # num
      <4>1. q \in 0..(num - 1)
        BY <2>1, <2>7, <3>2
      <4>2. PICK o \in Thread : Numbered(o) /\ Served(o) = q
        BY <4>1 DEF Numbers
      <4> QED
        BY <2>1, <2>4, <2>5, <4>2 DEF Served
    <3> QED
      BY <3>1, <3>2
  <2> QED
    BY <2>3, <2>8, <2>9, <2>10 DEF Numbers
<1>5. CASE ~Construct /\ \A th \in Thread : ~TakeNumber(th)
  BY <1>2, <1>5, SettledStep DEF Settled, Numbered
<1> QED
  BY <1>3, <1>4, <1>5

-----------------------------------------------------------------------------
(* When clients call, and what QUIT ends.                                  *)

\* All threads have started once and for all.
LEMMA StartedStays ==
  ASSUME TypeInv, Created, [Next]_vars, Started
  PROVE  Started'
<1>1. ~Construct
  BY DEF Started, Construct, Created, TypeInv, MainState, Thread
<1>2. \A th \in Thread : ~TakeNumber(th)
  BY DEF Started, TakeNumber, At
<1> QED
  BY <1>1, <1>2, SettledStep DEF Settled, Started

LEMMA CallingStep ==
  ASSUME TypeInv, Created, Calling, [Next]_vars
  PROVE  Calling'
<1>1. inEnclave' = inEnclave /\ (MayUse => (inEnclave => Started))
  BY EnclaveStays DEF MayUse, TypeInv
<1>2. (inEnclave => Started) => (inEnclave' => Started')
  BY <1>1, StartedStays
<1>3. CASE client' = client /\ main' = main
  BY <1>2, <1>3 DEF Calling, CalledAt
<1>4. ASSUME NEW c \in Client,
             \/ \E q \in Queue, wait \in BOOLEAN : Call(c, q, wait)
             \/ \E wait \in BOOLEAN : Refuse(c, wait)
             \/ LockToPush(c) \/ ClientStep(c)
      PROVE  Calling'
  <2>1. main' = main
    BY <1>4 DEF Call, Refuse, LockToPush, ClientStep, PushJob, Return
  <2>2. main.step = "up" /\ (inEnclave => Started)
    BY <1>1, <1>4, CallMoves, RefuseMoves, LockToPushMoves, PushJobMoves, ReturnMoves
    DEF ClientStep, Calling, CalledAt
  <2> QED
    BY <1>2, <2>1, <2>2 DEF Calling
<1>5. CASE MainStep
  <2>1. client' = client
    BY <1>5 DEF MainStep, Construct, Destruct, DestroyEnclave, LockToQuit, PushQuit, Join
  <2>2. main.step # "up" \/ \A c \in Client : CalledAt(c, "idle")
    BY <1>5 DEF MainStep, Construct, Destruct, DestroyEnclave, LockToQuit, PushQuit, Join,
        CalledAt
  <2>3. \A c \in Client : CalledAt(c, "idle")
    BY <2>2 DEF Calling
  <2>4. main'.step \notin {"construct", "up", "destroyed"} => (inEnclave => Started)
    BY <1>1, <1>5
    DEF MainStep, Construct, Destruct, DestroyEnclave, LockToQuit, PushQuit, Join, TypeInv,
        MainState, Calling
  <2> QED
    BY <1>2, <2>1, <2>3, <2>4 DEF Calling, CalledAt
<1> QED
  BY <1>3, <1>4, <1>5
  DEF Next, Down, LockQueue, WorkerStep, WakeSpuriously, TakeNumber, InitQueue, Sleep, TakeJob,
      Serve, Finish, Pop, PopQuit, vars

LEMMA QuitSentStays ==
  ASSUME TypeInv, [Next]_vars
  PROVE  /\ \A q \in Queue : QuitSent(q) => QuitSent(q)'
         /\ main.step = "push" => main.i \in Queue /\ ~QuitSent(main.i)
         /\ \A q \in Queue : PushQuit /\ q = main.i => QuitSent(q)'
<1>1. main.i \in Queue /\ \A q \in Queue : q \in 0..(NumThreads - 1)
  BY DEF TypeInv, MainState, Queue, Thread
<1>2. main.step = "push" => ~QuitSent(main.i)
  BY <1>1, NumThreadsAssumption DEF QuitSent, Queue, Thread
<1>3. \A q \in Queue : PushQuit /\ q = main.i => QuitSent(q)'
  BY <1>1, NumThreadsAssumption DEF PushQuit, QuitSent, Queue, Thread
<1>4. CASE UNCHANGED main
  BY <1>1, <1>2, <1>3, <1>4 DEF QuitSent
<1>5. CASE MainStep
  <2> SUFFICES ASSUME NEW q \in Queue, QuitSent(q) PROVE QuitSent(q)'
    BY <1>1, <1>2, <1>3
  <2>1. CASE Construct \/ Destruct \/ DestroyEnclave
    BY <2>1 DEF Construct, Destruct, DestroyEnclave, QuitSent
  <2>2. CASE LockToQuit
    BY <2>2 DEF LockToQuit, QuitSent, TypeInv, MainState
  <2>3. CASE PushQuit
    BY <1>1, <2>3, NumThreadsAssumption DEF PushQuit, QuitSent
  <2>4. CASE Join
    BY <2>4 DEF Join, QuitSent, TypeInv, MainState
  <2> QED
    BY <1>5, <2>1, <2>2, <2>3, <2>4 DEF MainStep
<1> QED
  BY <1>1, <1>2, <1>3, <1>4, <1>5
  DEF Next, Down, Call, Refuse, LockToPush, ClientStep, PushJob, Return, LockQueue, WorkerStep,
      WakeSpuriously, TakeNumber, InitQueue, Sleep, TakeJob, Serve, Finish, Pop, PopQuit, vars

\* The worker that serves a queue is the only one.
LEMMA OneServes ==
  ASSUME Numbers, NEW a \in Thread, NEW b \in Thread, Numbered(a), Numbered(b), a # b
  PROVE  Served(a) # Served(b)
  BY DEF Numbers

-----------------------------------------------------------------------------
(* The mutex of each queue.                                                *)

LEMMA InitialisedStep ==
  ASSUME TypeInv, Created, Numbers, Initialised, [Next]_vars
  PROVE  Initialised'
<1>1. inEnclave' = inEnclave /\ mutex \in [Queue -> MutexState] /\ main.i \in Queue
      /\ \A th \in Thread : Served(th) \in Queue
  BY EnclaveStays DEF TypeInv, MainState, WorkerState, Served, Queue
<1>2. Main # Raw /\ Nobody # Raw /\ Destroyed # Raw /\ \A x \in Thread \cup Client : x # Raw
  BY ActorAssumption
\* No step makes a mutex Raw again.
<1>3. \A q \in Queue : mutex[q] # Raw => mutex'[q] # Raw
  <2>1. CASE UNCHANGED mutex
    BY <2>1
  <2>2. ASSUME NEW q, NEW self \in MutexState \ {Raw},
               Lock(q, self) \/ mutex' = Unlocked(q) \/ mutex' = [mutex EXCEPT ![q] = self]
        PROVE  \A p \in Queue : mutex[p] # Raw => mutex'[p] # Raw
    BY <1>1, <1>2, <2>2 DEF Lock, Unlocked
  <2>3. {Nobody, Main, Destroyed} \cup Thread \cup Client \subseteq MutexState \ {Raw}
    BY <1>2 DEF MutexState
  <2>4. CASE MainStep
    <3>1. CASE Construct \/ Join
      BY <1>1, <1>2, <3>1 DEF Construct, Join
    <3> QED
      BY <2>1, <2>2, <2>3, <2>4, <3>1 DEF MainStep, Destruct, DestroyEnclave, LockToQuit, PushQuit
  <2>5. ASSUME NEW th \in Thread, LockQueue(th) \/ WorkerStep(th) \/ WakeSpuriously(th)
        PROVE  \A q \in Queue : mutex[q] # Raw => mutex'[q] # Raw
    BY <2>1, <2>2, <2>3, <2>5
    DEF LockQueue, WorkerStep, WakeSpuriously, TakeNumber, InitQueue, Sleep, TakeJob, Serve,
        Finish, Pop, PopQuit
  <2>6. ASSUME NEW c \in Client, LockToPush(c) \/ ClientStep(c)
        PROVE  \A q \in Queue : mutex[q] # Raw => mutex'[q] # Raw
    BY <2>1, <2>2, <2>3, <2>6 DEF LockToPush, ClientStep, PushJob, Return
  <2> QED
    BY <2>1, <2>4, <2>5, <2>6 DEF Next, Down, Call, Refuse, vars
<1>4. CASE Construct
  <2>1. main.step = "construct" /\ (main'.step = "construct" => main'.i = main.i + 1)
        /\ mutex' = [mutex EXCEPT ![main.i] = IF inEnclave THEN @ ELSE Nobody]
    BY <1>4 DEF Construct, TypeInv, MainState
  <2>2. \A q \in Queue : ~inEnclave /\ (main'.step # "construct" \/ q < main'.i) => mutex'[q] # Raw
    <3>1. main'.step # "construct" => main.i = NumThreads - 1
      BY <1>4 DEF Construct, TypeInv, MainState
    <3>2. ASSUME NEW q \in Queue, main'.step # "construct" \/ q < main'.i
          PROVE  q < main.i \/ q = main.i
      <4>1. q \in Int /\ main.i \in Int /\ q <= NumThreads - 1
        BY <1>1, NumThreadsAssumption DEF Queue, Thread
      <4> QED
        BY <2>1, <3>1, <3>2, <4>1
    <3> QED
      BY <1>1, <1>2, <1>3, <2>1, <3>2 DEF Initialised
  <2> QED
    BY <1>1, <1>3, <1>4, <2>2, ConstructMoves DEF Initialised, Served
<1>5. ASSUME NEW th \in Thread, TakeNumber(th) PROVE Initialised'
  <2>1. main' = main /\ mutex' = mutex
    BY <1>5 DEF TakeNumber
  <2> QED
    BY <1>1, <1>5, <2>1, TakeNumberMoves DEF Initialised, Served
<1>6. ASSUME NEW th \in Thread, InitQueue(th) PROVE Initialised'
  <2>1. main' = main /\ mutex' = [mutex EXCEPT ![Served(th)] = Nobody] /\ Goto(th, "lock")
        /\ worker[th].step = "init"
    BY <1>6 DEF InitQueue, At
  <2> QED
    <3>1. inEnclave
      BY <1>1, <2>1 DEF Initialised, TypeInv
    <3>2. mutex'[Served(th)] # Raw
      BY <1>1, <1>2, <2>1
    <3>3. \A o \in Thread : o # th => worker'[o] = worker[o]
      BY <2>1, GotoMoves DEF TypeInv
    <3>4. worker'[th].id = worker[th].id
      BY <2>1, GotoMoves DEF TypeInv
    <3>5. ASSUME NEW o \in Thread, worker'[o].step \notin {"absent", "start", "init"}
          PROVE  mutex'[worker'[o].id] # Raw
      <4>1. CASE o = th
        BY <3>2, <3>4, <4>1 DEF Served
      <4>2. CASE o # th
        BY <1>1, <1>3, <3>1, <3>3, <3>5, <4>2 DEF Initialised, Served
      <4> QED
        BY <4>1, <4>2
    <3> QED
      BY <1>1, <3>1, <3>5 DEF Initialised, Served
<1>7. CASE ~Construct /\ \A th \in Thread : ~TakeNumber(th) /\ ~InitQueue(th)
  <2>1. Settled /\ (main'.step # "construct" \/ main' = main)
    BY <1>7, SettledStep, MainMoves
  <2>2. \A th \in Thread : worker[th].step = "init" => worker'[th].step = "init"
    BY <1>7, <2>1 DEF Settled
  <2>3. \A th \in Thread : worker'[th].step \notin {"absent", "start", "init"} =>
          worker[th].step \notin {"absent", "start", "init"}
    BY <2>1, <2>2 DEF Settled
  <2>4. \A th \in Thread : worker'[th].id = worker[th].id
          /\ (worker'[th].step = "init" => worker[th].step = "init")
    BY <2>1 DEF Settled
  <2>5. \A q \in Queue : main'.step # "construct" \/ q < main'.i =>
          main.step # "construct" \/ q < main.i
    BY <1>7, MainMoves
  <2>6. CASE inEnclave
    BY <1>1, <1>3, <2>3, <2>4, <2>6 DEF Initialised, Served
  <2>7. CASE ~inEnclave
    BY <1>1, <1>3, <2>4, <2>5, <2>7 DEF Initialised, Served
  <2> QED
    BY <2>6, <2>7
<1> QED
  BY <1>4, <1>5, <1>6, <1>7

Inside(th) == worker[th].step \in {"check", "pop", "last"}

\* A thread is inside its queue if it was before or has locked it now, and
\* leaves it when it sleeps, takes a job or ends.
LEMMA InsideStep ==
  ASSUME TypeInv, Created, Numbers, [Next]_vars, NEW th \in Thread, Inside(th)'
  PROVE  /\ Inside(th) \/ LockQueue(th)
         /\ worker'[th].id = worker[th].id /\ Numbered(th)
         /\ ~Sleep(th) /\ ~TakeJob(th) /\ ~PopQuit(th)
<1>1. worker \in [Thread -> WorkerState]
  BY DEF TypeInv
<1>2. ~Sleep(th) /\ ~TakeJob(th) /\ ~PopQuit(th)
  BY <1>1, GotoMoves, TakeJobMoves DEF Inside, Sleep, PopQuit
<1>3. Inside(th) \/ LockQueue(th)
  <2> SUFFICES ASSUME ~LockQueue(th) PROVE Inside(th)
    OBVIOUS
  <2>1. CASE UNCHANGED worker
    BY <2>1 DEF Inside
  <2>2. ASSUME NEW q, worker' = Signal(q) PROVE Inside(th)
    BY <1>1, <2>2, SignalMoves DEF Inside
  <2>3. ASSUME NEW o \in Thread, NEW step, Goto(o, step),
               o # th \/ step \notin {"check", "pop", "last"}
        PROVE  Inside(th)
    BY <1>1, <2>3, GotoMoves DEF Inside
  <2>4. ASSUME NEW o \in Thread, TakeNumber(o) \/ TakeJob(o) \/ Pop(o) PROVE Inside(th)
    BY <1>1, <2>4, TakeNumberMoves, TakeJobMoves, PopMoves DEF Inside, Pop, At
  <2>5. CASE Construct
    BY <2>5, ConstructMoves DEF Inside, TypeInv, MainState
  <2>6. ASSUME NEW o \in Thread, LockQueue(o) \/ WorkerStep(o) \/ WakeSpuriously(o)
        PROVE  Inside(th)
    BY <2>3, <2>4, <2>6
    DEF LockQueue, WorkerStep, WakeSpuriously, InitQueue, Sleep, Serve, Finish, PopQuit
  <2> QED
    BY <2>1, <2>2, <2>5, <2>6
    DEF Next, MainStep, Down, Destruct, DestroyEnclave, LockToQuit, PushQuit, Join, Call,
        Refuse, LockToPush, ClientStep, PushJob, Return, vars
<1>4. Numbered(th)
  BY <1>3 DEF Inside, LockQueue, At, Numbered
<1>5. worker'[th].id = worker[th].id
  <2>1. ~TakeNumber(th)
    BY <1>4 DEF TakeNumber, At, Numbered
  <2>2. CASE Construct
    BY <2>2, ConstructMoves
  <2>3. ASSUME NEW o \in Thread, TakeNumber(o) PROVE worker'[th].id = worker[th].id
    BY <2>1, <2>3, TakeNumberMoves
  <2> QED
    BY <2>2, <2>3, SettledStep DEF Settled
<1> QED
  BY <1>2, <1>3, <1>4, <1>5

\* What a step may do to the mutex of a queue, if those inside hold it.
MutexStep(q) ==
  \/ mutex'[q] = mutex[q]
  \/ mutex[q] \in {Nobody, Raw} /\ mutex'[q] # Destroyed
  \/ mutex[q] = Nobody /\ Join
  \/ mutex'[q] = Nobody /\ Construct /\ q = main.i
  \/ mutex'[q] = Nobody /\ \E th \in Thread : Served(th) = q /\ InitQueue(th)
  \/ mutex'[q] = Nobody /\ \E th \in Thread : mutex[q] = th /\ (Sleep(th) \/ TakeJob(th))
  \/ \E th \in Thread : mutex[q] = th /\ Served(th) = q /\ PopQuit(th)
  \/ mutex'[q] = Nobody /\ \E c \in Client : mutex[q] = c /\ client[c].queue = q /\ PushJob(c)
  \/ mutex'[q] = Nobody /\ mutex[q] = Main /\ q = main.i /\ PushQuit

LEMMA MutexSteps ==
  ASSUME TypeInv, Held, [Next]_vars, NEW q \in Queue
  PROVE  MutexStep(q)
<1>1. mutex \in [Queue -> MutexState] /\ main.i \in Queue
      /\ (\A th \in Thread : Served(th) \in Queue) /\ \A c \in Client : client[c].queue \in Queue
  BY DEF TypeInv, MainState, WorkerState, ClientState, Served, Queue
<1>2. Main # Destroyed /\ Nobody # Destroyed /\ \A x \in Thread \cup Client : x # Destroyed
  BY ActorAssumption
<1>3. CASE mutex' = mutex
  BY <1>3 DEF MutexStep
<1>4. ASSUME NEW p \in Queue, NEW self, self # Destroyed, Lock(p, self) PROVE MutexStep(q)
  BY <1>1, <1>2, <1>4 DEF Lock, CanLock, MutexStep
<1>5. ASSUME NEW p \in Queue, NEW self, mutex[p] \in {self, Destroyed}, mutex' = Unlocked(p)
      PROVE  mutex'[q] = mutex[q] \/ (q = p /\ mutex[q] = self /\ mutex'[q] = Nobody)
  BY <1>1, <1>5 DEF Unlocked
<1>6. CASE Construct \/ Join
  BY <1>1, <1>6 DEF Construct, Join, MutexStep
<1>7. CASE PushQuit
  BY <1>1, <1>5, <1>7 DEF PushQuit, Held, MutexStep
<1>8. ASSUME NEW th \in Thread, InitQueue(th) PROVE MutexStep(q)
  BY <1>1, <1>8 DEF InitQueue, MutexStep
<1>9. ASSUME NEW th \in Thread, Sleep(th) \/ TakeJob(th) PROVE MutexStep(q)
  BY <1>1, <1>5, <1>9 DEF Sleep, TakeJob, At, Held, MutexStep
<1>10. ASSUME NEW th \in Thread, PopQuit(th) PROVE MutexStep(q)
  <2>1. mutex[Served(th)] \in {th, Destroyed} /\ Served(th) \in Queue
    BY <1>1, <1>10 DEF PopQuit, At, Held
  <2>2. mutex'[q] = mutex[q] \/ (q = Served(th) /\ mutex[q] = th)
    BY <1>1, <1>5, <1>10, <2>1 DEF PopQuit
  <2> QED
    BY <1>10, <2>2 DEF MutexStep
<1>11. ASSUME NEW th \in Thread, LockQueue(th) PROVE MutexStep(q)
  BY <1>1, <1>2, <1>4, <1>11 DEF LockQueue
<1>12. ASSUME NEW c \in Client, PushJob(c) PROVE MutexStep(q)
  <2>1. mutex[client[c].queue] = c /\ client[c].queue \in Queue
    BY <1>1, <1>12 DEF PushJob, Held
  <2>2. mutex' = Unlocked(client[c].queue)
    BY <1>12 DEF PushJob
  <2>3. mutex'[q] = mutex[q] \/ (q = client[c].queue /\ mutex[q] = c /\ mutex'[q] = Nobody)
    BY <1>5, <2>1, <2>2
  <2> QED
    BY <1>12, <2>3 DEF MutexStep
<1>13. ASSUME NEW c \in Client, LockToPush(c) PROVE MutexStep(q)
  BY <1>1, <1>2, <1>4, <1>13 DEF LockToPush
<1>14. CASE LockToQuit
  BY <1>1, <1>2, <1>4, <1>14 DEF LockToQuit
<1> QED
  BY <1>3, <1>6, <1>7, <1>8, <1>9, <1>10, <1>11, <1>12, <1>13, <1>14
  DEF Next, MainStep, Down, Destruct, DestroyEnclave, Call, Refuse, ClientStep, Return,
      WorkerStep, WakeSpuriously, TakeNumber, Serve, Finish, Pop, vars

LEMMA HeldStep ==
  ASSUME DispatchInv, [Next]_vars
  PROVE  Held'
<1> USE DEF DispatchInv
<1>1. mutex \in [Queue -> MutexState] /\ main.i \in Queue
      /\ (\A th \in Thread : Served(th) \in Queue) /\ \A c \in Client : client[c].queue \in Queue
  BY DEF TypeInv, MainState, WorkerState, ClientState, Served, Queue
<1>2. /\ Main \notin {Nobody, Raw, Destroyed} /\ Nobody # Destroyed
      /\ \A x \in Thread \cup Client : x \notin {Nobody, Raw, Destroyed, Main}
      /\ \A c \in Client, th \in Thread : c # th
  BY ActorAssumption
\* No mutex is initialised while somebody is in its queue.
<1>3. ASSUME NEW th \in Thread, InitQueue(th)
      PROVE  /\ \A c \in Client : CalledAt(c, "idle")
             /\ main.step # "push"
  <2>1. inEnclave /\ ~Started
    BY <1>3 DEF InitQueue, At, Started, Initialised, TypeInv
  <2> QED
    BY <2>1 DEF Calling
<1>4. ASSUME Construct
      PROVE  /\ \A c \in Client : CalledAt(c, "idle")
             /\ main.step # "push"
             /\ \A th \in Thread : Numbered(th) => Served(th) # main.i
  <2>1. main.step = "construct" /\ num <= main.i
    BY <1>4, NumberBound DEF Construct
  <2>2. \A th \in Thread : Numbered(th) => Served(th) < num
    BY DEF Numbers
  <2>3. num \in Int /\ main.i \in Int /\ \A th \in Thread : Served(th) \in Int
    BY <1>1 DEF TypeInv, Queue, Thread
  <2> QED
    BY <2>1, <2>2, <2>3 DEF Calling
<1>5. ASSUME NEW th \in Thread, Inside(th)'
      PROVE  mutex'[Served(th)'] \in {th, Destroyed}
  <2>1. Served(th)' = Served(th) /\ Numbered(th)
        /\ ~Sleep(th) /\ ~TakeJob(th) /\ ~PopQuit(th) /\ (Inside(th) \/ LockQueue(th))
    BY <1>5, InsideStep DEF Served
  <2>2. CASE LockQueue(th)
    BY <1>1, <2>1, <2>2 DEF LockQueue, Lock
  <2>3. CASE Inside(th)
    <3>1. mutex[Served(th)] \in {th, Destroyed}
      BY <2>3 DEF Inside, Held
    <3>2. ASSUME NEW o \in Thread, Served(o) = Served(th) PROVE ~InitQueue(o)
      BY <2>1, <2>3, <3>2, OneServes DEF InitQueue, At, Inside, Numbered
    <3>3. Served(th) \in Queue /\ th \notin {Nobody, Raw, Destroyed, Main} \cup Client
      BY <1>1, <1>2
    <3>4. mutex[Served(th)] \notin {Nobody, Raw, Main} \cup Client
      BY <3>1, <3>3, ActorAssumption
    <3>5. \A o \in Thread : mutex[Served(th)] = o => o = th
      BY <1>2, <3>1
    <3>6. ~Construct \/ Served(th) # main.i
      BY <1>4, <2>1
    <3>7. MutexStep(Served(th))
      BY <3>3, MutexSteps
    <3>8. mutex'[Served(th)] = mutex[Served(th)]
      BY <2>1, <3>2, <3>4, <3>5, <3>6, <3>7 DEF MutexStep
    <3> QED
      BY <2>1, <3>1, <3>8
  <2> QED
    BY <2>1, <2>2, <2>3
<1>6. ASSUME NEW c \in Client, CalledAt(c, "push")'
      PROVE  mutex'[client'[c].queue] = c
  <2>1. CASE LockToPush(c)
    <3>1. main.step = "up"
      BY <2>1 DEF LockToPush, Calling, CalledAt
    <3>2. mutex[client[c].queue] # Destroyed
      BY <1>1, <3>1 DEF Held, QuitSent
    <3> QED
      BY <1>1, <2>1, <3>2, LockToPushMoves DEF LockToPush, Lock
  <2>2. CASE ~LockToPush(c)
    <3>1. CalledAt(c, "push") /\ client'[c] = client[c] /\ ~PushJob(c)
      <4>1. CASE client' = client /\ ~PushJob(c)
        BY <1>6, <4>1 DEF CalledAt
      <4>2. ASSUME NEW d \in Client,
                   \/ \E q \in Queue, wait \in BOOLEAN : Call(d, q, wait)
                   \/ \E wait \in BOOLEAN : Refuse(d, wait)
                   \/ LockToPush(d) \/ ClientStep(d)
            PROVE  d # c /\ client'[c] = client[c]
        BY <1>6, <2>2, <4>2, CallMoves, RefuseMoves, LockToPushMoves, PushJobMoves, ReturnMoves
        DEF ClientStep, CalledAt
      <4>3. ~PushJob(c)
        BY <4>2 DEF ClientStep
      <4> QED
        BY <1>6, <4>1, <4>2, <4>3
        DEF Next, MainStep, Down, Construct, Destruct, DestroyEnclave, LockToQuit, PushQuit,
            Join, LockQueue,
            WorkerStep, WakeSpuriously, TakeNumber, InitQueue, Sleep, TakeJob, Serve, Finish,
            Pop, PopQuit, vars, CalledAt
    <3>2. mutex[client[c].queue] = c
      BY <3>1 DEF Held
    <3>3. \A d \in Client : PushJob(d) => d # c
      BY <3>1
    <3> QED
      BY <1>1, <1>2, <1>3, <1>4, <3>1, <3>2, <3>3, MutexSteps DEF MutexStep, CalledAt
  <2> QED
    BY <2>1, <2>2
<1>7. ASSUME main'.step = "push" PROVE mutex'[main'.i] = Main
  <2>1. CASE LockToQuit
    <3>1. mutex[main.i] # Destroyed
      BY <1>1, <2>1, NumThreadsAssumption DEF Held, QuitSent, LockToQuit, Queue, Thread
    <3> QED
      BY <1>1, <2>1, <3>1 DEF LockToQuit, Lock, TypeInv, MainState
  <2>2. CASE ~LockToQuit
    <3>1. ~MainStep
      BY <1>7, <2>2 DEF MainStep, Construct, Destruct, DestroyEnclave, PushQuit, Join, TypeInv,
        MainState
    <3>2. main' = main
      BY <3>1
      DEF Next, Down, Call, Refuse, LockToPush, ClientStep, PushJob, Return, LockQueue,
          WorkerStep, WakeSpuriously, TakeNumber, InitQueue, Sleep, TakeJob, Serve, Finish, Pop,
          PopQuit, vars
    <3>3. mutex[main.i] = Main
      BY <1>7, <3>2 DEF Held
    <3> QED
      BY <1>1, <1>2, <1>3, <1>7, <3>1, <3>2, <3>3, MutexSteps DEF MutexStep, MainStep
  <2> QED
    BY <2>1, <2>2
<1>8. ASSUME NEW q \in Queue, mutex'[q] = Destroyed PROVE QuitSent(q)'
  <2>1. CASE mutex[q] = Destroyed
    BY <2>1, QuitSentStays DEF Held
  <2>2. CASE Join
    BY <2>2 DEF Join, QuitSent, TypeInv, MainState
  <2>3. ASSUME NEW th \in Thread, PopQuit(th), Served(th) = q PROVE QuitSent(q)'
    <3>1. queue[q] # <<>> /\ queue[q][1] = QUIT
      BY <2>3 DEF PopQuit, At, InHand
    <3>2. 1 \in DOMAIN queue[q]
      BY <3>1 DEF TypeInv
    <3> QED
      BY <3>1, <3>2, QuitSentStays DEF QuitLast
  <2> QED
    BY <1>2, <1>8, <2>1, <2>2, <2>3, MutexSteps DEF MutexStep
<1> QED
  BY <1>5, <1>6, <1>7, <1>8 DEF Held, Inside, CalledAt

-----------------------------------------------------------------------------
(* The queues.                                                             *)

Pushed(q, job) ==
  /\ queue'[q] = Append(queue[q], job)
  /\ worker' = Signal(q)
  /\ \/ PushQuit /\ q = main.i /\ job = QUIT
     \/ \E c \in Client : /\ PushJob(c) /\ q = client[c].queue
                          /\ job = Work(IF client[c].wait THEN c ELSE Nobody)

Popped(q, th) ==
  /\ Served(th) = q /\ (Pop(th) \/ PopQuit(th))
  /\ queue[q] # <<>> /\ queue'[q] = Tail(queue[q])

LEMMA QueueSteps ==
  ASSUME TypeInv, InHand, [Next]_vars, NEW q \in Queue
  PROVE  \/ queue'[q] = queue[q]
         \/ \E job \in Job : Pushed(q, job)
         \/ \E th \in Thread : Popped(q, th)
<1>1. queue \in [Queue -> Seq(Job)] /\ main.i \in Queue
      /\ (\A th \in Thread : Served(th) \in Queue) /\ \A c \in Client : client[c].queue \in Queue
  BY DEF TypeInv, MainState, WorkerState, ClientState, Served, Queue
<1>2. CASE UNCHANGED queue
  BY <1>2
<1>3. CASE PushQuit
  <2>1. queue'[q] = queue[q] \/ Pushed(q, QUIT)
    BY <1>1, <1>3 DEF PushQuit, Pushed
  <2> QED
    BY <2>1, WorkTyped
<1>4. ASSUME NEW c \in Client, PushJob(c)
      PROVE  queue'[q] = queue[q] \/ \E job \in Job : Pushed(q, job)
  <2> DEFINE job == Work(IF client[c].wait THEN c ELSE Nobody)
  <2>1. job \in Job
    BY WorkTyped
  <2>2. queue' = [queue EXCEPT ![client[c].queue] = Append(@, job)]
        /\ worker' = Signal(client[c].queue)
    BY <1>4 DEF PushJob
  <2>3. queue'[q] = queue[q] \/ Pushed(q, job)
    BY <1>1, <1>4, <2>2 DEF Pushed
  <2> QED
    BY <2>1, <2>3
<1>5. ASSUME NEW th \in Thread, Pop(th) \/ PopQuit(th)
      PROVE  queue'[q] = queue[q] \/ Popped(q, th)
  BY <1>1, <1>5 DEF Pop, PopQuit, At, InHand, Popped
<1> QED
  BY <1>2, <1>3, <1>4, <1>5
  DEF Next, MainStep, Down, Construct, Destruct, DestroyEnclave, LockToQuit, Join, Call,
      Refuse, LockToPush,
      ClientStep, Return, LockQueue, WorkerStep, WakeSpuriously, TakeNumber, InitQueue, Sleep,
      TakeJob, Serve, Finish, vars

\* A thread stays as it is, unless the constructor creates it, a signal wakes it up
\* or it takes a step of its own.
LEMMA ThreadSteps ==
  ASSUME TypeInv, [Next]_vars, NEW th \in Thread
  PROVE  \/ worker'[th] = worker[th]
         \/ Construct /\ th = main.i
         \/ /\ worker[th].step = "asleep" /\ worker'[th].step = "lock"
            /\ worker'[th].id = worker[th].id /\ worker'[th].job = worker[th].job
         \/ LockQueue(th) \/ WorkerStep(th) \/ WakeSpuriously(th)
<1>1. worker \in [Thread -> WorkerState]
  BY DEF TypeInv
<1>2. CASE UNCHANGED worker
  BY <1>2
<1>3. CASE Construct
  BY <1>3, ConstructMoves
<1>4. ASSUME NEW q, worker' = Signal(q)
      PROVE  \/ worker'[th] = worker[th]
             \/ /\ worker[th].step = "asleep" /\ worker'[th].step = "lock"
                /\ worker'[th].id = worker[th].id /\ worker'[th].job = worker[th].job
  <2>1. CASE worker[th].step = "asleep" /\ worker[th].id = q
    BY <1>1, <1>4, <2>1, SignalMoves DEF At, Served
  <2>2. CASE ~(worker[th].step = "asleep" /\ worker[th].id = q)
    BY <1>4, <2>2 DEF Signal
  <2> QED
    BY <2>1, <2>2
<1>5. ASSUME NEW o \in Thread, o # th, LockQueue(o) \/ WorkerStep(o) \/ WakeSpuriously(o)
      PROVE  worker'[th] = worker[th]
  <2>1. ASSUME NEW step, Goto(o, step) PROVE worker'[th] = worker[th]
    BY <1>1, <1>5, <2>1 DEF Goto
  <2>2. CASE TakeNumber(o) \/ TakeJob(o) \/ Pop(o)
    BY <1>1, <1>5, <2>2 DEF TakeNumber, TakeJob, Pop
  <2> QED
    BY <1>5, <2>1, <2>2
    DEF LockQueue, WorkerStep, WakeSpuriously, InitQueue, Sleep, Serve, Finish, PopQuit
<1> QED
  BY <1>2, <1>3, <1>4, <1>5
  DEF Next, MainStep, Down, Destruct, DestroyEnclave, LockToQuit, PushQuit, Join, Call,
      Refuse, LockToPush, ClientStep, PushJob, Return, vars

LEMMA Positions ==
  ASSUME TypeInv, NEW q \in Queue
  PROVE  /\ queue[q] \in Seq(Job) /\ Len(queue[q]) \in Nat
         /\ DOMAIN queue[q] = 1..Len(queue[q])
         /\ \A i \in DOMAIN queue[q] : queue[q][i] \in Job
         /\ queue[q] # <<>> <=> 1 \in DOMAIN queue[q]
<1>1. queue[q] \in Seq(Job)
  BY DEF TypeInv
<1>2. queue[q] # <<>> => Len(queue[q]) # 0
  BY <1>1, EmptySeq
<1> QED
  BY <1>1, <1>2, LenProperties, ElementOfSeq

LEMMA PushedAt ==
  ASSUME TypeInv, NEW q \in Queue, NEW job \in Job, queue'[q] = Append(queue[q], job)
  PROVE  /\ Len(queue'[q]) = Len(queue[q]) + 1
         /\ DOMAIN queue'[q] = DOMAIN queue[q] \cup {Len(queue[q]) + 1}
         /\ \A i \in DOMAIN queue[q] : queue'[q][i] = queue[q][i]
         /\ queue'[q][Len(queue[q]) + 1] = job
<1>1. queue[q] \in Seq(Job) /\ Len(queue[q]) \in Nat /\ DOMAIN queue[q] = 1..Len(queue[q])
  BY Positions
<1>2. queue'[q] \in Seq(Job) /\ Len(queue'[q]) = Len(queue[q]) + 1
  BY <1>1, AppendProperties
<1>3. DOMAIN queue'[q] = 1..(Len(queue[q]) + 1)
  BY <1>2, LenProperties
<1> QED
  BY <1>1, <1>2, <1>3, AppendProperties

LEMMA PoppedAt ==
  ASSUME TypeInv, NEW q \in Queue, queue[q] # <<>>, queue'[q] = Tail(queue[q])
  PROVE  /\ Len(queue'[q]) = Len(queue[q]) - 1
         /\ DOMAIN queue'[q] = 1..(Len(queue[q]) - 1)
         /\ \A i \in DOMAIN queue'[q] : i + 1 \in DOMAIN queue[q] /\ queue'[q][i] = queue[q][i + 1]
<1>1. queue[q] \in Seq(Job) /\ Len(queue[q]) \in Nat /\ DOMAIN queue[q] = 1..Len(queue[q])
  BY Positions
<1>2. /\ queue'[q] \in Seq(Job) /\ Len(queue'[q]) = Len(queue[q]) - 1
      /\ \A i \in 1..Len(queue'[q]) : queue'[q][i] = queue[q][i + 1]
  BY <1>1, HeadTailProperties
<1>3. DOMAIN queue'[q] = 1..(Len(queue[q]) - 1)
  BY <1>2, LenProperties
<1> QED
  BY <1>1, <1>2, <1>3

\* Jobs come to a queue only until QUIT has been sent to it.
LEMMA NothingAfterQuit ==
  ASSUME DispatchInv, [Next]_vars, NEW q \in Queue, QuitSent(q), NEW job \in Job
  PROVE  ~Pushed(q, job)
<1>1. ~(PushQuit /\ q = main.i)
  BY QuitSentStays DEF PushQuit, DispatchInv
<1>2. \A c \in Client : ~PushJob(c)
  BY DEF PushJob, QuitSent, Calling, CalledAt, DispatchInv
<1> QED
  BY <1>1, <1>2 DEF Pushed

LEMMA QuitLastStep ==
  ASSUME DispatchInv, [Next]_vars
  PROVE  QuitLast'
<1> USE DEF DispatchInv
<1> SUFFICES ASSUME NEW q \in Queue, NEW i \in DOMAIN queue'[q], queue'[q][i] = QUIT
             PROVE  QuitSent(q)' /\ i = Len(queue'[q])
  BY DEF QuitLast
<1>1. CASE queue'[q] = queue[q]
  BY <1>1, QuitSentStays DEF QuitLast
<1>2. ASSUME NEW job \in Job, Pushed(q, job)
      PROVE  QuitSent(q)' /\ i = Len(queue'[q])
  <2>1. ~QuitSent(q)
    BY <1>2, NothingAfterQuit
  <2>2. \A k \in DOMAIN queue[q] : queue[q][k] # QUIT
    BY <2>1 DEF QuitLast
  <2>3. i = Len(queue[q]) + 1 /\ job = QUIT
    BY <1>2, <2>2, PushedAt DEF Pushed
  <2>4. PushQuit /\ q = main.i
    BY <1>2, <2>3, WorkTyped DEF Pushed
  <2> QED
    BY <1>2, <2>3, <2>4, PushedAt, QuitSentStays DEF Pushed
<1>3. ASSUME NEW th \in Thread, Popped(q, th)
      PROVE  QuitSent(q)' /\ i = Len(queue'[q])
  <2>1. queue[q] # <<>> /\ queue'[q] = Tail(queue[q])
    BY <1>3 DEF Popped
  <2>2. i + 1 \in DOMAIN queue[q] /\ queue[q][i + 1] = QUIT /\ Len(queue'[q]) = Len(queue[q]) - 1
        /\ i \in Int /\ Len(queue[q]) \in Int
    BY <2>1, PoppedAt, Positions
  <2>3. QuitSent(q) /\ i + 1 = Len(queue[q])
    BY <2>2 DEF QuitLast
  <2> QED
    BY <2>2, <2>3, QuitSentStays
<1> QED
  BY <1>1, <1>2, <1>3, QueueSteps

\* The queue of a thread that pops nothing keeps its first job, and stays empty
\* after QUIT.
LEMMA HeadStays ==
  ASSUME DispatchInv, [Next]_vars, NEW th \in Thread, Numbered(th), ~Pop(th), ~PopQuit(th)
  PROVE  LET q == Served(th)
         IN /\ queue[q] # <<>> => queue'[q] # <<>> /\ queue'[q][1] = queue[q][1]
            /\ queue[q] = <<>> /\ QuitSent(q) => queue'[q] = <<>>
<1> USE DEF DispatchInv
<1> DEFINE q == Served(th)
<1>1. q \in Queue
  BY DEF TypeInv, WorkerState, Served, Queue
<1>2. \A o \in Thread : ~Popped(q, o)
  BY OneServes DEF Popped, Pop, PopQuit, At, Numbered
<1>3. ASSUME NEW job \in Job, Pushed(q, job), queue[q] # <<>>
      PROVE  queue'[q] # <<>> /\ queue'[q][1] = queue[q][1]
  <2>1. 1 \in DOMAIN queue[q] /\ queue[q] \in Seq(Job)
    BY <1>1, <1>3, Positions
  <2> QED
    BY <1>1, <1>3, <2>1, PushedAt, AppendProperties DEF Pushed
<1> HIDE DEF q
<1>4. queue[q] # <<>> => queue'[q] # <<>> /\ queue'[q][1] = queue[q][1]
  BY <1>1, <1>2, <1>3, QueueSteps
<1>5. queue[q] = <<>> /\ QuitSent(q) => queue'[q] = <<>>
  BY <1>1, <1>2, QueueSteps, NothingAfterQuit
<1> QED
  BY <1>4, <1>5 DEF q

-----------------------------------------------------------------------------
(* The worker threads.                                                     *)

LEMMA InHandStep ==
  ASSUME DispatchInv, [Next]_vars
  PROVE  InHand'
<1> USE DEF DispatchInv
<1> SUFFICES ASSUME NEW th \in Thread, NEW p \in Queue, p = worker'[th].id
             PROVE  /\ worker'[th].step \in {"serve", "finish", "relock", "pop", "quit", "last"} =>
                         queue'[p] # <<>> /\ worker'[th].job = queue'[p][1]
                    /\ worker'[th].step \in {"serve", "finish", "relock", "pop"} =>
                         worker'[th].job # QUIT
                    /\ worker'[th].step = "finish" => worker'[th].job.caller \in Client
                    /\ worker'[th].step \in {"quit", "last"} => worker'[th].job = QUIT
                    /\ worker'[th].step = "gone" => queue'[p] = <<>> /\ QuitSent(p)'
  <2>1. \A th \in Thread : Served(th)' \in Queue /\ Served(th)' = worker'[th].id
    BY WorkersTyped DEF WorkerState, Served, Queue
  <2> QED
    BY <2>1 DEF InHand
<1> DEFINE Hand == {"serve", "finish", "relock", "pop", "quit", "last"}
<1>0. PICK q \in Queue : q = Served(th)
  BY DEF TypeInv, WorkerState, Served, Queue
<1>1. worker \in [Thread -> WorkerState] /\ worker[th].id = q
  BY <1>0 DEF TypeInv, Served
<1>2. ~Pop(th) /\ ~PopQuit(th) /\ Numbered(th) =>
        /\ queue[q] # <<>> => queue'[q] # <<>> /\ queue'[q][1] = queue[q][1]
        /\ queue[q] = <<>> /\ QuitSent(q) => queue'[q] = <<>>
  BY <1>0, HeadStays
<1>3. QuitSent(q) => QuitSent(q)'
  BY QuitSentStays
\* The thread goes on with the same job.
<1>4. ASSUME ~Pop(th), ~PopQuit(th), worker[th].step \in Hand, worker'[th].step \in Hand,
             worker'[th].id = worker[th].id, worker'[th].job = worker[th].job
      PROVE  queue'[p] # <<>> /\ worker'[th].job = queue'[p][1]
  BY <1>0, <1>1, <1>2, <1>4 DEF InHand, Numbered
<1>5. CASE worker'[th] = worker[th] /\ ~Pop(th) /\ ~PopQuit(th)
  <2>1. worker[th].step \in Hand =>
          queue'[p] # <<>> /\ worker'[th].job = queue'[p][1]
    BY <1>4, <1>5
  <2>2. worker[th].step = "gone" => queue'[p] = <<>> /\ QuitSent(p)'
    BY <1>0, <1>1, <1>2, <1>3, <1>5 DEF InHand, Numbered
  <2> QED
    BY <1>5, <2>1, <2>2 DEF InHand
<1>6. ASSUME Goto(th, "check") \/ Goto(th, "lock") \/ Goto(th, "asleep") \/ Pop(th)
             \/ worker'[th].step \in {"start", "init", "lock"}
      PROVE  worker'[th].step \notin Hand \cup {"gone"}
  BY <1>1, <1>6, GotoMoves, PopMoves
<1>7. CASE LockQueue(th)
  <2>1. ~Pop(th) /\ ~PopQuit(th)
    BY <1>7 DEF LockQueue, At, Pop, PopQuit
  <2>2. \/ Goto(th, "check")
        \/ worker[th].step = "relock" /\ Goto(th, "pop")
        \/ worker[th].step = "quit" /\ Goto(th, "last")
    BY <1>7 DEF LockQueue, At
  <2>3. CASE worker[th].step = "relock" /\ Goto(th, "pop")
    BY <1>1, <1>4, <2>1, <2>3, GotoMoves DEF InHand
  <2>4. CASE worker[th].step = "quit" /\ Goto(th, "last")
    BY <1>1, <1>4, <2>1, <2>4, GotoMoves DEF InHand
  <2> QED
    BY <1>6, <2>2, <2>3, <2>4
<1>8. CASE TakeJob(th)
  <2>1. queue' = queue /\ QUIT \in Job
    BY <1>8, WorkTyped DEF TakeJob
  <2> QED
    BY <1>0, <1>1, <1>8, <2>1, TakeJobMoves
<1>9. CASE Serve(th)
  <2>1. worker[th].step = "serve" /\ queue' = queue /\ ~Pop(th) /\ ~PopQuit(th)
    BY <1>9 DEF Serve, At, Pop, PopQuit
  <2>2. worker[th].job.caller \in Client \cup {Nobody}
    BY WorkTyped DEF TypeInv, WorkerState
  <2>3. \/ Goto(th, "relock")
        \/ Goto(th, "finish") /\ worker[th].job.caller \in Client
    BY <1>9, <2>2 DEF Serve
  <2> QED
    BY <1>1, <1>4, <2>1, <2>3, GotoMoves DEF InHand
<1>10. CASE Finish(th)
  <2>1. worker[th].step = "finish" /\ ~Pop(th) /\ ~PopQuit(th) /\ Goto(th, "relock")
    BY <1>10 DEF Finish, At, Pop, PopQuit
  <2> QED
    BY <1>1, <1>4, <2>1, GotoMoves DEF InHand
<1>11. CASE PopQuit(th)
  <2>1. worker[th].step = "last" /\ Goto(th, "gone") /\ queue' = [queue EXCEPT ![q] = Tail(@)]
    BY <1>0, <1>11 DEF PopQuit, At
  <2>2. queue[q] # <<>> /\ queue[q][1] = QUIT /\ queue'[q] = Tail(queue[q])
    BY <1>0, <2>1 DEF InHand, TypeInv
  <2>3. QuitSent(q) /\ Len(queue[q]) = 1
    BY <2>2, Positions DEF QuitLast
  <2>4. queue'[q] = <<>>
    BY <2>2, <2>3, HeadTailProperties, Positions, EmptySeq
  <2> QED
    BY <1>1, <1>3, <2>1, <2>3, <2>4, GotoMoves
<1>12. CASE WorkerStep(th) \/ WakeSpuriously(th)
  BY <1>6, <1>8, <1>9, <1>10, <1>11, <1>12, TakeNumberMoves
  DEF WorkerStep, WakeSpuriously, InitQueue, Sleep
<1>13. CASE Construct /\ th = main.i
  BY <1>6, <1>13, ConstructMoves
<1>14. worker'[th] = worker[th] => ~Pop(th) /\ ~PopQuit(th)
  BY <1>1, PopMoves, GotoMoves DEF Pop, PopQuit, At
<1> QED
  BY <1>5, <1>6, <1>7, <1>12, <1>13, <1>14, ThreadSteps

LEMMA NoLostWakeupStep ==
  ASSUME DispatchInv, [Next]_vars
  PROVE  NoLostWakeup'
<1> USE DEF DispatchInv
<1> SUFFICES ASSUME NEW th \in Thread, worker'[th].step = "asleep"
             PROVE  queue'[worker'[th].id] = <<>>
  BY DEF NoLostWakeup, Served
<1> DEFINE q == Served(th)
<1>1. worker \in [Thread -> WorkerState] /\ q \in Queue
  BY DEF TypeInv, WorkerState, Served, Queue
<1>2. Sleep(th) \/ worker'[th] = worker[th]
  <2>1. ASSUME NEW step, step # "asleep", Goto(th, step) PROVE FALSE
    BY <1>1, <2>1, GotoMoves
  <2>2. ~TakeNumber(th) /\ ~TakeJob(th) /\ ~Pop(th) /\ ~(Construct /\ th = main.i)
    BY TakeNumberMoves, TakeJobMoves, PopMoves, ConstructMoves
  <2>3. ~LockQueue(th)
    BY <2>1 DEF LockQueue
  <2>4. ~InitQueue(th) /\ ~Serve(th) /\ ~Finish(th) /\ ~PopQuit(th) /\ ~WakeSpuriously(th)
    BY <2>1 DEF InitQueue, Serve, Finish, PopQuit, WakeSpuriously
  <2> QED
    BY <2>2, <2>3, <2>4, ThreadSteps DEF WorkerStep
<1>3. CASE Sleep(th)
  BY <1>1, <1>3, GotoMoves DEF Sleep, Served
<1>4. CASE worker'[th] = worker[th]
  <2>1. queue[q] = <<>> /\ worker'[th].id = q /\ At(th, "asleep")
    BY <1>4 DEF NoLostWakeup, Served, At
  <2>2. ASSUME NEW job \in Job, Pushed(q, job) PROVE FALSE
    BY <1>1, <1>4, <2>1, <2>2, SignalMoves DEF Pushed, At
  <2>3. \A o \in Thread : ~Popped(q, o)
    BY <2>1 DEF Popped
  <2> QED
    BY <1>1, <2>1, <2>2, <2>3, QueueSteps
<1> QED
  BY <1>2, <1>3, <1>4

LEMMA JoinedStep ==
  ASSUME DispatchInv, [Next]_vars
  PROVE  Joined'
<1> USE DEF DispatchInv
<1>1. \A th \in Thread : worker[th].step = "gone" => worker'[th].step = "gone"
  <2> SUFFICES ASSUME NEW th \in Thread, worker[th].step = "gone" PROVE worker'[th].step = "gone"
    OBVIOUS
  <2>1. ~LockQueue(th) /\ ~WorkerStep(th) /\ ~WakeSpuriously(th)
    BY DEF LockQueue, WorkerStep, WakeSpuriously, TakeNumber, InitQueue, Sleep, TakeJob, Serve,
        Finish, Pop, PopQuit, At
  <2>2. ~(Construct /\ th = main.i)
    BY DEF Construct, Created, TypeInv, MainState, Thread
  <2> QED
    BY <2>1, <2>2, ThreadSteps
<1>2. main.i \in Thread /\ main \in MainState
  BY DEF TypeInv, MainState
<1>3. CASE main' = main
  BY <1>1, <1>3 DEF Joined
<1>4. CASE Join
  BY <1>1, <1>2, <1>4, NumThreadsAssumption DEF Join, Joined, Thread, MainState
<1>5. CASE Construct \/ Destruct \/ DestroyEnclave \/ LockToQuit \/ PushQuit
  BY <1>2, <1>5, NumThreadsAssumption
  DEF Construct, Destruct, DestroyEnclave, LockToQuit, PushQuit, Joined, Thread, MainState
<1> QED
  BY <1>3, <1>4, <1>5
  DEF Next, MainStep, Down, Call, Refuse, LockToPush, ClientStep, PushJob, Return, LockQueue,
      WorkerStep, WakeSpuriously, TakeNumber, InitQueue, Sleep, TakeJob, Serve, Finish, Pop,
      PopQuit, vars

-----------------------------------------------------------------------------
(* The flags of a call.                                                    *)

LEMMA ClientSteps ==
  ASSUME TypeInv, [Next]_vars, NEW c \in Client
  PROVE  \/ client'[c] = client[c]
         \/ \E q \in Queue, wait \in BOOLEAN : Call(c, q, wait)
         \/ \E wait \in BOOLEAN : Refuse(c, wait)
         \/ LockToPush(c) \/ PushJob(c) \/ Return(c)
<1>1. CASE client' = client
  BY <1>1
<1>2. ASSUME NEW d \in Client, d # c,
             \/ \E q \in Queue, wait \in BOOLEAN : Call(d, q, wait)
             \/ \E wait \in BOOLEAN : Refuse(d, wait)
             \/ LockToPush(d) \/ ClientStep(d)
      PROVE  client'[c] = client[c]
  BY <1>2, CallMoves, RefuseMoves, LockToPushMoves, PushJobMoves, ReturnMoves DEF ClientStep
<1> QED
  BY <1>1, <1>2
  DEF Next, MainStep, Down, Construct, Destruct, DestroyEnclave, LockToQuit, PushQuit, Join,
      ClientStep,
      LockQueue, WorkerStep, WakeSpuriously, TakeNumber, InitQueue, Sleep, TakeJob, Serve,
      Finish, Pop, PopQuit, vars

\* Who sets and resets *finished.
LEMMA FinishedSteps ==
  ASSUME TypeInv, [Next]_vars, NEW c \in Client
  PROVE  \/ flags'[c].finished = flags[c].finished
         \/ \E th \in Thread : Finish(th) /\ worker[th].job.caller = c
         \/ \E q \in Queue, wait \in BOOLEAN : Call(c, q, wait) /\ (wait => ~flags'[c].finished)
         \/ \E wait \in BOOLEAN : Refuse(c, wait) /\ (wait => flags'[c].finished)
         \/ Return(c)
<1>1. flags \in [Client -> FlagState]
  BY DEF TypeInv
<1>2. CASE flags' = flags
  BY <1>2
<1>3. ASSUME NEW th \in Thread, Serve(th) PROVE flags'[c].finished = flags[c].finished
  <2>1. ASSUME NEW d, NEW error, flags' = [flags EXCEPT ![d].error = error]
        PROVE  flags'[c].finished = flags[c].finished
    BY <1>1, <2>1 DEF FlagState
  <2> QED
    BY <1>2, <1>3, <2>1 DEF Serve
<1>4. ASSUME NEW th \in Thread, Finish(th), worker[th].job.caller # c
      PROVE  flags'[c].finished = flags[c].finished
  BY <1>1, <1>4 DEF Finish
<1>5. ASSUME NEW d \in Client, d # c,
             \/ \E q \in Queue, wait \in BOOLEAN : Call(d, q, wait)
             \/ \E wait \in BOOLEAN : Refuse(d, wait)
             \/ Return(d)
      PROVE  flags'[c] = flags[c]
  BY <1>1, <1>5 DEF Call, Refuse, Return
<1>6. \A q \in Queue, wait \in BOOLEAN : Call(c, q, wait) => (wait => ~flags'[c].finished)
  BY <1>1 DEF Call
<1>7. \A wait \in BOOLEAN : Refuse(c, wait) => (wait => flags'[c].finished)
  BY <1>1 DEF Refuse
<1>8. ASSUME NEW d \in Client,
             \/ \E q \in Queue, wait \in BOOLEAN : Call(d, q, wait)
             \/ \E wait \in BOOLEAN : Refuse(d, wait)
             \/ Return(d)
      PROVE  \/ flags'[c] = flags[c]
             \/ \E q \in Queue, wait \in BOOLEAN : Call(c, q, wait) /\ (wait => ~flags'[c].finished)
             \/ \E wait \in BOOLEAN : Refuse(c, wait) /\ (wait => flags'[c].finished)
             \/ Return(c)
  BY <1>5, <1>6, <1>7, <1>8
<1> QED
  BY <1>2, <1>3, <1>4, <1>8
  DEF Next, MainStep, Down, Construct, Destruct, DestroyEnclave, LockToQuit, PushQuit, Join,
      ClientStep,
      LockToPush, PushJob, LockQueue, WorkerStep, WakeSpuriously, TakeNumber, InitQueue, Sleep,
      TakeJob, Pop, PopQuit, vars

\* The job a thread is about to finish is one its caller waits for.
LEMMA FinishAwaited ==
  ASSUME DispatchInv, NEW th \in Thread, At(th, "finish")
  PROVE  LET c == worker[th].job.caller
         IN c \in Client /\ Waits(c) /\ Pending(c, Served(th), 1) /\ 1 \in DOMAIN queue[Served(th)]
<1> USE DEF DispatchInv
<1> DEFINE c == worker[th].job.caller
           q == Served(th)
<1>1. c \in Client /\ q \in Queue /\ queue[q] # <<>> /\ worker[th].job = queue[q][1]
  BY DEF InHand, At, TypeInv, WorkerState, Served, Queue
<1>2. ~Answered(q)
  BY OneServes DEF Answered, At, Numbered
<1>3. 1 \in DOMAIN queue[q]
  BY <1>1, Positions
<1>4. Pending(c, q, 1)
  BY <1>1, <1>2 DEF Pending
<1>5. Waits(c)
  BY <1>1, <1>3, <1>4 DEF OneJob
<1> QED
  BY <1>1, <1>3, <1>4, <1>5

LEMMA NotFinishedStep ==
  ASSUME DispatchInv, [Next]_vars
  PROVE  NotFinished'
<1> USE DEF DispatchInv
<1> SUFFICES ASSUME NEW c \in Client, client'[c].step \in {"lock", "push"}, client'[c].wait
             PROVE  ~flags'[c].finished
  BY DEF NotFinished
<1>1. ~Return(c) /\ ~PushJob(c) /\ \A wait \in BOOLEAN : ~Refuse(c, wait)
  BY RefuseMoves, PushJobMoves, ReturnMoves
<1>2. \A th \in Thread : ~(Finish(th) /\ worker[th].job.caller = c)
  <2> SUFFICES ASSUME NEW th \in Thread, Finish(th), worker[th].job.caller = c PROVE FALSE
    OBVIOUS
  <2>1. Waits(c) /\ client' = client
    BY FinishAwaited DEF Finish
  <2> QED
    BY <2>1 DEF Waits, CalledAt
<1>3. CASE \E q \in Queue, wait \in BOOLEAN : Call(c, q, wait)
  <2>1. PICK q \in Queue, wait \in BOOLEAN : Call(c, q, wait)
    BY <1>3
  <2>2. wait = TRUE
    BY <2>1, CallMoves
  <2> QED
    BY <2>1, <2>2 DEF Call, TypeInv
<1>4. CASE ~\E q \in Queue, wait \in BOOLEAN : Call(c, q, wait)
  <2>1. flags'[c].finished = flags[c].finished
    BY <1>1, <1>2, <1>4, FinishedSteps
  <2>2. client[c].step \in {"lock", "push"} /\ client[c].wait
    BY <1>1, <1>4, ClientSteps, LockToPushMoves
  <2> QED
    BY <2>1, <2>2 DEF NotFinished
<1> QED
  BY <1>3, <1>4

Answers(th) == worker[th].step \in {"relock", "pop"}

\* A thread answers from Serve or Finish until it pops the job.
LEMMA AnswersStep ==
  ASSUME TypeInv, Created, [Next]_vars, NEW th \in Thread, ~Pop(th), ~Finish(th),
         ~(Serve(th) /\ worker[th].job.caller = Nobody)
  PROVE  /\ Answers(th)' <=> Answers(th)
         /\ Answers(th) => worker'[th].id = worker[th].id
<1>1. worker \in [Thread -> WorkerState]
  BY DEF TypeInv
<1>2. ASSUME NEW step, Goto(th, step), step \in {"relock", "pop"} <=> Answers(th)
      PROVE  /\ Answers(th)' <=> Answers(th)
             /\ Answers(th) => worker'[th].id = worker[th].id
  BY <1>1, <1>2, GotoMoves DEF Answers
<1>3. CASE LockQueue(th)
  BY <1>2, <1>3 DEF LockQueue, At, Answers
<1>4. CASE InitQueue(th) \/ Sleep(th) \/ Serve(th) \/ PopQuit(th) \/ WakeSpuriously(th)
  BY <1>2, <1>4 DEF InitQueue, Sleep, Serve, PopQuit, WakeSpuriously, At, Answers
<1>5. CASE TakeNumber(th)
  BY <1>1, <1>5 DEF TakeNumber, At, Answers, WorkerState
<1>6. CASE TakeJob(th)
  BY <1>6, TakeJobMoves DEF TakeJob, At, Answers
<1>7. CASE Construct /\ th = main.i
  <2>1. worker[th].step = "absent" /\ worker'[th].step = "start"
    BY <1>7, ConstructMoves DEF Construct, Created, TypeInv, MainState, Thread
  <2> QED
    BY <2>1 DEF Answers
<1> QED
  BY <1>3, <1>4, <1>5, <1>6, <1>7, ThreadSteps DEF WorkerStep, Answers

LEMMA AnsweredStep ==
  ASSUME TypeInv, Created, [Next]_vars,
         \A th \in Thread :
           ~Pop(th) /\ ~Finish(th) /\ ~(Serve(th) /\ worker[th].job.caller = Nobody),
         NEW q
  PROVE  Answered(q)' <=> Answered(q)
  BY AnswersStep DEF Answered, Answers, Served

\* A client starts to wait when its job is pushed and stops when it is finished.
LEMMA WaitsStep ==
  ASSUME DispatchInv, [Next]_vars, NEW c \in Client, ~PushJob(c),
         \A th \in Thread : ~(Finish(th) /\ worker[th].job.caller = c)
  PROVE  Waits(c)' <=> Waits(c)
<1> USE DEF DispatchInv
<1>1. ASSUME \E q \in Queue, wait \in BOOLEAN : Call(c, q, wait) PROVE ~Waits(c)' /\ ~Waits(c)
  BY <1>1, CallMoves DEF Waits, CalledAt
<1>2. ASSUME NEW wait \in BOOLEAN, Refuse(c, wait) PROVE ~Waits(c)' /\ ~Waits(c)
  <2>1. client[c].step = "idle" /\ client'[c].step = (IF wait THEN "spin" ELSE "idle")
    BY <1>2, RefuseMoves
  <2>2. wait => flags'[c].finished
    BY <1>2 DEF Refuse, TypeInv
  <2> QED
    BY <2>1, <2>2 DEF Waits, CalledAt
<1>3. ASSUME Return(c) PROVE ~Waits(c)' /\ ~Waits(c)
  BY <1>3, ReturnMoves DEF Return, Waits, CalledAt
<1>4. ASSUME LockToPush(c) PROVE ~Waits(c)' /\ ~Waits(c)
  BY <1>4, LockToPushMoves DEF Waits, CalledAt
<1>5. CASE client'[c] = client[c] /\ flags'[c].finished = flags[c].finished
  BY <1>5 DEF Waits, CalledAt
<1> QED
  BY <1>1, <1>2, <1>3, <1>4, <1>5, ClientSteps, FinishedSteps

LEMMA OneJobOtherStep ==
  ASSUME OneJob, queue' = queue, \A q \in Queue : Answered(q)' <=> Answered(q),
         \A c \in Client : Waits(c)' <=> Waits(c)
  PROVE  OneJob'
  BY DEF OneJob, Pending

LEMMA OneJobPopStep ==
  ASSUME DispatchInv, [Next]_vars, NEW th \in Thread, Pop(th)
  PROVE  OneJob'
<1> USE DEF DispatchInv
<1>1. PICK q \in Queue : q = Served(th)
  BY DEF TypeInv, WorkerState, Served, Queue
<1>2. /\ worker[th].step = "pop" /\ queue[q] # <<>> /\ queue'[q] = Tail(queue[q])
      /\ queue' = [queue EXCEPT ![q] = Tail(@)] /\ flags' = flags /\ client' = client
  BY <1>1 DEF Pop, At, InHand, TypeInv
<1>3. /\ worker'[th].step = "check"
      /\ \A o \in Thread : o # th => worker'[o] = worker[o]
  BY PopMoves
<1>4. Answered(q) /\ ~Answered(q)'
  <2>1. Answered(q)
    BY <1>1, <1>2 DEF Answered
  <2>2. \A o \in Thread : o # th /\ Answers(o) => Served(o) # q
    BY <1>1, <1>2, OneServes DEF Answers, Numbered
  <2> QED
    BY <1>3, <2>1, <2>2 DEF Answered, Answers, Served
<1>5. \A p \in Queue : p # q => (Answered(p)' <=> Answered(p)) /\ queue'[p] = queue[p]
  <2>1. \A p \in Queue : p # q => (Answered(p)' <=> Answered(p))
    BY <1>1, <1>3, PopMoves DEF Answered, Served
  <2> QED
    BY <1>2, <2>1 DEF TypeInv
<1>6. \A c \in Client : Waits(c)' <=> Waits(c)
  BY <1>2 DEF Waits, CalledAt
<1>7. /\ \A i \in DOMAIN queue'[q] : i + 1 \in DOMAIN queue[q] /\ queue'[q][i] = queue[q][i + 1]
      /\ \A i \in DOMAIN queue[q] : i # 1 =>
          i - 1 \in DOMAIN queue'[q] /\ queue'[q][i - 1] = queue[q][i]
  BY <1>2, PoppedAt, Positions
<1>8. /\ \A i \in DOMAIN queue'[q] : i \in Int /\ i + 1 # 1
      /\ \A i \in DOMAIN queue[q] : i \in Int
  BY <1>2, PoppedAt, Positions
\* The jobs behind the first one move up.
<1>9. ASSUME NEW c \in Client, NEW i \in DOMAIN queue'[q]
      PROVE  Pending(c, q, i)' <=> Pending(c, q, i + 1)
  BY <1>4, <1>7, <1>8 DEF Pending
<1>10. ASSUME NEW c \in Client, NEW i \in DOMAIN queue[q], Pending(c, q, i)
       PROVE  i - 1 \in DOMAIN queue'[q] /\ Pending(c, q, i - 1)'
  <2>1. i # 1
    BY <1>4, <1>10 DEF Pending
  <2> QED
    BY <1>4, <1>7, <1>8, <1>10, <2>1 DEF Pending
<1>11. ASSUME NEW c \in Client, NEW p \in Queue, p # q, NEW i
       PROVE  Pending(c, p, i)' <=> Pending(c, p, i)
  BY <1>5, <1>11 DEF Pending
<1>12. ASSUME NEW c \in Client, Waits(c)'
       PROVE  \E p \in Queue : \E i \in DOMAIN queue'[p] : Pending(c, p, i)'
  <2>1. PICK p \in Queue : \E i \in DOMAIN queue[p] : Pending(c, p, i)
    BY <1>6, <1>12 DEF OneJob
  <2> QED
    BY <1>5, <1>10, <1>11, <2>1
\* To every job that is pending now belongs one that was pending before.
<1>13. ASSUME NEW c \in Client, NEW p1 \in Queue, NEW p2 \in Queue,
              NEW i \in DOMAIN queue'[p1], NEW j \in DOMAIN queue'[p2],
              Pending(c, p1, i)', Pending(c, p2, j)'
       PROVE  Waits(c)' /\ p1 = p2 /\ i = j
  <2>1. PICK k \in DOMAIN queue[p1] : Pending(c, p1, k) /\ k = IF p1 = q THEN i + 1 ELSE i
    BY <1>5, <1>7, <1>9, <1>11, <1>13
  <2>2. PICK l \in DOMAIN queue[p2] : Pending(c, p2, l) /\ l = IF p2 = q THEN j + 1 ELSE j
    BY <1>5, <1>7, <1>9, <1>11, <1>13
  <2>3. Waits(c) /\ p1 = p2 /\ k = l
    BY <2>1, <2>2 DEF OneJob
  <2>4. p1 = q => i = j
    BY <1>8, <2>1, <2>2, <2>3
  <2> QED
    BY <1>6, <2>1, <2>2, <2>3, <2>4
<1> QED
  BY <1>12, <1>13 DEF OneJob

LEMMA OneJobPopQuitStep ==
  ASSUME DispatchInv, [Next]_vars, NEW th \in Thread, PopQuit(th)
  PROVE  OneJob'
<1> USE DEF DispatchInv
<1>1. PICK q \in Queue : q = Served(th)
  BY DEF TypeInv, WorkerState, Served, Queue
<1>2. /\ worker[th].step = "last" /\ Goto(th, "gone")
      /\ \A p \in Queue : p # q => queue'[p] = queue[p]
      /\ flags' = flags /\ client' = client
  BY <1>1 DEF PopQuit, At, TypeInv
<1>3. queue'[q] = <<>>
  <2>1. worker'[th].step = "gone" /\ worker'[th].id = q
    BY <1>1, <1>2, GotoMoves DEF TypeInv, Served
  <2> QED
    BY <2>1, InHandStep DEF InHand, Served
<1>4. ASSUME NEW c \in Client, NEW i \in DOMAIN queue[q] PROVE ~Pending(c, q, i)
  <2>1. queue[q] # <<>> /\ queue[q][1] = QUIT
    BY <1>1, <1>2 DEF InHand
  <2>2. i = 1
    BY <2>1, <1>4, Positions DEF QuitLast
  <2> QED
    BY <2>1, <2>2, WorkTyped, ActorAssumption DEF Pending
<1>5. \A p \in Queue : Answered(p)' <=> Answered(p)
  <2>1. \A o \in Thread : ~Pop(o) /\ ~Finish(o) /\ ~Serve(o)
    <3> SUFFICES ASSUME NEW o \in Thread, Pop(o) \/ Finish(o) \/ Serve(o) PROVE FALSE
      OBVIOUS
    <3>1. o # th /\ worker'[o].step # worker[o].step
      BY <1>2, GotoMoves, PopMoves DEF Pop, Finish, Serve, At, TypeInv
    <3> QED
      BY <1>2, <3>1, GotoMoves DEF TypeInv
  <2> QED
    BY <2>1, AnsweredStep
<1>6. \A c \in Client, p \in Queue : p # q =>
        \A i : Pending(c, p, i)' <=> Pending(c, p, i)
  BY <1>2, <1>5 DEF Pending
<1>7. \A c \in Client : Waits(c)' <=> Waits(c)
  BY <1>2 DEF Waits, CalledAt
<1>8. DOMAIN queue'[q] = {}
  BY <1>3
<1>9. ASSUME NEW c \in Client, Waits(c)'
      PROVE  \E p \in Queue : \E i \in DOMAIN queue'[p] : Pending(c, p, i)'
  BY <1>2, <1>4, <1>6, <1>7, <1>9 DEF OneJob
<1>10. ASSUME NEW c \in Client, NEW p1 \in Queue, NEW p2 \in Queue,
              NEW i \in DOMAIN queue'[p1], NEW j \in DOMAIN queue'[p2],
              Pending(c, p1, i)', Pending(c, p2, j)'
       PROVE  Waits(c)' /\ p1 = p2 /\ i = j
  BY <1>2, <1>6, <1>7, <1>8, <1>10 DEF OneJob
<1> QED
  BY <1>9, <1>10 DEF OneJob

LEMMA OneJobPushStep ==
  ASSUME DispatchInv, NEW q \in Queue, NEW job \in Job,
         queue'[q] = Append(queue[q], job), \A p \in Queue : p # q => queue'[p] = queue[p],
         \A p \in Queue : Answered(p)' <=> Answered(p),
         \A c \in Client : Waits(c)' <=> Waits(c) \/ c = job.caller,
         \A c \in Client : c = job.caller => ~Waits(c)
  PROVE  OneJob'
<1> USE DEF DispatchInv
<1>0. PICK last \in Nat : last = Len(queue[q]) + 1
  BY Positions
<1>1. /\ DOMAIN queue'[q] = DOMAIN queue[q] \cup {last} /\ last \notin DOMAIN queue[q]
      /\ \A i \in DOMAIN queue[q] : queue'[q][i] = queue[q][i]
      /\ queue'[q][last] = job
  BY <1>0, PushedAt, Positions
<1>2. ~(last = 1 /\ Answered(q))
  <2>1. Answered(q) => queue[q] # <<>>
    BY DEF Answered, InHand
  <2> QED
    BY <1>0, <2>1, Positions
<1>3. ASSUME NEW c \in Client, NEW p \in Queue, NEW i \in DOMAIN queue[p]
      PROVE  i \in DOMAIN queue'[p] /\ (Pending(c, p, i)' <=> Pending(c, p, i))
  BY <1>1 DEF Pending
<1>4. ASSUME NEW c \in Client PROVE Pending(c, q, last)' <=> c = job.caller
  BY <1>1, <1>2 DEF Pending
<1>5. \A p \in Queue : \A i \in DOMAIN queue'[p] : i \in DOMAIN queue[p] \/ (p = q /\ i = last)
  BY <1>1
<1>6. ASSUME NEW c \in Client, Waits(c)'
      PROVE  \E p \in Queue : \E i \in DOMAIN queue'[p] : Pending(c, p, i)'
  BY <1>1, <1>3, <1>4, <1>6 DEF OneJob
<1>7. ASSUME NEW c \in Client, NEW p1 \in Queue, NEW p2 \in Queue,
             NEW i \in DOMAIN queue'[p1], NEW j \in DOMAIN queue'[p2],
             Pending(c, p1, i)', Pending(c, p2, j)'
      PROVE  Waits(c)' /\ p1 = p2 /\ i = j
  <2>1. CASE c = job.caller
    <3>1. \A p \in Queue : \A k \in DOMAIN queue[p] : ~Pending(c, p, k)
      BY <2>1 DEF OneJob
    <3>2. p1 = q /\ i = last /\ p2 = q /\ j = last
      BY <1>3, <1>5, <1>7, <3>1
    <3> QED
      BY <2>1, <3>2
  <2>2. CASE c # job.caller
    <3>1. /\ i \in DOMAIN queue[p1] /\ j \in DOMAIN queue[p2]
          /\ Pending(c, p1, i) /\ Pending(c, p2, j)
      BY <1>3, <1>4, <1>5, <1>7, <2>2
    <3> QED
      BY <3>1 DEF OneJob
  <2> QED
    BY <2>1, <2>2
<1> QED
  BY <1>6, <1>7 DEF OneJob

\* The head of queue q, which thread th finishes, is pending no more.
LEMMA OneJobServedStep ==
  ASSUME DispatchInv, [Next]_vars, NEW th \in Thread, NEW q \in Queue, q = Served(th),
         worker[th].step \in {"serve", "finish"}, Goto(th, "relock"), queue' = queue,
         \A c \in Client : Waits(c)' <=> Waits(c) /\ c # worker[th].job.caller
  PROVE  OneJob'
<1> USE DEF DispatchInv
<1>1. queue[q] # <<>> /\ queue[q][1] = worker[th].job /\ 1 \in DOMAIN queue[q]
  BY Positions DEF InHand
<1>2. worker'[th].step = "relock" /\ worker'[th].id = q
      /\ \A o \in Thread : o # th => worker'[o] = worker[o]
  BY GotoMoves DEF TypeInv, Served
<1>3. Answered(q)' /\ ~Answered(q)
  <2>1. ~Answered(q)
    BY OneServes DEF Answered, Numbered
  <2> QED
    BY <1>2, <2>1 DEF Answered, Served
<1>4. \A p \in Queue : p # q => (Answered(p)' <=> Answered(p))
  BY <1>2 DEF Answered, Served
<1>5. ASSUME NEW c \in Client, NEW p \in Queue, NEW i \in DOMAIN queue[p]
      PROVE  Pending(c, p, i)' <=> Pending(c, p, i) /\ ~(p = q /\ i = 1)
  BY <1>3, <1>4 DEF Pending
<1>6. ASSUME NEW c \in Client, Waits(c)'
      PROVE  \E p \in Queue : \E i \in DOMAIN queue'[p] : Pending(c, p, i)'
  <2>1. c # worker[th].job.caller /\ \E p \in Queue : \E i \in DOMAIN queue[p] : Pending(c, p, i)
    BY <1>6 DEF OneJob
  <2>2. ~Pending(c, q, 1)
    BY <1>1, <2>1 DEF Pending
  <2> QED
    BY <1>5, <2>1, <2>2
<1>7. ASSUME NEW c \in Client, NEW p1 \in Queue, NEW p2 \in Queue,
             NEW i \in DOMAIN queue'[p1], NEW j \in DOMAIN queue'[p2],
             Pending(c, p1, i)', Pending(c, p2, j)'
      PROVE  Waits(c)' /\ p1 = p2 /\ i = j
  <2>1. Waits(c) /\ p1 = p2 /\ i = j /\ Pending(c, p1, i) /\ ~(p1 = q /\ i = 1)
    BY <1>5, <1>7 DEF OneJob
  <2>2. c # worker[th].job.caller
    <3>1. c = worker[th].job.caller => Pending(c, q, 1)
      BY <1>1, <1>3 DEF Pending
    <3> QED
      BY <1>1, <2>1, <3>1 DEF OneJob
  <2> QED
    BY <2>1, <2>2
<1> QED
  BY <1>6, <1>7 DEF OneJob

LEMMA OneJobStep ==
  ASSUME DispatchInv, [Next]_vars
  PROVE  OneJob'
<1> USE DEF DispatchInv
<1>1. CASE PushQuit
  <2>1. /\ main.i \in Queue /\ QUIT \in Job /\ QUIT.caller \notin Client
        /\ queue' = [queue EXCEPT ![main.i] = Append(@, QUIT)]
        /\ worker' = Signal(main.i) /\ client' = client /\ flags' = flags
    BY <1>1, WorkTyped, ActorAssumption DEF PushQuit, TypeInv, MainState, Queue
  <2>2. \A p \in Queue : Answered(p)' <=> Answered(p)
    BY <2>1, SignalMoves DEF Answered, Served, At, TypeInv
  <2>3. \A c \in Client : Waits(c)' <=> Waits(c)
    BY <2>1 DEF Waits, CalledAt
  <2> QED
    BY <2>1, <2>2, <2>3, OneJobPushStep DEF TypeInv
<1>2. ASSUME NEW c \in Client, PushJob(c) PROVE OneJob'
  <2> DEFINE job == Work(IF client[c].wait THEN c ELSE Nobody)
             q == client[c].queue
  <2>1. /\ q \in Queue /\ job \in Job
        /\ \A d \in Client : d = job.caller <=> client[c].wait /\ d = c
    BY WorkTyped, ActorAssumption DEF TypeInv, ClientState
  <2>2. /\ queue' = [queue EXCEPT ![q] = Append(@, job)]
        /\ worker' = Signal(q) /\ flags' = flags
    BY <1>2 DEF PushJob
  <2>3. \A p \in Queue : Answered(p)' <=> Answered(p)
    BY <2>2, SignalMoves DEF Answered, Served, At, TypeInv
  <2>4. /\ client[c].step = "push"
        /\ client'[c].step = (IF client[c].wait THEN "spin" ELSE "idle")
        /\ \A d \in Client : d # c => client'[d] = client[d]
    BY <1>2, PushJobMoves
  <2>5. \A d \in Client : d # c => (Waits(d)' <=> Waits(d))
    BY <2>2, <2>4 DEF Waits, CalledAt
  <2>6. ~Waits(c) /\ (Waits(c)' <=> client[c].wait)
    BY <2>2, <2>4 DEF Waits, CalledAt, NotFinished
  <2> HIDE DEF job, q
  <2>7. queue'[q] = Append(queue[q], job) /\ \A p \in Queue : p # q => queue'[p] = queue[p]
    BY <2>1, <2>2 DEF TypeInv
  <2> QED
    BY <2>1, <2>3, <2>5, <2>6, <2>7, OneJobPushStep
<1>3. ASSUME NEW th \in Thread, Serve(th), worker[th].job.caller = Nobody PROVE OneJob'
  <2>1. /\ worker[th].step = "serve" /\ Goto(th, "relock")
        /\ queue' = queue /\ flags' = flags /\ client' = client
    BY <1>3 DEF Serve, At
  <2>2. \A c \in Client : Waits(c)' <=> Waits(c) /\ c # worker[th].job.caller
    BY <1>3, <2>1, ActorAssumption DEF Waits, CalledAt
  <2>3. Served(th) \in Queue
    BY DEF TypeInv, WorkerState, Served, Queue
  <2> QED
    BY <2>1, <2>2, <2>3, OneJobServedStep
<1>4. ASSUME NEW th \in Thread, Finish(th) PROVE OneJob'
  <2>1. /\ worker[th].step = "finish" /\ Goto(th, "relock")
        /\ queue' = queue /\ client' = client
        /\ flags' = [flags EXCEPT ![worker[th].job.caller].finished = TRUE]
    BY <1>4 DEF Finish, At
  <2>2. \A c \in Client : Waits(c)' <=> Waits(c) /\ c # worker[th].job.caller
    BY <2>1 DEF Waits, CalledAt, TypeInv, FlagState
  <2>3. Served(th) \in Queue
    BY DEF TypeInv, WorkerState, Served, Queue
  <2> QED
    BY <2>1, <2>2, <2>3, OneJobServedStep
<1>5. CASE /\ ~PushQuit /\ \A c \in Client : ~PushJob(c)
           /\ \A th \in Thread : ~Pop(th) /\ ~PopQuit(th) /\ ~Finish(th)
                                 /\ ~(Serve(th) /\ worker[th].job.caller = Nobody)
  <2>1. queue' = queue
    BY <1>5
    DEF Next, MainStep, Down, Construct, Destruct, DestroyEnclave, LockToQuit, Join, Call,
        Refuse, LockToPush,
        ClientStep, Return, LockQueue, WorkerStep, WakeSpuriously, TakeNumber, InitQueue, Sleep,
        TakeJob, Serve, vars
  <2>2. \A q \in Queue : Answered(q)' <=> Answered(q)
    BY <1>5, AnsweredStep
  <2>3. \A c \in Client : Waits(c)' <=> Waits(c)
    BY <1>5, WaitsStep
  <2> QED
    BY <2>1, <2>2, <2>3, OneJobOtherStep
<1> QED
  BY <1>1, <1>2, <1>3, <1>4, <1>5, OneJobPopStep, OneJobPopQuitStep

-----------------------------------------------------------------------------
(* The theorems.                                                           *)

LEMMA DispatchInvStep == DispatchInv /\ [Next]_vars => DispatchInv'
  BY TypeStep, CreatedStep, NumbersStep, InitialisedStep, CallingStep, HeldStep, QuitLastStep,
     InHandStep, NoLostWakeupStep, JoinedStep, NotFinishedStep, OneJobStep
  DEF DispatchInv

LEMMA DispatchInvAlways == Disciplined => (Spec => []DispatchInv)
<1>1. Disciplined /\ Init => DispatchInv
  BY InitDispatch
<1> QED
  BY <1>1, DispatchInvStep, PTL DEF Spec

LEMMA OneInQueueHolds == DispatchInv => OneInQueue
<1> SUFFICES ASSUME DispatchInv, NEW q \in Queue, NEW a \in InQueue(q), NEW b \in InQueue(q)
             PROVE  a = b
  BY DEF OneInQueue
<1> USE DEF DispatchInv
\* Who is in the queue is known from its mutex.
<1>1. ASSUME NEW x \in InQueue(q)
      PROVE  \/ x \in Thread /\ Served(x) = q /\ Inside(x) /\ mutex[q] \in {x, Destroyed}
             \/ mutex[q] = x /\ x \in Client /\ ~QuitSent(q)
             \/ mutex[q] = x /\ x = Main /\ ~QuitSent(q)
  <2>1. CASE x \in Thread /\ Served(x) = q /\ worker[x].step \in {"check", "pop", "last"}
    BY <2>1 DEF Held, Inside
  <2>2. CASE x \in Client /\ client[x].queue = q /\ CalledAt(x, "push")
    BY <2>2 DEF Held, Calling, CalledAt, QuitSent
  <2>3. CASE x = Main /\ main.step = "push" /\ main.i = q
    <3>1. ~QuitSent(q)
      BY <2>3 DEF QuitSent, Queue, Thread
    <3> QED
      BY <2>3, <3>1 DEF Held
  <2> QED
    BY <1>1, <2>1, <2>2, <2>3 DEF InQueue
<1>2. mutex[q] = Destroyed => QuitSent(q)
  BY DEF Held
<1>3. a \in Thread /\ b \in Thread /\ Inside(a) /\ Inside(b) /\ Served(a) = q /\ Served(b) = q =>
      a = b
  BY OneServes DEF Inside, Numbered
<1> QED
  BY <1>1, <1>2, <1>3, ActorAssumption

\* Mutual exclusion in each queue (create_job, process_request and the
\* destructor, which share it).
THEOREM DispatchOneInQueue == Disciplined => (Spec => []OneInQueue)
  BY DispatchInvAlways, OneInQueueHolds, PTL

LEMMA InitialisedHolds == DispatchInv => InitialisedBeforeUse
<1> SUFFICES ASSUME DispatchInv PROVE InitialisedBeforeUse
  OBVIOUS
<1> USE DEF DispatchInv
<1>1. \A th \in Thread : worker[th].step \notin {"absent", "start", "init"} =>
        mutex[Served(th)] # Raw
  <2>1. CASE inEnclave
    BY <2>1 DEF Initialised
  <2>2. CASE ~inEnclave
    <3> SUFFICES ASSUME NEW th \in Thread, Numbered(th) PROVE mutex[Served(th)] # Raw
      BY DEF Numbered
    <3>1. main.step # "construct" \/ Served(th) < main.i
      <4>1. Served(th) < num /\ Served(th) \in Int /\ num \in Int /\ main.i \in Int
        BY DEF Numbers, TypeInv, WorkerState, MainState, Served, Thread
      <4> QED
        BY <4>1, NumberBound
    <3> QED
      BY <2>2, <3>1 DEF Initialised, TypeInv, WorkerState, Served, Queue
  <2> QED
    BY <2>1, <2>2
<1>2. ASSUME main.step # "construct", Started, NEW q \in Queue PROVE mutex[q] # Raw
  <2>1. PICK th \in Thread : Numbered(th) /\ Served(th) = q
    BY <1>2, NumberBound
  <2> QED
    BY <1>1, <1>2, <2>1 DEF Started
<1> QED
  BY <1>1, <1>2 DEF InitialisedBeforeUse

\* Nobody uses a mutex that has not been initialised.
THEOREM DispatchInitialisedBeforeUse == Disciplined => (Spec => []InitialisedBeforeUse)
  BY DispatchInvAlways, InitialisedHolds, PTL

\* No worker sleeps on a queue that has jobs.
THEOREM DispatchNoLostWakeup == Disciplined => (Spec => []NoLostWakeup)
<1>1. DispatchInv => NoLostWakeup
  BY DEF DispatchInv
<1> QED
  BY <1>1, DispatchInvAlways, PTL

LEMMA OneJobPerCallHolds == DispatchInv => OneJobPerCall
<1> SUFFICES ASSUME DispatchInv, NEW c \in Client
             PROVE  Cardinality(Unanswered(c)) = IF Waits(c) THEN 1 ELSE 0
  BY DEF OneJobPerCall, Waits
<1>1. \A x : x \in Unanswered(c) <=>
        \E q \in Queue : \E i \in DOMAIN queue[q] : Pending(c, q, i) /\ x = <<q, i>>
  BY DEF Unanswered, Pending
<1>2. CASE Waits(c)
  <2>1. PICK q \in Queue : \E i \in DOMAIN queue[q] : Pending(c, q, i)
    BY <1>2 DEF DispatchInv, OneJob
  <2>2. PICK i \in DOMAIN queue[q] : Pending(c, q, i)
    BY <2>1
  <2>3. Unanswered(c) = {<<q, i>>}
    BY <1>1, <2>2 DEF DispatchInv, OneJob
  <2> QED
    BY <1>2, <2>3, FS_Singleton
<1>3. CASE ~Waits(c)
  <2>1. Unanswered(c) = {}
    BY <1>1, <1>3 DEF DispatchInv, OneJob
  <2> QED
    BY <1>3, <2>1, FS_EmptySet
<1> QED
  BY <1>2, <1>3

\* The flags of a call belong to one job while the caller waits and to none
\* otherwise: no worker writes to flags that are deleted.
THEOREM DispatchOneJobPerCall == Disciplined => (Spec => []OneJobPerCall)
  BY DispatchInvAlways, OneJobPerCallHolds, PTL

LEMMA NothingLeftHolds == DispatchInv => NothingLeft
<1> SUFFICES ASSUME DispatchInv, main.step = "down", NEW q \in Queue PROVE queue[q] = <<>>
  BY DEF NothingLeft
<1> USE DEF DispatchInv
<1>1. \A th \in Thread : worker[th].step = "gone"
  BY DEF Joined
<1>2. PICK th \in Thread : Served(th) = q
  BY <1>1, NumberBound DEF Started
<1> QED
  BY <1>1, <1>2 DEF InHand

\* Where the destructor sends QUIT and joins the threads (insecure-lockmanager
\* and out-of-enclave), it ends when all jobs have been served. The destructor of
\* demand-paging does neither: it loses the jobs that are still queued.
THEOREM DispatchNothingLeft == Disciplined => (Spec => []NothingLeft)
  BY DispatchInvAlways, NothingLeftHolds, PTL
=============================================================================

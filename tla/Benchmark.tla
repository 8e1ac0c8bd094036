----------------------------- MODULE Benchmark -----------------------------
(***************************************************************************)
(* benchmark.cpp: transactions A and B acquire the same rows in shared     *)
(* mode, and the time until all of them are served is measured.  Most      *)
(* calls do not wait; waitOn names the rows for which the program does     *)
(* wait, in order that everything is served when experiment returns.  The  *)
(* four lock managers have a copy each, which differ in two places.        *)
(* client_main.cpp does the same from a client, and then unlocks all rows. *)
(*                                                                         *)
(* A lock worker serves its queue in order; a call that does not wait      *)
(* returns when the request is queued.                                     *)
(***************************************************************************)
EXTENDS Integers, Sequences, FiniteSets

CONSTANTS
  Setting,    \* what evaluation.sh sets, and the program
  TableSize,  \* lock_table_size of LockManager
  NotRunning

\* The constant lockTableSize of the program, whether all requests for locks
\* wait, whether the program unlocks, and whether it waits for that.
Program ==
  [lockTableSize : Nat \ {0}, always : BOOLEAN, unlock : {"never", "wait", "do not wait"}]

ASSUME SettingAssumption ==
  /\ TableSize \in Nat \ {0}
  /\ \A s \in Setting :
       /\ s.numThreads \in Nat \ {0} /\ s.numLocks \in Nat \ {0}
       /\ s.program \in Program
       /\ s.program.lockTableSize >= s.numThreads

VARIABLES
  setting,  \* of the experiment that runs, or NotRunning
  issued,   \* how many requests the program has made
  queued,   \* the requests in the queue of each lock worker
  locked    \* the rows each transaction has locked

benchVars == <<setting, issued, queued, locked>>

A == 1
B == 2

demand_paging == [lockTableSize |-> TableSize, always |-> FALSE, unlock |-> "never"]

\* evaluation/untrusted, and out-of-enclave: both branches pass TRUE.
untrusted == [lockTableSize |-> TableSize, always |-> TRUE, unlock |-> "never"]

\* lockTableSize is lockBudget, while LockManager goes on to have its own.
insecure_lockmanager(numLocks) ==
  [lockTableSize |-> numLocks, always |-> FALSE, unlock |-> "never"]

\* The client of insecure-lockmanager, and that of out-of-enclave and
\* evaluation/untrusted; their servers have one lock worker.
insecure_client == [lockTableSize |-> TableSize, always |-> FALSE, unlock |-> "wait"]
out_of_enclave_client == [lockTableSize |-> TableSize, always |-> TRUE, unlock |-> "do not wait"]

base(s) ==
  LET size == s.program.lockTableSize
  IN IF s.numLocks < size THEN 0 ELSE ((s.numLocks \div size) - 1) * size

partitionSize(s) == s.program.lockTableSize \div s.numThreads

\* Fault: the last row of all is not waited for.
WaitOnPartitions(s) ==
  {base(s) + partitionSize(s) * i - 1 : i \in 1..(s.numThreads - 1)}

waitOn(s) ==
  {s.numLocks} \cup {base(s) + partitionSize(s) * i - 1 : i \in 1..(s.numThreads - 1)}

\* The three loops count n up: the multiple of the table size, the place in
\* the partition, the partition.  Rows beyond the last partition are left out.
rowId(s, n) ==
  LET inTable == n % (partitionSize(s) * s.numThreads)
  IN s.program.lockTableSize * (n \div (partitionSize(s) * s.numThreads))
       + partitionSize(s) * (inTable % s.numThreads)
       + (inTable \div s.numThreads) + 1

Rows(s) ==
  LET size == s.program.lockTableSize
      tables == (s.numLocks + size - 1) \div size
  IN SelectSeq([n \in 1..(tables * partitionSize(s) * s.numThreads) |-> rowId(s, n - 1)],
               LAMBDA row : row <= s.numLocks)

LockRequest(t, row, wait) ==
  [command |-> "LOCK", transaction |-> t, row |-> row, wait |-> wait]
UnlockRequest(t, row, wait) ==
  [command |-> "UNLOCK", transaction |-> t, row |-> row, wait |-> wait]

\* A locks the rows and then B does.
experiment(s) ==
  LET LockRows(t) ==
        [n \in 1..Len(Rows(s)) |->
           LockRequest(t, Rows(s)[n], s.program.always \/ Rows(s)[n] \in waitOn(s))]
  IN LockRows(A) \o LockRows(B)

\* The last row is left out of the loops, and waited for.
LockAllButLast(numLocks) ==
  LET LockRows(t) == [row \in 1..(numLocks - 1) |-> LockRequest(t, row, FALSE)]
  IN LockRows(A) \o LockRows(B) \o
       <<LockRequest(A, numLocks, TRUE), LockRequest(B, numLocks, TRUE)>>

LockAll(numLocks) ==
  LET LockRows(t) == [row \in 1..numLocks |-> LockRequest(t, row, TRUE)]
  IN LockRows(A) \o LockRows(B)

\* A and B in turn; if anything is waited for, it is the last.
UnlockAll(numLocks, wait) ==
  [n \in 1..(2 * numLocks) |->
     UnlockRequest(IF n % 2 = 1 THEN A ELSE B, (n + 1) \div 2, wait /\ n = 2 * numLocks)]

Requests(s) ==
  CASE s.program.unlock = "never" -> experiment(s)
    [] s.program.unlock = "wait" -> LockAllButLast(s.numLocks) \o UnlockAll(s.numLocks, TRUE)
    [] OTHER -> LockAll(s.numLocks) \o UnlockAll(s.numLocks, FALSE)

\* The worker that LockManager assigns to a row.
WorkerOf(s, row) == ((row % TableSize) * s.numThreads) \div TableSize

-----------------------------------------------------------------------------

BenchInit ==
  /\ setting = NotRunning
  /\ issued = 0
  /\ queued = <<>>
  /\ locked = [t \in {A, B} |-> {}]

\* main: a new LockManager, two registrations.
StartExperiment ==
  /\ setting = NotRunning
  /\ \E s \in Setting :
       /\ setting' = s
       /\ queued' = [w \in 0..(s.numThreads - 1) |-> <<>>]
  /\ UNCHANGED <<issued, locked>>

Unserved == UNION {{queued[w][i] : i \in 1..Len(queued[w])} : w \in DOMAIN queued}

\* The last request was one to wait for, and has not been served.
Waits ==
  /\ issued > 0
  /\ LET last == Requests(setting)[issued] IN last.wait /\ last \in Unserved

Issue ==
  /\ setting # NotRunning
  /\ issued < Len(Requests(setting))
  /\ ~Waits
  /\ issued' = issued + 1
  /\ LET request == Requests(setting)[issued + 1]
     IN queued' = [queued EXCEPT ![WorkerOf(setting, request.row)] = Append(@, request)]
  /\ UNCHANGED <<setting, locked>>

\* The lock budget of either transaction is numLocks.
ServeLock(t, row) ==
  /\ Cardinality(locked[t]) < setting.numLocks /\ row \notin locked[t]
  /\ locked' = [locked EXCEPT ![t] = @ \cup {row}]

ServeUnlock(t, row) ==
  /\ row \in locked[t]
  /\ locked' = [locked EXCEPT ![t] = @ \ {row}]

ServeRequest(w) ==
  /\ queued[w] # <<>>
  /\ LET request == Head(queued[w])
     IN \/ request.command = "LOCK" /\ ServeLock(request.transaction, request.row)
        \/ request.command = "UNLOCK" /\ ServeUnlock(request.transaction, request.row)
  /\ queued' = [queued EXCEPT ![w] = Tail(@)]
  /\ UNCHANGED <<setting, issued>>

Returned ==
  /\ setting # NotRunning
  /\ issued = Len(Requests(setting))
  /\ ~Waits

\* The time is taken, the LockManager destroyed, and evaluation.sh goes on.
EndExperiment ==
  /\ Returned
  /\ setting' = NotRunning
  /\ issued' = 0
  /\ queued' = <<>>
  /\ locked' = [t \in {A, B} |-> {}]

BenchNext ==
  \/ StartExperiment
  \/ Issue
  \/ \E w \in DOMAIN queued : ServeRequest(w)
  \/ EndExperiment

-----------------------------------------------------------------------------

\* "each thread completes all requests before we stop the time measurement":
\* when A and B have made all requests for locks they have the locks, if all
\* calls wait, with one lock worker, and with fewer rows than one worker has,
\* provided that the partitions cover the table.  (With more rows a worker's
\* last request is for the first row of its partition, and not for the last one
\* as waitOn has it.)  A client that waits for its last unlock leaves no lock.
AllServedAtTheEnd ==
  /\ setting # NotRunning
  /\ setting.program.lockTableSize % setting.numThreads = 0
  /\ \/ setting.program.always
     \/ setting.numThreads = 1
     \/ setting.numLocks < TableSize \div setting.numThreads
  => /\ issued = 2 * setting.numLocks /\ ~Waits =>
          \A t \in {A, B} : locked[t] = 1..setting.numLocks
     /\ Returned /\ setting.program.unlock = "wait" =>
          \A t \in {A, B} : locked[t] = {}
=============================================================================

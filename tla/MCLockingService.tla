-------------------------- MODULE MCLockingService --------------------------
(* The programs that are built on LockManager: the server with its clients *)
(* (LockingService), and the benchmark and the example clients, which make *)
(* their requests in a given order.  A behaviour runs one.                 *)
EXTENDS LockingService, Benchmark

CONSTANTS Modest, ModestBudget, OtherBudget

VARIABLE program

MCBudget == [t \in Transaction |-> IF t = Modest THEN ModestBudget ELSE OtherBudget]

\* Two bytes for each half of a signature.
MCEcdsa ==
  [a \in Key \X {lock_to_string(t, r, x) : t \in Transaction, r \in Row, x \in BOOLEAN} |->
     LET n == 40 * a[2][1] + 20 * a[2][2] + (IF a[2][3] = "X" THEN 10 ELSE 0)
     IN [x |-> <<a[1], n>>, y |-> <<n, 250 + a[1]>>]]

\* Fewer rows than lock workers would make partitions of no rows.
MCSetting ==
  {[numThreads |-> n, numLocks |-> m, program |-> p] :
     n \in {1, 2, 4}, m \in {4, 5, 8, 9}, p \in {demand_paging, untrusted}}
  \cup {[numThreads |-> n, numLocks |-> m, program |-> demand_paging] :
     n \in {1, 2, 4}, m \in 1..3}
  \cup {[numThreads |-> n, numLocks |-> m, program |-> insecure_lockmanager(m)] :
     n \in {1, 2}, m \in {2, 3, 6}}
  \cup {[numThreads |-> 1, numLocks |-> m, program |-> p] :
     m \in 1..4, p \in {insecure_client, out_of_enclave_client}}

MCInit ==
  /\ program \in {"server", "benchmark"}
  /\ ServiceInit
  /\ BenchInit

\* Once a call into the SDK or the file system has failed nothing is promised
\* of the key, and the tables do not depend on it: only starts and stops are
\* followed from there.
MCNext ==
  \/ /\ program = "server" /\ UNCHANGED <<program, benchVars>>
     /\ \/ failures = 0 /\ ServiceNext
        \/ failures > 0 /\ (StartServer \/ StopServer)
  \/ program = "benchmark" /\ BenchNext /\ UNCHANGED <<program, serviceVars>>

MCSpec == MCInit /\ [][MCNext]_<<program, serviceVars, benchVars>>
=============================================================================

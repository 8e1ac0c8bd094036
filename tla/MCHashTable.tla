------------------------------ MODULE MCHashTable ------------------------------
(* Instances of HashTable: which thread calls what. *)
EXTENDS HashTable, TLC

CONSTANTS w1, w2

All(th, ops, keys) == [thread : {th}, op : ops, key : keys]

\* Both threads change the first bucket; in the other one w2 registers transactions, none
\* of which ends, and w1 looks them up.
Everybody ==
  All(w1, {"get", "add", "remove"}, {0, 2, 4}) \cup All(w2, {"add", "remove"}, {0, 2})
    \cup All(w2, {"add"}, {1}) \cup All(w1, {"get"}, {1})

\* Calls of a bucket wait for each other, unless one adds and the other ones read.
TakeTurns == Init /\ [][Next /\ NoClash']_vars

\* The transaction table: w1 registers transactions, w2 ends one.
OneAddsOneRemoves == All(w1, {"add"}, {0, 1}) \cup All(w2, {"remove"}, {0})

\* The lock table of out-of-enclave: w1 is a client and w2 the worker, which removes no
\* lock that a client is adding.
OtherRows ==
  \A th, u \in Thread :
    th # u /\ thread[th].step # "idle" /\ thread[u].step # "idle" => thread[th].key # thread[u].key
AddBesideRemove == Init /\ [][Next /\ OtherRows']_vars

Symmetric == Permutations(Node) \cup Permutations(Value)
=============================================================================

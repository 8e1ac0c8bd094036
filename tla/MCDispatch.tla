----------------------------- MODULE MCDispatch -----------------------------
(* How calls get through: the queues, threads and flags of the lock         *)
(* managers (JobDispatch), and the registration of evaluation/untrusted,    *)
(* which has another mutex and an object that is in the table before the    *)
(* transaction is registered (Untrusted).  A behaviour is one of either,    *)
(* and the other one has nothing to do.                                     *)
EXTENDS JobDispatch, Untrusted

VARIABLE subject

NoDispatch ==
  /\ build = "insecure" /\ num = NumThreads
  /\ main = [step |-> "down", i |-> 0]
  /\ mutex = [q \in Queue |-> Destroyed]
  /\ queue = [q \in Queue |-> <<>>]
  /\ worker = [th \in Thread |-> [step |-> "gone", id |-> th, job |-> QUIT]]
  /\ client = [c \in Client |-> [step |-> "idle", queue |-> 0, wait |-> FALSE, calls |-> 0]]
  /\ flags = [c \in Client |-> [alive |-> FALSE, finished |-> FALSE, error |-> FALSE]]

MCInit ==
  \/ subject = "dispatch" /\ Init /\ UntrustedInit
  \/ subject = "untrusted" /\ NoDispatch /\ UntrustedInit

MCNext ==
  \/ subject = "dispatch" /\ Next /\ UNCHANGED <<subject, untrustedVars>>
  \/ subject = "untrusted" /\ UntrustedNext /\ UNCHANGED <<subject, vars>>

MCSpec == MCInit /\ [][MCNext]_<<subject, vars, untrustedVars>> /\ Fairness /\ UntrustedFairness
=============================================================================

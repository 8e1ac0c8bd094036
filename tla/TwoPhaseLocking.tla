-------------------------- MODULE TwoPhaseLocking --------------------------
(***************************************************************************)
(* What the lock manager promises, without tables, workers or queues: a    *)
(* registered transaction acquires locks in modes that agree with those of *)
(* the other transactions until it first releases one (the growing phase), *)
(* then only releases (the shrinking phase), and its locks are gone when   *)
(* the transaction is.  A transaction that ended may register again.       *)
(***************************************************************************)
CONSTANTS Transaction, Row

VARIABLES phase,   \* of each transaction
          held     \* the mode in which a transaction holds a row

vars == <<phase, held>>

Phases == {"none", "growing", "shrinking"}
Modes == {"none", "shared", "exclusive"}

TypeOK ==
  /\ phase \in [Transaction -> Phases]
  /\ held \in [Transaction -> [Row -> Modes]]

Nothing == [r \in Row |-> "none"]

Init ==
  /\ phase = [t \in Transaction |-> "none"]
  /\ held = [t \in Transaction |-> Nothing]

Agrees(t, r, mode) ==
  \A u \in Transaction \ {t} :
    held[u][r] # "none" => mode = "shared" /\ held[u][r] = "shared"

Register(t) ==
  /\ phase[t] = "none"
  /\ phase' = [phase EXCEPT ![t] = "growing"]
  /\ UNCHANGED held

Grant(t, r, mode) ==
  /\ phase[t] = "growing"
  /\ held[t][r] = "none"
  /\ Agrees(t, r, mode)
  /\ held' = [held EXCEPT ![t][r] = mode]
  /\ UNCHANGED phase

Upgrade(t, r) ==
  /\ phase[t] = "growing"
  /\ held[t][r] = "shared"
  /\ Agrees(t, r, "exclusive")
  /\ held' = [held EXCEPT ![t][r] = "exclusive"]
  /\ UNCHANGED phase

Release(t, r) ==
  /\ held[t][r] # "none"
  /\ held' = [held EXCEPT ![t][r] = "none"]
  /\ phase' = [phase EXCEPT ![t] = "shrinking"]

\* The last lock was released, or the lock manager aborts the transaction.
End(t) ==
  /\ phase[t] # "none"
  /\ phase' = [phase EXCEPT ![t] = "none"]
  /\ held' = [held EXCEPT ![t] = Nothing]

Next ==
  \E t \in Transaction :
    \/ Register(t)
    \/ End(t)
    \/ \E r \in Row :
         \/ \E mode \in {"shared", "exclusive"} : Grant(t, r, mode)
         \/ Upgrade(t, r)
         \/ Release(t, r)

Spec == Init /\ [][Next]_vars

\* Two transactions hold a row together only if both hold it shared.
MutualExclusion ==
  \A t, u \in Transaction, r \in Row :
    t # u /\ held[t][r] # "none" => held[u][r] # "exclusive"

\* A transaction that is not registered holds nothing.
NothingHeldUnregistered ==
  \A t \in Transaction : phase[t] = "none" => held[t] = Nothing
=============================================================================

------------------------ MODULE TwoPhaseLocking_proofs ------------------------
(***************************************************************************)
(* What TwoPhaseLocking allows is two-phase locking: what is proved of it  *)
(* here holds of everything that implements it.                            *)
(***************************************************************************)
EXTENDS TwoPhaseLocking, TLAPS

Safe == TypeOK /\ MutualExclusion /\ NothingHeldUnregistered

LEMMA SafeStep ==
  ASSUME Safe, [Next]_vars
  PROVE  Safe'
<1> USE DEF Safe, TypeOK, MutualExclusion, NothingHeldUnregistered, Nothing, Phases, Modes
<1>1. ASSUME NEW t \in Transaction, Register(t) PROVE Safe'
  BY <1>1 DEF Register
<1>2. ASSUME NEW t \in Transaction, End(t) PROVE Safe'
  BY <1>2 DEF End
<1>3. ASSUME NEW t \in Transaction, NEW r \in Row, NEW mode \in {"shared", "exclusive"},
             Grant(t, r, mode)
      PROVE  Safe'
  BY <1>3 DEF Grant, Agrees
<1>4. ASSUME NEW t \in Transaction, NEW r \in Row, Upgrade(t, r) PROVE Safe'
  BY <1>4 DEF Upgrade, Agrees
<1>5. ASSUME NEW t \in Transaction, NEW r \in Row, Release(t, r) PROVE Safe'
  BY <1>5 DEF Release
<1>6. CASE UNCHANGED vars
  BY <1>6 DEF vars
<1> QED
  BY <1>1, <1>2, <1>3, <1>4, <1>5, <1>6 DEF Next

\* Two transactions hold a row together only if both hold it shared, and a transaction
\* that is not registered holds nothing.
THEOREM TwoPhaseLockingIsSafe ==
  Spec => [](MutualExclusion /\ NothingHeldUnregistered)
<1>1. Init => Safe
  BY DEF Init, Safe, TypeOK, MutualExclusion, NothingHeldUnregistered, Nothing, Phases, Modes
<1>2. Safe => MutualExclusion /\ NothingHeldUnregistered
  BY DEF Safe
<1> QED
  BY <1>1, <1>2, SafeStep, PTL DEF Spec
=============================================================================

------------------------------ MODULE RowLock ------------------------------
(***************************************************************************)
(* The lock object of one row, insecure-lockmanager/src/lockmanager/       *)
(* lock.cpp.  An operation of lock.cpp that may be refused is a pair: the  *)
(* condition under which the C++ function returns true, and the object it  *)
(* leaves in that case.  A refused operation leaves the object as it is.   *)
(* Here and in the other modules a definition marked "Fault" is no part of *)
(* the model: it is a plausible mistake in the definition that follows it, *)
(* which a property must tell from the code.                               *)
(***************************************************************************)

LockRecord(Owner) == [exclusive : BOOLEAN, owners : SUBSET Owner]

newLock == [exclusive |-> FALSE, owners |-> {}]

\* Fault: the mode of the lock is not looked at.
CanShareAlways(lock) == TRUE

CanShare(lock) == ~lock.exclusive

getSharedAccess(lock, t) == [lock EXCEPT !.owners = @ \cup {t}]

CanOwnExclusively(lock) == lock.owners = {}

getExclusiveAccess(lock, t) == [exclusive |-> TRUE, owners |-> lock.owners \cup {t}]

\* Fault: being an owner suffices, other owners are not looked for.
CanUpgradeAsOneOfMany(lock, t) == t \in lock.owners

CanUpgrade(lock, t) == lock.owners = {t}

\* Fault: the mode is not changed.
upgradeToNothing(lock) == lock

upgrade(lock) == [lock EXCEPT !.exclusive = TRUE]

\* Fault: all owners go.
releaseForAll(lock, t) == newLock

\* A transaction that is no owner leaves the mode of the lock alone.
release(lock, t) ==
  IF t \in lock.owners
  THEN [exclusive |-> FALSE, owners |-> lock.owners \ {t}]
  ELSE lock

\* What a lock object must never be: an exclusive lock of several owners.
Compatible(lock) == lock.exclusive => \A t, u \in lock.owners : t = u
=============================================================================

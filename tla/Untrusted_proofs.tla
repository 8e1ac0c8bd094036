-------------------------- MODULE Untrusted_proofs --------------------------
(***************************************************************************)
(* Theorems about Untrusted, for any number of callers, calls, transactions*)
(* and rows: the rows of a transaction and the owners of a row agree, if   *)
(* its callers wait for its registration before they ask for locks.        *)
(***************************************************************************)
EXTENDS Untrusted, FiniteSetTheorems, SequenceTheorems, TLAPS

ObjectState == [transaction_id : Nat, locked_rows : Seq(RowId)]
LockState == [exclusive : BOOLEAN, owners : Seq(Nat)]

CallState ==
  [step : {"idle", "register", "look", "send", "wait", "request", "done", "refused"},
   transaction_id : TransactionId \cup {0}, row_id : RowId \cup {0},
   exclusive : BOOLEAN, wait : BOOLEAN, made : Nat]

Registration == [transaction_id : TransactionId, caller : Caller]

Request ==
  [transaction_id : TransactionId, row_id : RowId, exclusive : BOOLEAN,
   caller : Caller \cup {None}]

UntrustedTypes ==
  /\ object \in [TransactionId -> ObjectState \cup {None}]
  /\ lock \in [RowId -> LockState \cup {None}]
  /\ registrations \in Seq(Registration)
  /\ requests \in Seq(Request)
  /\ call \in [Caller -> CallState]
  /\ returned \subseteq TransactionId

\* What a thread knows of the call it makes.
CallKnows(c) ==
  /\ Step(c) # "idle" => call[c].transaction_id \in TransactionId
  /\ Step(c) \in {"register", "look", "send"} => call[c].row_id = 0
  /\ Step(c) = "send" => object[call[c].transaction_id] # None
  /\ Step(c) = "request" => call[c].row_id \in RowId /\ lock[call[c].row_id] # None
  /\ Step(c) = "done" /\ call[c].row_id = 0 => Known(call[c].transaction_id)

\* Of the threads that wait each has one job in one of the queues.
RegistrationAwaited(job) ==
  /\ Step(job.caller) = "wait" /\ call[job.caller].row_id = 0
  /\ call[job.caller].transaction_id = job.transaction_id
  /\ object[job.transaction_id] # None

RegistrationsAwaited ==
  /\ \A i \in DOMAIN registrations : RegistrationAwaited(registrations[i])
  /\ \A i, j \in DOMAIN registrations :
       registrations[i].caller = registrations[j].caller => i = j

RequestAwaited(job) ==
  /\ job.caller # None => Step(job.caller) = "wait" /\ call[job.caller].row_id # 0
  /\ lock[job.row_id] # None /\ object[job.transaction_id] # None
  /\ job.transaction_id \notin early => job.transaction_id \in returned

RequestsAwaited ==
  /\ \A i \in DOMAIN requests : RequestAwaited(requests[i])
  /\ \A i, j \in DOMAIN requests :
       requests[i].caller = requests[j].caller /\ requests[i].caller # None => i = j

Registered ==
  /\ \A t \in TransactionId : object[t] # None => object[t].transaction_id \in {0, t}
  /\ \A t \in returned : Known(t)

OwnersOf(r) == IF lock[r] = None THEN <<>> ELSE lock[r].owners
RowsOf(t) == IF object[t] = None THEN <<>> ELSE object[t].locked_rows

\* OwnersHaveRows, where what is not in a table has neither owners nor rows.
Balanced ==
  \A t \in TransactionId, r \in RowId :
    LET owned == Cardinality(Times(OwnersOf(r), t))
        rows == Cardinality(Times(RowsOf(t), r))
    IN owned <= rows /\ (t \notin early => owned = rows)

UntrustedInv ==
  /\ UntrustedTypes /\ \A c \in Caller : CallKnows(c)
  /\ RegistrationsAwaited /\ RequestsAwaited /\ Registered /\ Balanced

\* What the transaction worker has admitted is the first job of its queue.
AdmittedFirst == admitted => registrations # <<>>

LEMMA TimesAppended ==
  ASSUME NEW S, NEW s \in Seq(S), NEW x \in S, NEW y
  PROVE  /\ Cardinality(Times(s, y)) \in Nat
         /\ Cardinality(Times(Append(s, x), y)) =
              IF x = y THEN Cardinality(Times(s, y)) + 1 ELSE Cardinality(Times(s, y))
<1> DEFINE last == Len(s) + 1
<1>1. Len(s) \in Nat /\ DOMAIN s = 1..Len(s)
  BY LenProperties
<1>2. Append(s, x) \in Seq(S) /\ Len(Append(s, x)) = last
  BY AppendProperties
<1>3. DOMAIN Append(s, x) = DOMAIN s \cup {last} /\ last \notin DOMAIN s
  BY <1>1, <1>2, LenProperties
<1>4. Append(s, x)[last] = x /\ \A i \in DOMAIN s : Append(s, x)[i] = s[i]
  BY <1>1, AppendProperties
<1>5. IsFiniteSet(Times(s, y))
  <2>1. IsFiniteSet(1..Len(s))
    BY <1>1, 1 \in Int, Len(s) \in Int, FS_Interval
  <2>2. Times(s, y) \in SUBSET (1..Len(s))
    BY <1>1 DEF Times
  <2> QED
    BY <2>1, <2>2, FS_Subset
<1>6. Cardinality(Times(s, y)) \in Nat
  BY <1>5, FS_CardinalityType
<1>7. last \notin Times(s, y)
  BY <1>3 DEF Times
<1> HIDE DEF last
<1>8. Times(Append(s, x), y) = IF x = y THEN Times(s, y) \cup {last} ELSE Times(s, y)
  BY <1>3, <1>4 DEF Times
<1> QED
  BY <1>5, <1>6, <1>7, <1>8, FS_AddElement

LEMMA InitUntrusted == UntrustedInit => UntrustedInv
<1> SUFFICES ASSUME UntrustedInit PROVE UntrustedInv
  OBVIOUS
<1>1. NoCall \in CallState /\ NoCall.step = "idle"
  BY DEF NoCall, CallState
<1>2. UntrustedTypes
  BY <1>1 DEF UntrustedInit, UntrustedTypes, newHashTable
<1>3. \A c \in Caller : CallKnows(c)
  BY <1>1 DEF UntrustedInit, CallKnows, Step
<1>4. RegistrationsAwaited /\ RequestsAwaited /\ Registered
  BY DEF UntrustedInit, RegistrationsAwaited, RequestsAwaited, Registered, newHashTable
<1>5. Balanced
  <2>1. \A t \in TransactionId, r \in RowId :
          Times(OwnersOf(r), t) = {} /\ Times(RowsOf(t), r) = {}
    BY DEF UntrustedInit, newHashTable, OwnersOf, RowsOf, Times
  <2> QED
    BY <2>1, FS_EmptySet DEF Balanced
<1> QED
  BY <1>2, <1>3, <1>4, <1>5 DEF UntrustedInv

CallSteps == {"idle", "register", "look", "send", "wait", "request", "done", "refused"}

LEMMA GoesMoves ==
  ASSUME call \in [Caller -> CallState], NEW c \in Caller, NEW step \in CallSteps, Goes(c, step)
  PROVE  /\ call' \in [Caller -> CallState]
         /\ call'[c].step = step
         /\ call'[c].transaction_id = call[c].transaction_id
         /\ call'[c].row_id = call[c].row_id
         /\ \A d \in Caller : d # c => call'[d] = call[d]
  BY DEF CallState, CallSteps, Goes

LEMMA IsBackMoves ==
  ASSUME call \in [Caller -> CallState], NEW c \in Caller, IsBack(c)
  PROVE  /\ call' \in [Caller -> CallState]
         /\ call'[c].step = "idle"
         /\ \A d \in Caller : d # c => call'[d] = call[d]
<1> DEFINE back == [NoCall EXCEPT !.made = call[c].made]
<1>1. back \in CallState /\ back.step = "idle"
  BY DEF NoCall, CallState
<1>2. call' = [call EXCEPT ![c] = back]
  BY DEF IsBack
<1> HIDE DEF back
<1> QED
  BY <1>1, <1>2

LEMMA BeginsMoves ==
  ASSUME call \in [Caller -> CallState], NEW c \in Caller, NEW step \in {"register", "request"},
         NEW t \in TransactionId, NEW r \in RowId \cup {0},
         NEW exclusive \in BOOLEAN, NEW wait \in BOOLEAN, Begins(c, step, t, r, exclusive, wait)
  PROVE  /\ call' \in [Caller -> CallState]
         /\ call[c].step = "idle" /\ call'[c].step = step
         /\ call'[c].transaction_id = t /\ call'[c].row_id = r
         /\ \A d \in Caller : d # c => call'[d] = call[d]
<1> DEFINE state == [step |-> step, transaction_id |-> t, row_id |-> r, exclusive |-> exclusive,
                     wait |-> wait, made |-> call[c].made + 1]
<1>1. call[c].made + 1 \in Nat
  BY DEF CallState
<1>2. /\ state \in CallState /\ state.step = step /\ state.transaction_id = t
      /\ state.row_id = r
  BY <1>1 DEF CallState
<1>3. call' = [call EXCEPT ![c] = state] /\ call[c].step = "idle"
  BY DEF Begins, Step
<1> HIDE DEF state
<1> QED
  BY <1>2, <1>3

\* The first job of a queue and those behind it.
LEMMA FirstJob ==
  ASSUME NEW S, NEW s \in Seq(S), s # <<>>
  PROVE  /\ 1 \in DOMAIN s /\ Head(s) = s[1] /\ s[1] \in S
         /\ Tail(s) \in Seq(S)
         /\ \A i \in DOMAIN Tail(s) :
              i \in Int /\ i # 0 /\ i + 1 \in DOMAIN s /\ Tail(s)[i] = s[i + 1]
<1>1. Len(s) \in Nat \ {0} /\ DOMAIN s = 1..Len(s)
  BY EmptySeq, LenProperties
<1>2. /\ Tail(s) \in Seq(S) /\ Len(Tail(s)) = Len(s) - 1
      /\ \A i \in 1..Len(Tail(s)) : Tail(s)[i] = s[i + 1]
  BY HeadTailProperties
<1>3. DOMAIN Tail(s) = 1..(Len(s) - 1)
  BY <1>2, LenProperties
<1> QED
  BY <1>1, <1>2, <1>3, ElementOfSeq

LEMMA LastJob ==
  ASSUME NEW S, NEW s \in Seq(S), NEW x \in S
  PROVE  /\ Append(s, x) \in Seq(S)
         /\ \A i \in DOMAIN s : Append(s, x)[i] = s[i]
         /\ \A i \in DOMAIN Append(s, x) :
              \/ i \in DOMAIN s
              \/ i = Len(s) + 1 /\ Append(s, x)[i] = x
<1>1. Len(s) \in Nat /\ DOMAIN s = 1..Len(s)
  BY LenProperties
<1>2. Append(s, x) \in Seq(S) /\ Len(Append(s, x)) = Len(s) + 1
  BY AppendProperties
<1>3. DOMAIN Append(s, x) = 1..(Len(s) + 1)
  BY <1>2, LenProperties
<1> QED
  BY <1>1, <1>2, <1>3, AppendProperties

\* The table of the transactions after a registration has been served: refused,
\* or the object has its identifier.
LEMMA ServeRegistrationMoves ==
  ASSUME UntrustedInv, AdmittedFirst, RefuseRegistration \/ FillIn
  PROVE  LET job == registrations[1]
             t == job.transaction_id
         IN /\ registrations # <<>> /\ 1 \in DOMAIN registrations /\ job \in Registration
            /\ call[job.caller].transaction_id = t
            /\ \E step \in {"done", "refused"} :
                 /\ Goes(job.caller, step)
                 /\ step = "done" => object'[t].transaction_id # 0
            /\ registrations' = Tail(registrations)
            /\ UNCHANGED <<lock, requests, history>>
            /\ object' \in [TransactionId -> ObjectState \cup {None}]
            /\ \A u \in TransactionId : u # t => object'[u] = object[u]
            /\ object[t] # None /\ object'[t] # None
            /\ object'[t].transaction_id \in {object[t].transaction_id, t}
            /\ object'[t].locked_rows = object[t].locked_rows
<1> USE DEF UntrustedInv
<1> DEFINE job == registrations[1]
           t == job.transaction_id
<1>1. /\ registrations # <<>> /\ 1 \in DOMAIN registrations
      /\ Head(registrations) = job /\ job \in Registration
  <2>1. registrations # <<>>
    BY DEF RefuseRegistration, FillIn, AdmittedFirst
  <2> QED
    BY <2>1, FirstJob DEF UntrustedTypes
<1>2. t \in TransactionId /\ t \in Nat \ {0}
  BY <1>1, IdAssumption DEF Registration
<1>3. object[t] # None /\ object[t] \in ObjectState /\ call[job.caller].transaction_id = t
  BY <1>1, <1>2 DEF RegistrationsAwaited, RegistrationAwaited, UntrustedTypes
<1>4. registrations' = Tail(registrations) /\ UNCHANGED <<lock, requests, history>>
  BY DEF RefuseRegistration, FillIn
<1>5. CASE RefuseRegistration
  <2>1. object' = object /\ Goes(job.caller, "refused")
    BY <1>1, <1>5 DEF RefuseRegistration
  <2> QED
    BY <1>1, <1>3, <1>4, <2>1 DEF UntrustedTypes
<1>6. CASE FillIn
  <2> DEFINE state == [object[t] EXCEPT !.transaction_id = t]
  <2>1. /\ state \in ObjectState /\ state.transaction_id = t
        /\ state.locked_rows = object[t].locked_rows
    <3> HIDE DEF t
    <3> QED
      BY <1>2, <1>3 DEF ObjectState
  <2>2. object' = [object EXCEPT ![t] = state] /\ Goes(job.caller, "done")
    BY <1>1, <1>6 DEF FillIn, Identified
  <2>3. None \notin ObjectState
    <3>1. ObjectState = [transaction_id : Nat, locked_rows : Seq(RowId)]
      BY DEF ObjectState
    <3> QED
      BY <3>1, NoneAssumption
  <2> HIDE DEF state, t
  <2>4. /\ object'[t] = state /\ object' \in [TransactionId -> ObjectState \cup {None}]
        /\ \A u \in TransactionId : u # t => object'[u] = object[u]
    BY <1>2, <2>1, <2>2 DEF UntrustedTypes
  <2> QED
    BY <1>1, <1>2, <1>3, <1>4, <2>1, <2>2, <2>3, <2>4 DEF t
<1> QED
  BY <1>5, <1>6

\* A transaction object with one more row.
LEMMA RowAdded ==
  ASSUME NEW o \in ObjectState, NEW r \in RowId
  PROVE  /\ WithRow(o, r) \in ObjectState
         /\ WithRow(o, r).locked_rows = Append(o.locked_rows, r)
         /\ WithRow(o, r).transaction_id = o.transaction_id
<1> DEFINE rows == Append(o.locked_rows, r)
<1>1. o.locked_rows \in Seq(RowId)
  BY DEF ObjectState
<1>2. rows \in Seq(RowId)
  BY <1>1, AppendProperties
<1>3. WithRow(o, r) = [o EXCEPT !.locked_rows = rows]
  BY DEF WithRow
<1> HIDE DEF rows
<1>4. /\ WithRow(o, r) \in ObjectState /\ WithRow(o, r).locked_rows = rows
      /\ WithRow(o, r).transaction_id = o.transaction_id
  BY <1>2, <1>3 DEF ObjectState
<1> QED
  BY <1>4 DEF rows

\* The tables after a lock has been served: nothing changes, or the row gets an
\* owner and the transaction a row.
LEMMA ServeLockMoves ==
  ASSUME UntrustedInv, ServeLock
  PROVE  LET job == requests[1]
             t == job.transaction_id
             r == job.row_id
         IN /\ requests # <<>> /\ 1 \in DOMAIN requests /\ job \in Request
            /\ Answer(job.caller) /\ requests' = Tail(requests)
            /\ UNCHANGED <<enclave, registrations, history>>
            /\ object[t] # None /\ lock[r] # None
            /\ object' \in [TransactionId -> ObjectState \cup {None}]
            /\ lock' \in [RowId -> LockState \cup {None}]
            /\ \A u \in TransactionId : u # t => object'[u] = object[u]
            /\ \A s \in RowId : s # r => lock'[s] = lock[s]
            /\ object'[t] # None /\ lock'[r] # None
            /\ object'[t].transaction_id = object[t].transaction_id
            /\ \/ object' = object /\ lock' = lock
               \/ /\ object'[t].locked_rows = Append(object[t].locked_rows, r)
                  /\ lock'[r].owners = Append(lock[r].owners, object[t].transaction_id)
<1> USE DEF UntrustedInv
<1> DEFINE job == requests[1]
           t == job.transaction_id
           r == job.row_id
<1>1. requests # <<>> /\ 1 \in DOMAIN requests /\ Head(requests) = job /\ job \in Request
  BY FirstJob DEF ServeLock, UntrustedTypes
<1>2. t \in TransactionId /\ r \in RowId /\ job.exclusive \in BOOLEAN
  BY <1>1 DEF Request
<1>3. /\ object[t] # None /\ object[t] \in ObjectState
      /\ lock[r] # None /\ lock[r] \in LockState
  BY <1>1, <1>2 DEF RequestsAwaited, RequestAwaited, UntrustedTypes
<1>4. /\ acquire_lock(t, r, job.exclusive) /\ Answer(job.caller) /\ requests' = Tail(requests)
      /\ UNCHANGED <<enclave, registrations, history>>
  BY <1>1 DEF ServeLock
<1>5. object[t].transaction_id \in Nat /\ object[t].locked_rows \in Seq(RowId)
      /\ lock[r].owners \in Seq(Nat) /\ lock[r].exclusive \in BOOLEAN
  BY <1>3 DEF ObjectState, LockState
<1>6. None \notin ObjectState /\ None \notin LockState
  <2>1. /\ ObjectState = [transaction_id : Nat, locked_rows : Seq(RowId)]
        /\ LockState = [exclusive : BOOLEAN, owners : Seq(Nat)]
    BY DEF ObjectState, LockState
  <2> QED
    BY <2>1, NoneAssumption
<1>7. CASE object' = object /\ lock' = lock
  BY <1>1, <1>3, <1>4, <1>7 DEF UntrustedTypes
<1>8. CASE ~(object' = object /\ lock' = lock)
  <2> DEFINE l == WithOwner(lock[r], object[t].transaction_id, job.exclusive)
             o == WithRow(object[t], r)
  <2>1. lock' = [lock EXCEPT ![r] = l] /\ object' = [object EXCEPT ![t] = o]
    BY <1>4, <1>8 DEF acquire_lock
  <2>2. /\ o \in ObjectState /\ o.locked_rows = Append(object[t].locked_rows, r)
        /\ o.transaction_id = object[t].transaction_id
    BY <1>2, <1>3, <1>5, RowAdded
  <2>3. /\ l \in LockState /\ l.owners = Append(lock[r].owners, object[t].transaction_id)
    BY <1>2, <1>5 DEF WithOwner, LockState
  <2> HIDE DEF l, o
  <2>4. /\ object'[t] = o /\ object' \in [TransactionId -> ObjectState \cup {None}]
        /\ \A u \in TransactionId : u # t => object'[u] = object[u]
    BY <1>2, <2>1, <2>2 DEF UntrustedTypes
  <2>5. /\ lock'[r] = l /\ lock' \in [RowId -> LockState \cup {None}]
        /\ \A s \in RowId : s # r => lock'[s] = lock[s]
    BY <1>2, <2>1, <2>3 DEF UntrustedTypes
  <2> QED
    BY <1>1, <1>3, <1>4, <1>6, <2>2, <2>3, <2>4, <2>5
<1> QED
  BY <1>7, <1>8

-----------------------------------------------------------------------------
(* What no step takes back.                                                *)

Grows ==
  /\ \A t \in TransactionId : object[t] # None => object'[t] # None
  /\ \A t \in TransactionId : Known(t) => Known(t)'
  /\ \A r \in RowId : lock[r] # None => lock'[r] # None
  /\ returned \subseteq returned'
  /\ early \subseteq early'

LEMMA OthersKnow ==
  ASSUME UntrustedInv, Grows, NEW c \in Caller \cup {None},
         \A d \in Caller : d # c => call'[d] = call[d]
  PROVE  /\ \A d \in Caller : d # c => CallKnows(d)'
         /\ \A job \in Registration :
              RegistrationAwaited(job) /\ job.caller # c => RegistrationAwaited(job)'
         /\ \A job \in Request :
              RequestAwaited(job) /\ (job.caller # c \/ c = None) => RequestAwaited(job)'
<1> USE DEF UntrustedInv, Grows, Step
<1>1. \A d \in Caller : d # c => CallKnows(d)'
  BY DEF CallKnows, UntrustedTypes, CallState
<1>2. ASSUME NEW job \in Registration, RegistrationAwaited(job), job.caller # c
      PROVE  RegistrationAwaited(job)'
  <2>1. job.caller \in Caller /\ job.transaction_id \in TransactionId
    BY DEF Registration
  <2> QED
    BY <1>2, <2>1 DEF RegistrationAwaited
<1>3. ASSUME NEW job \in Request, RequestAwaited(job), job.caller # c \/ c = None
      PROVE  RequestAwaited(job)'
  <2>1. /\ job.caller \in Caller \cup {None} /\ job.transaction_id \in TransactionId
        /\ job.row_id \in RowId
    BY DEF Request
  <2> QED
    BY <1>3, <2>1, NoneAssumption DEF RequestAwaited
<1> QED
  BY <1>1, <1>2, <1>3

\* A step of a thread that is not waiting leaves the jobs of the others alone.
LEMMA JobsStay ==
  ASSUME UntrustedInv, Grows, NEW c \in Caller, Step(c) # "wait",
         \A d \in Caller : d # c => call'[d] = call[d]
  PROVE  /\ \A job \in Registration :
              (\E i \in DOMAIN registrations : registrations[i] = job) =>
                RegistrationAwaited(job)' /\ job.caller # c
         /\ \A job \in Request :
              (\E i \in DOMAIN requests : requests[i] = job) =>
                RequestAwaited(job)' /\ job.caller # c
         /\ registrations' = registrations => RegistrationsAwaited'
         /\ requests' = requests => RequestsAwaited'
<1> USE DEF UntrustedInv
<1>1. \A job \in Registration :
        (\E i \in DOMAIN registrations : registrations[i] = job) =>
          RegistrationAwaited(job)' /\ job.caller # c
  BY OthersKnow DEF RegistrationsAwaited, RegistrationAwaited
<1>2. \A job \in Request :
        (\E i \in DOMAIN requests : requests[i] = job) =>
          RequestAwaited(job)' /\ job.caller # c
  BY OthersKnow, NoneAssumption DEF RequestsAwaited, RequestAwaited
<1>3. ASSUME registrations' = registrations PROVE RegistrationsAwaited'
  <2>1. \A i \in DOMAIN registrations : registrations[i] \in Registration
    BY ElementOfSeq, LenProperties DEF UntrustedTypes
  <2>2. ASSUME NEW i \in DOMAIN registrations' PROVE RegistrationAwaited(registrations[i])'
    <3> DEFINE job == registrations[i]
    <3>1. job \in Registration /\ job' = job
      BY <1>3, <2>1
    <3>2. PICK same \in Registration : same = job
      BY <3>1
    <3>3. RegistrationAwaited(same)'
      BY <1>1, <1>3, <3>2
    <3> QED
      BY <3>1, <3>2, <3>3 DEF RegistrationAwaited
  <2> QED
    BY <1>3, <2>2 DEF RegistrationsAwaited
<1>4. ASSUME requests' = requests PROVE RequestsAwaited'
  <2>1. \A i \in DOMAIN requests : requests[i] \in Request
    BY ElementOfSeq, LenProperties DEF UntrustedTypes
  <2>2. ASSUME NEW i \in DOMAIN requests' PROVE RequestAwaited(requests[i])'
    <3> DEFINE job == requests[i]
    <3>1. job \in Request /\ job' = job
      BY <1>4, <2>1
    <3>2. PICK same \in Request : same = job
      BY <3>1
    <3>3. RequestAwaited(same)'
      BY <1>2, <1>4, <3>2
    <3> QED
      BY <3>1, <3>2, <3>3 DEF RequestAwaited
  <2> QED
    BY <1>4, <2>2 DEF RequestsAwaited
<1> QED
  BY <1>1, <1>2, <1>3, <1>4

\* A step of a thread that sends nothing and gives no row an owner.
LEMMA CallerMoves ==
  ASSUME UntrustedInv, Grows, NEW c \in Caller, Step(c) # "wait",
         \A d \in Caller : d # c => call'[d] = call[d],
         UntrustedTypes', CallKnows(c)', Registered',
         \A t \in TransactionId : RowsOf(t)' = RowsOf(t),
         \A r \in RowId : OwnersOf(r)' = OwnersOf(r),
         registrations' = registrations, requests' = requests
  PROVE  UntrustedInv'
<1>1. \A d \in Caller : CallKnows(d)'
  BY OthersKnow
<1>2. RegistrationsAwaited' /\ RequestsAwaited'
  BY JobsStay
<1>3. Balanced'
  BY DEF UntrustedInv, Balanced, Grows
<1> QED
  BY <1>1, <1>2, <1>3 DEF UntrustedInv

\* A step of a thread that changes neither of the tables.
LEMMA OnlyCallMoves ==
  ASSUME UntrustedInv, NEW c \in Caller, Step(c) # "wait",
         call' \in [Caller -> CallState], \A d \in Caller : d # c => call'[d] = call[d],
         CallKnows(c)', UNCHANGED <<object, lock, queues, returned>>, early \subseteq early'
  PROVE  UntrustedInv'
<1>1. Grows
  BY DEF Grows, Known, get
<1>2. UntrustedTypes' /\ Registered'
  BY DEF UntrustedInv, UntrustedTypes, Registered, queues, Known, get
<1>3. /\ \A t \in TransactionId : RowsOf(t)' = RowsOf(t)
      /\ \A r \in RowId : OwnersOf(r)' = OwnersOf(r)
  BY DEF RowsOf, OwnersOf
<1> QED
  BY <1>1, <1>2, <1>3, CallerMoves DEF queues

LEMMA CallRegisterStep ==
  ASSUME UntrustedInv, NEW c \in Caller, NEW t \in TransactionId, CallRegister(c, t)
  PROVE  UntrustedInv'
<1>1. Begins(c, "register", t, 0, FALSE, TRUE)
      /\ UNCHANGED <<object, lock, queues, returned, early>>
  BY DEF CallRegister
<1>2. /\ call' \in [Caller -> CallState]
      /\ call[c].step = "idle" /\ call'[c].step = "register"
      /\ call'[c].transaction_id = t /\ call'[c].row_id = 0
      /\ \A d \in Caller : d # c => call'[d] = call[d]
  BY <1>1, BeginsMoves DEF UntrustedInv, UntrustedTypes
<1>3. CallKnows(c)'
  BY <1>2 DEF CallKnows, Step
<1> QED
  BY <1>1, <1>2, <1>3, OnlyCallMoves DEF Step

LEMMA LockMutexStep ==
  ASSUME UntrustedInv, NEW c \in Caller, LockMutex(c)
  PROVE  UntrustedInv'
<1>1. /\ call[c].step = "register" /\ Goes(c, "look")
      /\ UNCHANGED <<object, lock, queues, returned, early>>
  BY DEF LockMutex, Step, history
<1>2. /\ call' \in [Caller -> CallState]
      /\ call'[c].step = "look"
      /\ call'[c].transaction_id = call[c].transaction_id
      /\ call'[c].row_id = call[c].row_id
      /\ \A d \in Caller : d # c => call'[d] = call[d]
  BY <1>1, GoesMoves DEF UntrustedInv, UntrustedTypes, CallSteps
<1>3. CallKnows(c)'
  BY <1>1, <1>2 DEF UntrustedInv, CallKnows, Step
<1> QED
  BY <1>1, <1>2, <1>3, OnlyCallMoves DEF Step

LEMMA IsBackStep ==
  ASSUME UntrustedInv, NEW c \in Caller, Step(c) # "wait", IsBack(c),
         UNCHANGED <<object, lock, queues, returned>>, early \subseteq early'
  PROVE  UntrustedInv'
<1>1. /\ call' \in [Caller -> CallState] /\ call'[c].step = "idle"
      /\ \A d \in Caller : d # c => call'[d] = call[d]
  BY IsBackMoves DEF UntrustedInv, UntrustedTypes
<1>2. CallKnows(c)'
  BY <1>1 DEF CallKnows, Step
<1> QED
  BY <1>1, <1>2, OnlyCallMoves

LEMMA GetAnswerStep ==
  ASSUME UntrustedInv, NEW c \in Caller, GetAnswer(c)
  PROVE  UntrustedInv'
<1> USE DEF UntrustedInv
<1> DEFINE t == call[c].transaction_id
<1>1. /\ call[c].step \in {"done", "refused"} /\ IsBack(c)
      /\ UNCHANGED <<object, lock, queues, early>>
      /\ returned' = IF call[c].step = "done" /\ call[c].row_id = 0
                     THEN returned \cup {t} ELSE returned
  BY DEF GetAnswer, Step
<1>2. /\ call' \in [Caller -> CallState] /\ call'[c].step = "idle"
      /\ \A d \in Caller : d # c => call'[d] = call[d]
  BY <1>1, IsBackMoves DEF UntrustedTypes
<1>3. t \in TransactionId /\ (call[c].step = "done" /\ call[c].row_id = 0 => Known(t))
  BY <1>1 DEF CallKnows, Step
<1>4. Grows
  BY <1>1 DEF Grows, Known, get
<1>5. UntrustedTypes'
  BY <1>1, <1>2, <1>3 DEF UntrustedTypes, queues
<1>6. Registered'
  BY <1>1, <1>3 DEF Registered, Known, get
<1>7. CallKnows(c)'
  BY <1>2 DEF CallKnows, Step
<1>8. /\ \A u \in TransactionId : RowsOf(u)' = RowsOf(u)
      /\ \A r \in RowId : OwnersOf(r)' = OwnersOf(r)
  BY <1>1 DEF RowsOf, OwnersOf
<1> QED
  BY <1>1, <1>2, <1>4, <1>5, <1>6, <1>7, <1>8, CallerMoves DEF Step, queues

LEMMA NoneIsNoRecord == None \notin ObjectState /\ None \notin LockState
<1>1. /\ ObjectState = [transaction_id : Nat, locked_rows : Seq(RowId)]
      /\ LockState = [exclusive : BOOLEAN, owners : Seq(Nat)]
  BY DEF ObjectState, LockState
<1> QED
  BY <1>1, NoneAssumption

LEMMA CreateObjectStep ==
  ASSUME UntrustedInv, NEW c \in Caller, CreateObject(c)
  PROVE  UntrustedInv'
<1> USE DEF UntrustedInv
<1> DEFINE t == call[c].transaction_id
<1>1. /\ call[c].step = "look" /\ ~Known(t) /\ Goes(c, "send")
      /\ object' = set(object, t, newObject) /\ UNCHANGED <<lock, queues, history>>
  BY DEF CreateObject, Step
<1>2. /\ call' \in [Caller -> CallState]
      /\ call'[c].step = "send" /\ call'[c].transaction_id = t /\ call'[c].row_id = call[c].row_id
      /\ \A d \in Caller : d # c => call'[d] = call[d]
  BY <1>1, GoesMoves DEF UntrustedTypes, CallSteps
<1>3. t \in TransactionId /\ call[c].row_id = 0
  BY <1>1 DEF CallKnows, Step
<1>4. /\ newObject \in ObjectState /\ newObject # None
      /\ newObject.transaction_id = 0 /\ newObject.locked_rows = <<>>
  <2>1. newObject \in ObjectState
    BY EmptySeq DEF newObject, ObjectState
  <2>2. newObject.transaction_id = 0 /\ newObject.locked_rows = <<>>
    BY DEF newObject
  <2> QED
    BY <2>1, <2>2, NoneIsNoRecord
<1>5. /\ object' \in [TransactionId -> ObjectState \cup {None}]
      /\ \A u \in TransactionId : u # t => object'[u] = object[u]
      /\ object'[t] = IF object[t] = None THEN newObject ELSE object[t]
  BY <1>1, <1>3, <1>4 DEF UntrustedTypes, set
<1>6. Grows
  BY <1>1, <1>4, <1>5 DEF Grows, Known, get, history
<1>7. UntrustedTypes'
  BY <1>1, <1>2, <1>5 DEF UntrustedTypes, queues, history
<1>8. Registered'
  BY <1>1, <1>4, <1>5, <1>6 DEF Registered, Grows, UntrustedTypes, history
<1>9. CallKnows(c)'
  BY <1>2, <1>3, <1>4, <1>5 DEF CallKnows, Step
<1>10. /\ \A u \in TransactionId : RowsOf(u)' = RowsOf(u)
       /\ \A r \in RowId : OwnersOf(r)' = OwnersOf(r)
  BY <1>1, <1>4, <1>5 DEF RowsOf, OwnersOf
<1> QED
  BY <1>1, <1>2, <1>6, <1>7, <1>8, <1>9, <1>10, CallerMoves DEF Step, queues

LEMMA CallLockStep ==
  ASSUME UntrustedInv, NEW c \in Caller, NEW t \in TransactionId, NEW r \in RowId,
         NEW exclusive \in BOOLEAN, NEW wait \in BOOLEAN, CallLock(c, t, r, exclusive, wait)
  PROVE  UntrustedInv'
<1> USE DEF UntrustedInv
<1>1. /\ Begins(c, "request", t, r, exclusive, wait) /\ UNCHANGED <<object, queues, history>>
      /\ lock' = IF contains(lock, r) THEN lock ELSE set(lock, r, emptyLock)
  BY DEF CallLock
<1>2. /\ call' \in [Caller -> CallState]
      /\ call[c].step = "idle" /\ call'[c].step = "request"
      /\ call'[c].transaction_id = t /\ call'[c].row_id = r
      /\ \A d \in Caller : d # c => call'[d] = call[d]
  BY <1>1, BeginsMoves DEF UntrustedTypes
<1>3. emptyLock \in LockState /\ emptyLock # None /\ emptyLock.owners = <<>>
  <2>1. emptyLock \in LockState
    BY EmptySeq DEF emptyLock, LockState
  <2>2. emptyLock.owners = <<>>
    BY DEF emptyLock
  <2> QED
    BY <2>1, <2>2, NoneIsNoRecord
<1>4. /\ lock' \in [RowId -> LockState \cup {None}]
      /\ \A s \in RowId : s # r => lock'[s] = lock[s]
      /\ lock'[r] = IF lock[r] = None THEN emptyLock ELSE lock[r]
  BY <1>1, <1>3 DEF UntrustedTypes, set, contains
<1>5. Grows
  BY <1>1, <1>3, <1>4 DEF Grows, Known, get, history
<1>6. UntrustedTypes'
  BY <1>1, <1>2, <1>4 DEF UntrustedTypes, queues, history
<1>7. Registered'
  BY <1>1 DEF Registered, Known, get, history
<1>8. CallKnows(c)'
  BY <1>2, <1>3, <1>4, IdAssumption DEF CallKnows, Step
<1>9. /\ \A u \in TransactionId : RowsOf(u)' = RowsOf(u)
      /\ \A s \in RowId : OwnersOf(s)' = OwnersOf(s)
  BY <1>1, <1>3, <1>4 DEF RowsOf, OwnersOf
<1> QED
  BY <1>1, <1>2, <1>5, <1>6, <1>7, <1>8, <1>9, CallerMoves DEF Step, queues

LEMMA SendRegistrationStep ==
  ASSUME UntrustedInv, NEW c \in Caller, SendRegistration(c)
  PROVE  UntrustedInv'
<1> USE DEF UntrustedInv
<1> DEFINE t == call[c].transaction_id
<1>1. call[c].step = "send" /\ t \in TransactionId
  BY DEF SendRegistration, CallKnows, Step
<1>2. PICK sent \in Registration :
        sent = [transaction_id |-> t, caller |-> c] /\ sent.caller = c /\ sent.transaction_id = t
  <2> DEFINE job == [transaction_id |-> t, caller |-> c]
  <2>1. job \in Registration /\ job.caller = c /\ job.transaction_id = t
    BY <1>1 DEF Registration
  <2> QED
    BY <2>1
<1>3. /\ call[c].step = "send" /\ registrations' = Append(registrations, sent)
      /\ Goes(c, "wait") /\ UNCHANGED <<object, lock, requests, returned, early>>
  BY <1>2 DEF SendRegistration, Step, history
<1>4. /\ call' \in [Caller -> CallState]
      /\ call'[c].step = "wait" /\ call'[c].transaction_id = t /\ call'[c].row_id = call[c].row_id
      /\ \A d \in Caller : d # c => call'[d] = call[d]
  BY <1>3, GoesMoves DEF UntrustedTypes, CallSteps
<1>5. t \in TransactionId /\ call[c].row_id = 0 /\ object[t] # None
  BY <1>3 DEF CallKnows, Step
<1>6. Grows
  BY <1>3 DEF Grows, Known, get
<1>7. RegistrationAwaited(sent)'
  BY <1>2, <1>3, <1>4, <1>5 DEF RegistrationAwaited, Step
<1>8. /\ registrations' \in Seq(Registration)
      /\ \A i \in DOMAIN registrations : registrations'[i] = registrations[i]
      /\ \A i \in DOMAIN registrations' :
           \/ i \in DOMAIN registrations
           \/ i = Len(registrations) + 1 /\ registrations'[i] = sent
  BY <1>2, <1>3, LastJob DEF UntrustedTypes
<1>9. \A job \in Registration :
        (\E i \in DOMAIN registrations : registrations[i] = job) =>
          RegistrationAwaited(job)' /\ job.caller # c
  BY <1>3, <1>4, <1>6, JobsStay DEF Step
<1>10. \A i \in DOMAIN registrations : registrations[i] \in Registration
  BY ElementOfSeq, LenProperties DEF UntrustedTypes
<1>11. RegistrationsAwaited'
  <2>1. ASSUME NEW i \in DOMAIN registrations' PROVE RegistrationAwaited(registrations[i])'
    <3>1. PICK job \in Registration : job = registrations'[i] /\ RegistrationAwaited(job)'
      BY <1>7, <1>8, <1>9, <1>10
    <3> QED
      BY <3>1 DEF RegistrationAwaited
  <2>2. ASSUME NEW i \in DOMAIN registrations', NEW j \in DOMAIN registrations',
               registrations'[i].caller = registrations'[j].caller
        PROVE  i = j
    BY <1>2, <1>8, <1>9, <1>10, <2>2 DEF RegistrationsAwaited
  <2> QED
    BY <2>1, <2>2 DEF RegistrationsAwaited
<1>12. RequestsAwaited' /\ \A d \in Caller : d # c => CallKnows(d)'
  BY <1>3, <1>4, <1>6, JobsStay, OthersKnow DEF Step
<1>13. CallKnows(c)'
  BY <1>4, <1>5 DEF CallKnows, Step
<1>14. UntrustedTypes'
  BY <1>3, <1>4, <1>8 DEF UntrustedTypes
<1>15. Registered' /\ Balanced'
  BY <1>3 DEF Registered, Balanced, Known, get, RowsOf, OwnersOf
<1> QED
  BY <1>11, <1>12, <1>13, <1>14, <1>15

LEMMA SendRequestStep ==
  ASSUME UntrustedInv, NEW c \in Caller, SendRequest(c)
  PROVE  UntrustedInv'
<1> USE DEF UntrustedInv
<1> DEFINE t == call[c].transaction_id
           r == call[c].row_id
<1>1. /\ call[c].step = "request" /\ t \in TransactionId /\ r \in RowId /\ r # 0
      /\ lock[r] # None /\ call[c] \in CallState
  BY IdAssumption DEF SendRequest, CallKnows, Step, UntrustedTypes
<1>2. /\ early \subseteq early'
      /\ UNCHANGED <<object, lock, registrations, returned>>
  BY DEF SendRequest
<1>3. Grows
  BY <1>2 DEF Grows, Known, get
<1>4. CASE ~contains(object, t)
  <2>1. IsBack(c) /\ requests' = requests
    BY <1>4 DEF SendRequest
  <2> QED
    BY <1>1, <1>2, <2>1, IsBackStep DEF Step, queues
<1>5. CASE contains(object, t)
  <2>1. PICK sent \in Request :
          /\ requests' = Append(requests, sent)
          /\ sent.transaction_id = t /\ sent.row_id = r
          /\ sent.caller = IF call[c].wait THEN c ELSE None
    <3> DEFINE caller == IF call[c].wait THEN c ELSE None
               job == [transaction_id |-> t, row_id |-> r, exclusive |-> call[c].exclusive,
                       caller |-> caller]
    <3>1. requests' = Append(requests, job)
      BY <1>5 DEF SendRequest
    <3>2. caller \in Caller \cup {None} /\ call[c].exclusive \in BOOLEAN
      BY <1>1 DEF CallState
    <3> HIDE DEF caller
    <3>3. /\ job \in Request /\ job.transaction_id = t /\ job.row_id = r
          /\ job.caller = caller
      BY <1>1, <3>2 DEF Request
    <3> QED
      BY <3>1, <3>3 DEF caller
  <2>2. /\ call' \in [Caller -> CallState]
        /\ \A d \in Caller : d # c => call'[d] = call[d]
        /\ sent.caller \in {c, None}
        /\ sent.caller # None => call'[c].step = "wait"
        /\ \/ call'[c].step = "idle"
           \/ /\ call'[c].step = "wait"
              /\ call'[c].transaction_id = t /\ call'[c].row_id = r
    <3>1. CASE call[c].wait
      <4>1. Goes(c, "wait")
        BY <1>5, <3>1 DEF SendRequest
      <4> QED
        BY <2>1, <3>1, <4>1, GoesMoves DEF UntrustedTypes, CallSteps
    <3>2. CASE ~call[c].wait
      <4>1. IsBack(c)
        BY <1>5, <3>2 DEF SendRequest
      <4> QED
        BY <2>1, <3>2, <4>1, IsBackMoves DEF UntrustedTypes
    <3> QED
      BY <3>1, <3>2
  <2>3. RequestAwaited(sent)'
    <3>1. object[t] # None
      BY <1>5 DEF contains
    <3>2. sent.caller # None => Step(sent.caller)' = "wait" /\ call'[sent.caller].row_id # 0
      BY <1>1, <2>2 DEF Step
    <3>3. t \notin early' => t \in returned'
      BY <1>2, <1>5 DEF SendRequest
    <3> QED
      BY <1>1, <1>2, <2>1, <3>1, <3>2, <3>3 DEF RequestAwaited
  <2>4. /\ requests' \in Seq(Request)
        /\ \A i \in DOMAIN requests : requests'[i] = requests[i]
        /\ \A i \in DOMAIN requests' :
             \/ i \in DOMAIN requests
             \/ i = Len(requests) + 1 /\ requests'[i] = sent
    BY <2>1, LastJob DEF UntrustedTypes
  <2>5. \A job \in Request :
          (\E i \in DOMAIN requests : requests[i] = job) =>
            RequestAwaited(job)' /\ job.caller # c
    BY <1>1, <1>3, <2>2, JobsStay DEF Step
  <2>6. \A i \in DOMAIN requests : requests[i] \in Request
    BY ElementOfSeq, LenProperties DEF UntrustedTypes
  <2>7. RequestsAwaited'
    <3>1. ASSUME NEW i \in DOMAIN requests' PROVE RequestAwaited(requests[i])'
      <4>1. PICK job \in Request : job = requests'[i] /\ RequestAwaited(job)'
        BY <2>3, <2>4, <2>5, <2>6
      <4> QED
        BY <4>1 DEF RequestAwaited
    <3>2. ASSUME NEW i \in DOMAIN requests', NEW j \in DOMAIN requests',
                 requests'[i].caller = requests'[j].caller, requests'[i].caller # None
          PROVE  i = j
      BY <2>2, <2>4, <2>5, <2>6, <3>2 DEF RequestsAwaited
    <3> QED
      BY <3>1, <3>2 DEF RequestsAwaited
  <2>8. RegistrationsAwaited' /\ \A d \in Caller : d # c => CallKnows(d)'
    BY <1>1, <1>2, <1>3, <2>2, JobsStay, OthersKnow DEF Step
  <2>9. CallKnows(c)'
    BY <1>1, <2>2 DEF CallKnows, Step
  <2>10. UntrustedTypes'
    BY <1>2, <2>2, <2>4 DEF UntrustedTypes
  <2>11. Registered' /\ Balanced'
    BY <1>2 DEF Registered, Balanced, Known, get, RowsOf, OwnersOf
  <2> QED
    BY <2>7, <2>8, <2>9, <2>10, <2>11
<1> QED
  BY <1>4, <1>5

\* The jobs behind the first one, when its caller goes on.
LEMMA QueuesShrink ==
  ASSUME UntrustedInv, Grows, NEW c \in Caller \cup {None},
         \A d \in Caller : d # c => call'[d] = call[d]
  PROVE  /\ /\ registrations # <<>> /\ registrations' = Tail(registrations)
            /\ registrations[1].caller = c
            => RegistrationsAwaited'
         /\ /\ requests # <<>> /\ requests' = Tail(requests)
            /\ requests[1].caller = c
            => RequestsAwaited'
<1> USE DEF UntrustedInv
<1>1. ASSUME registrations # <<>>, registrations' = Tail(registrations),
             registrations[1].caller = c
      PROVE  RegistrationsAwaited'
  <2>1. /\ 1 \in DOMAIN registrations
        /\ \A i \in DOMAIN registrations' :
             /\ i \in Int /\ i # 0 /\ i + 1 \in DOMAIN registrations
             /\ registrations'[i] = registrations[i + 1]
    BY <1>1, FirstJob DEF UntrustedTypes
  <2>2. \A i \in DOMAIN registrations : registrations[i] \in Registration
    BY ElementOfSeq, LenProperties DEF UntrustedTypes
  <2>3. ASSUME NEW i \in DOMAIN registrations' PROVE RegistrationAwaited(registrations[i])'
    <3>1. i + 1 # 1
      BY <2>1
    <3>2. PICK job \in Registration : job = registrations'[i] /\ RegistrationAwaited(job)
                                      /\ job.caller # c
      BY <1>1, <2>1, <2>2, <3>1 DEF RegistrationsAwaited
    <3>3. RegistrationAwaited(job)'
      BY <3>2, OthersKnow
    <3> QED
      BY <3>2, <3>3 DEF RegistrationAwaited
  <2>4. ASSUME NEW i \in DOMAIN registrations', NEW j \in DOMAIN registrations',
               registrations'[i].caller = registrations'[j].caller
        PROVE  i = j
    <3>1. i + 1 = j + 1
      BY <2>1, <2>4 DEF RegistrationsAwaited
    <3> QED
      BY <2>1, <3>1
  <2> QED
    BY <2>3, <2>4 DEF RegistrationsAwaited
<1>2. ASSUME requests # <<>>, requests' = Tail(requests), requests[1].caller = c
      PROVE  RequestsAwaited'
  <2>1. /\ 1 \in DOMAIN requests
        /\ \A i \in DOMAIN requests' :
             /\ i \in Int /\ i # 0 /\ i + 1 \in DOMAIN requests
             /\ requests'[i] = requests[i + 1]
    BY <1>2, FirstJob DEF UntrustedTypes
  <2>2. \A i \in DOMAIN requests : requests[i] \in Request
    BY ElementOfSeq, LenProperties DEF UntrustedTypes
  <2>3. ASSUME NEW i \in DOMAIN requests' PROVE RequestAwaited(requests[i])'
    <3>1. i + 1 # 1
      BY <2>1
    <3>2. PICK job \in Request : job = requests'[i] /\ RequestAwaited(job)
                                 /\ (job.caller # c \/ c = None)
      BY <1>2, <2>1, <2>2, <3>1 DEF RequestsAwaited
    <3>3. RequestAwaited(job)'
      BY <3>2, OthersKnow
    <3> QED
      BY <3>2, <3>3 DEF RequestAwaited
  <2>4. ASSUME NEW i \in DOMAIN requests', NEW j \in DOMAIN requests',
               requests'[i].caller = requests'[j].caller, requests'[i].caller # None
        PROVE  i = j
    <3>1. i + 1 = j + 1
      BY <2>1, <2>4 DEF RequestsAwaited
    <3> QED
      BY <2>1, <3>1
  <2> QED
    BY <2>3, <2>4 DEF RequestsAwaited
<1> QED
  BY <1>1, <1>2

LEMMA ServeRegistrationStep ==
  ASSUME UntrustedInv, AdmittedFirst, RefuseRegistration \/ FillIn
  PROVE  UntrustedInv'
<1> USE DEF UntrustedInv
<1>1. PICK job \in Registration, step \in {"done", "refused"} :
        /\ job = registrations[1] /\ registrations # <<>> /\ 1 \in DOMAIN registrations
        /\ registrations' = Tail(registrations)
        /\ Goes(job.caller, step)
        /\ step = "done" => object'[job.transaction_id].transaction_id # 0
        /\ UNCHANGED <<lock, requests, history>>
        /\ object' \in [TransactionId -> ObjectState \cup {None}]
        /\ \A u \in TransactionId : u # job.transaction_id => object'[u] = object[u]
        /\ object[job.transaction_id] # None /\ object'[job.transaction_id] # None
        /\ object'[job.transaction_id].transaction_id
             \in {object[job.transaction_id].transaction_id, job.transaction_id}
        /\ object'[job.transaction_id].locked_rows = object[job.transaction_id].locked_rows
  BY ServeRegistrationMoves
<1>2. PICK c \in Caller, t \in TransactionId : c = job.caller /\ t = job.transaction_id
  BY DEF Registration
<1>3. call[c].step = "wait" /\ call[c].row_id = 0 /\ call[c].transaction_id = t
  BY <1>1, <1>2 DEF RegistrationsAwaited, RegistrationAwaited, Step
<1>4. /\ call' \in [Caller -> CallState]
      /\ call'[c].step = step /\ call'[c].transaction_id = t /\ call'[c].row_id = 0
      /\ \A d \in Caller : d # c => call'[d] = call[d]
  BY <1>1, <1>2, <1>3, GoesMoves DEF UntrustedTypes, CallSteps
<1>5. step = "done" \/ Known(t) => Known(t)'
  BY <1>1, <1>2, IdAssumption DEF Known, get, Registration
<1>6. Grows
  BY <1>1, <1>2, <1>5 DEF Grows, Known, get, history
<1>7. RegistrationsAwaited'
  BY <1>1, <1>2, <1>4, <1>6, QueuesShrink
<1>8. RequestsAwaited'
  <2>1. \A i \in DOMAIN requests : requests[i] \in Request /\ requests[i].caller # c
    BY <1>3, NoneAssumption, ElementOfSeq, LenProperties
    DEF UntrustedTypes, RequestsAwaited, RequestAwaited, Step
  <2>2. ASSUME NEW i \in DOMAIN requests' PROVE RequestAwaited(requests[i])'
    <3>1. PICK other \in Request :
            other = requests'[i] /\ RequestAwaited(other) /\ other.caller # c
      BY <1>1, <2>1 DEF RequestsAwaited
    <3>2. RequestAwaited(other)'
      BY <1>4, <1>6, <3>1, OthersKnow
    <3> QED
      BY <3>1, <3>2 DEF RequestAwaited
  <2> QED
    BY <1>1, <2>2 DEF RequestsAwaited
<1>9. \A d \in Caller : CallKnows(d)'
  <2>1. CallKnows(c)'
    BY <1>4, <1>5 DEF CallKnows, Step
  <2> QED
    BY <1>4, <1>6, <2>1, OthersKnow
<1>10. UntrustedTypes'
  BY <1>1, <1>4, FirstJob DEF UntrustedTypes, history
<1>11. Registered'
  <2>1. \A u \in TransactionId : object'[u] # None => object'[u].transaction_id \in {0, u}
    BY <1>1, <1>2 DEF Registered
  <2>2. \A u \in returned : u \in TransactionId /\ Known(u)
    BY DEF Registered, UntrustedTypes
  <2>3. \A u \in returned' : Known(u)'
    BY <1>1, <1>6, <2>2 DEF Grows, history
  <2> QED
    BY <2>1, <2>3 DEF Registered
<1>12. Balanced'
  <2>1. /\ \A u \in TransactionId : RowsOf(u)' = RowsOf(u)
        /\ \A r \in RowId : OwnersOf(r)' = OwnersOf(r)
    BY <1>1, <1>2 DEF RowsOf, OwnersOf
  <2> QED
    BY <1>1, <2>1 DEF Balanced, history
<1> QED
  BY <1>7, <1>8, <1>9, <1>10, <1>11, <1>12

LEMMA ServeLockStep ==
  ASSUME UntrustedInv, ServeLock
  PROVE  UntrustedInv'
<1> USE DEF UntrustedInv
<1>1. PICK job \in Request :
        /\ job = requests[1] /\ requests # <<>> /\ 1 \in DOMAIN requests
        /\ Answer(job.caller) /\ requests' = Tail(requests)
        /\ UNCHANGED <<enclave, registrations, history>>
        /\ object[job.transaction_id] # None /\ lock[job.row_id] # None
        /\ object' \in [TransactionId -> ObjectState \cup {None}]
        /\ lock' \in [RowId -> LockState \cup {None}]
        /\ \A u \in TransactionId : u # job.transaction_id => object'[u] = object[u]
        /\ \A s \in RowId : s # job.row_id => lock'[s] = lock[s]
        /\ object'[job.transaction_id] # None /\ lock'[job.row_id] # None
        /\ object'[job.transaction_id].transaction_id = object[job.transaction_id].transaction_id
        /\ \/ object' = object /\ lock' = lock
           \/ /\ object'[job.transaction_id].locked_rows =
                   Append(object[job.transaction_id].locked_rows, job.row_id)
              /\ lock'[job.row_id].owners =
                   Append(lock[job.row_id].owners, object[job.transaction_id].transaction_id)
  BY ServeLockMoves
<1>2. PICK c \in Caller \cup {None}, t \in TransactionId, r \in RowId :
        c = job.caller /\ t = job.transaction_id /\ r = job.row_id
  BY DEF Request
<1>3. RequestAwaited(job)
  BY <1>1 DEF RequestsAwaited
<1>4. c # None => c \in Caller /\ call[c].step = "wait" /\ call[c].row_id # 0
  BY <1>2, <1>3 DEF RequestAwaited, Step
<1>5. /\ call' \in [Caller -> CallState]
      /\ \A d \in Caller : d # c => call'[d] = call[d]
      /\ c # None => call'[c].step = "done" /\ call'[c].row_id = call[c].row_id
                     /\ call'[c].transaction_id = call[c].transaction_id
  <2>1. CASE c = None
    BY <1>1, <1>2, <2>1 DEF Answer, UntrustedTypes
  <2>2. CASE c # None
    BY <1>1, <1>2, <1>4, <2>2, GoesMoves DEF Answer, UntrustedTypes, CallSteps
  <2> QED
    BY <2>1, <2>2
<1>6. Grows
  BY <1>1, <1>2 DEF Grows, Known, get, history
<1>7. RequestsAwaited'
  BY <1>1, <1>2, <1>5, <1>6, QueuesShrink
<1>8. RegistrationsAwaited'
  <2>1. \A i \in DOMAIN registrations :
          /\ registrations[i] \in Registration /\ registrations[i].caller # c
          /\ RegistrationAwaited(registrations[i])
    <3>1. \A i \in DOMAIN registrations : registrations[i] \in Registration
      BY ElementOfSeq, LenProperties DEF UntrustedTypes
    <3> QED
      BY <1>4, <3>1, NoneAssumption
      DEF RegistrationsAwaited, RegistrationAwaited, Step, Registration
  <2>2. ASSUME NEW i \in DOMAIN registrations' PROVE RegistrationAwaited(registrations[i])'
    <3>1. PICK other \in Registration :
            other = registrations'[i] /\ RegistrationAwaited(other) /\ other.caller # c
      BY <1>1, <2>1
    <3>2. RegistrationAwaited(other)'
      BY <1>5, <1>6, <3>1, OthersKnow
    <3> QED
      BY <3>1, <3>2 DEF RegistrationAwaited
  <2> QED
    BY <1>1, <2>2 DEF RegistrationsAwaited
<1>9. \A d \in Caller : CallKnows(d)'
  <2>1. ASSUME c # None PROVE CallKnows(c)'
    BY <1>4, <1>5, <2>1 DEF CallKnows, Step
  <2>2. None \notin Caller
    BY NoneAssumption
  <2> QED
    BY <1>5, <1>6, <2>1, <2>2, OthersKnow
<1>10. UntrustedTypes'
  BY <1>1, <1>5, FirstJob DEF UntrustedTypes, history
<1>11. Registered'
  <2>1. \A u \in TransactionId : object'[u] # None => object'[u].transaction_id \in {0, u}
    BY <1>1, <1>2 DEF Registered
  <2>2. \A u \in returned : u \in TransactionId /\ Known(u)
    BY DEF Registered, UntrustedTypes
  <2>3. \A u \in returned' : Known(u)'
    BY <1>1, <1>6, <2>2 DEF Grows, history
  <2> QED
    BY <2>1, <2>3 DEF Registered
<1>12. Balanced'
  <2> DEFINE owned(u, s) == Cardinality(Times(OwnersOf(s), u))
             rows(u, s) == Cardinality(Times(RowsOf(u), s))
  <2> SUFFICES ASSUME NEW u \in TransactionId, NEW s \in RowId
               PROVE  owned(u, s)' <= rows(u, s)' /\ (u \notin early => owned(u, s)' = rows(u, s)')
    BY <1>1 DEF Balanced, history
  <2>1. owned(u, s) <= rows(u, s) /\ (u \notin early => owned(u, s) = rows(u, s))
    BY DEF Balanced
  <2>2. CASE object' = object /\ lock' = lock
    BY <2>1, <2>2 DEF OwnersOf, RowsOf, Times
  <2>3. CASE ~(object' = object /\ lock' = lock)
    <3> DEFINE o == object[t].transaction_id
    <3>1. o \in Nat /\ t # 0 /\ u # 0 /\ o \in {0, t} /\ (t \notin early => o = t)
      BY <1>1, <1>2, <1>3, IdAssumption DEF RequestAwaited, Registered, Known, get
    <3>2. /\ RowsOf(t)' = Append(RowsOf(t), r) /\ RowsOf(t) \in Seq(RowId)
          /\ u # t => RowsOf(u)' = RowsOf(u)
      BY <1>1, <1>2, <2>3 DEF RowsOf, UntrustedTypes, ObjectState
    <3>3. /\ OwnersOf(r)' = Append(OwnersOf(r), o) /\ OwnersOf(r) \in Seq(Nat)
          /\ s # r => OwnersOf(s)' = OwnersOf(s)
      BY <1>1, <1>2, <2>3 DEF OwnersOf, UntrustedTypes, LockState
    <3> HIDE DEF o
    <3>4. owned(u, s)' = IF s = r /\ u = o THEN owned(u, s) + 1 ELSE owned(u, s)
      <4>1. CASE s = r
        <5>1. PICK owners \in Seq(Nat) : owners = OwnersOf(r) /\ OwnersOf(r)' = Append(owners, o)
          BY <3>3
        <5>2. Cardinality(Times(Append(owners, o), u)) =
                IF o = u THEN Cardinality(Times(owners, u)) + 1 ELSE Cardinality(Times(owners, u))
          BY <3>1, TimesAppended
        <5>3. owned(u, s)' = Cardinality(Times(Append(owners, o), u))
          BY <4>1, <5>1 DEF Times
        <5> QED
          BY <4>1, <5>1, <5>2, <5>3
      <4>2. CASE s # r
        BY <3>3, <4>2 DEF Times
      <4> QED
        BY <4>1, <4>2
    <3>5. rows(u, s)' = IF s = r /\ u = t THEN rows(u, s) + 1 ELSE rows(u, s)
      <4>1. CASE u = t
        <5>1. PICK locked \in Seq(RowId) : locked = RowsOf(t) /\ RowsOf(t)' = Append(locked, r)
          BY <3>2
        <5>2. Cardinality(Times(Append(locked, r), s)) =
                IF r = s THEN Cardinality(Times(locked, s)) + 1 ELSE Cardinality(Times(locked, s))
          BY TimesAppended
        <5>3. rows(u, s)' = Cardinality(Times(Append(locked, r), s))
          BY <4>1, <5>1 DEF Times
        <5> QED
          BY <4>1, <5>1, <5>2, <5>3
      <4>2. CASE u # t
        BY <3>2, <4>2 DEF Times
      <4> QED
        BY <4>1, <4>2
    <3>6. owned(u, s) \in Nat /\ rows(u, s) \in Nat
      <4>1. OwnersOf(s) \in Seq(Nat) /\ RowsOf(u) \in Seq(RowId)
        BY EmptySeq DEF OwnersOf, RowsOf, UntrustedTypes, LockState, ObjectState
      <4> QED
        BY <4>1, TimesAppended, s \in RowId, 0 \in Nat
    <3>7. (u = o => u = t) /\ (u \notin early /\ u = t => o = t)
      BY <3>1
    <3> HIDE DEF owned, rows
    <3> QED
      BY <2>1, <3>4, <3>5, <3>6, <3>7
  <2> QED
    BY <2>2, <2>3
<1> QED
  BY <1>7, <1>8, <1>9, <1>10, <1>11, <1>12

LEMMA AdmittedStep ==
  ASSUME UntrustedInv, AdmittedFirst, [UntrustedNext]_untrustedVars
  PROVE  AdmittedFirst'
<1>1. CASE UNCHANGED <<enclave, registrations>>
  BY <1>1 DEF AdmittedFirst, enclave
<1>2. ASSUME NEW c \in Caller, SendRegistration(c) PROVE AdmittedFirst'
  <2> DEFINE job == [transaction_id |-> call[c].transaction_id, caller |-> c]
  <2>1. registrations' = Append(registrations, job)
    BY <1>2 DEF SendRegistration
  <2>2. Append(registrations, job) # <<>>
    BY AppendProperties DEF UntrustedInv, UntrustedTypes
  <2> QED
    BY <2>1, <2>2 DEF AdmittedFirst
<1>3. CASE RefuseRegistration \/ FillIn
  BY <1>3 DEF RefuseRegistration, FillIn, AdmittedFirst, enclave
<1>4. CASE Admit
  BY <1>4 DEF Admit, AdmittedFirst, queues
<1> QED
  BY <1>1, <1>2, <1>3, <1>4
  DEF UntrustedNext, CallerStep, RegistrationStep, ServeRegistration, ServeLock, Quiet,
      CallRegister, CallLock, LockMutex, RefuseAndKeepMutex, CreateObject, SendRequest, GetAnswer,
      untrustedVars, queues

LEMMA NothingMoves ==
  ASSUME UntrustedInv, UNCHANGED <<object, lock, queues, call, returned, early>>
  PROVE  UntrustedInv'
<1>1. /\ UntrustedTypes' /\ \A c \in Caller : CallKnows(c)'
      /\ RegistrationsAwaited' /\ RequestsAwaited' /\ Registered'
  BY DEF queues, UntrustedInv, UntrustedTypes, CallKnows, Step,
       RegistrationsAwaited, RegistrationAwaited, RequestsAwaited, RequestAwaited,
       Registered, Known, get
<1>2. /\ \A t \in TransactionId : RowsOf(t)' = RowsOf(t)
      /\ \A r \in RowId : OwnersOf(r)' = OwnersOf(r)
  BY DEF RowsOf, OwnersOf
<1>3. Balanced'
  BY <1>2 DEF UntrustedInv, Balanced, Times
<1> QED
  BY <1>1, <1>3 DEF UntrustedInv

LEMMA UntrustedStep ==
  UntrustedInv /\ AdmittedFirst /\ [UntrustedNext]_untrustedVars => UntrustedInv'
<1> SUFFICES ASSUME UntrustedInv, AdmittedFirst, [UntrustedNext]_untrustedVars
             PROVE  UntrustedInv'
  OBVIOUS
<1>1. ASSUME NEW c \in Caller, NEW t \in TransactionId, CallRegister(c, t) PROVE UntrustedInv'
  BY <1>1, CallRegisterStep
<1>2. ASSUME NEW c \in Caller, NEW t \in TransactionId, NEW r \in RowId,
             NEW exclusive \in BOOLEAN, NEW wait \in BOOLEAN, CallLock(c, t, r, exclusive, wait)
      PROVE  UntrustedInv'
  BY <1>2, CallLockStep
<1>3. ASSUME NEW c \in Caller, LockMutex(c) PROVE UntrustedInv'
  BY <1>3, LockMutexStep
<1>4. ASSUME NEW c \in Caller, RefuseAndKeepMutex(c) PROVE UntrustedInv'
  BY <1>4, IsBackStep DEF RefuseAndKeepMutex, history
<1>5. ASSUME NEW c \in Caller, CreateObject(c) PROVE UntrustedInv'
  BY <1>5, CreateObjectStep
<1>6. ASSUME NEW c \in Caller, SendRegistration(c) PROVE UntrustedInv'
  BY <1>6, SendRegistrationStep
<1>7. ASSUME NEW c \in Caller, SendRequest(c) PROVE UntrustedInv'
  BY <1>7, SendRequestStep
<1>8. ASSUME NEW c \in Caller, GetAnswer(c) PROVE UntrustedInv'
  BY <1>8, GetAnswerStep
<1>9. CASE RefuseRegistration \/ FillIn
  BY <1>9, ServeRegistrationStep
<1>10. CASE ServeLock
  BY <1>10, ServeLockStep
<1>11. CASE UNCHANGED untrustedVars
  BY <1>11, NothingMoves DEF untrustedVars, history
<1>12. CASE Quiet
  BY <1>11, <1>12 DEF Quiet
<1>13. CASE Admit
  BY <1>13, NothingMoves DEF Admit, history
<1> QED
  BY <1>1, <1>2, <1>3, <1>4, <1>5, <1>6, <1>7, <1>8, <1>9, <1>10, <1>11, <1>12, <1>13
  DEF UntrustedNext, CallerStep, RegistrationStep, ServeRegistration

\* A row has no more owners than rows say it has, and exactly these if the callers
\* of the transaction waited for its registration; the locks were added by callers,
\* the identifiers filled in by one worker and the owners by another.
THEOREM UntrustedOwnersHaveRows == UntrustedSpec => []OwnersHaveRows
<1>1. UntrustedInv => OwnersHaveRows
  BY DEF UntrustedInv, Balanced, OwnersHaveRows, OwnersOf, RowsOf
<1>2. UntrustedInit => AdmittedFirst
  BY DEF UntrustedInit, AdmittedFirst
<1>3. UntrustedInv /\ AdmittedFirst /\ [UntrustedNext]_untrustedVars => AdmittedFirst'
  BY AdmittedStep
<1> QED
  BY <1>1, <1>2, <1>3, InitUntrusted, UntrustedStep, PTL DEF UntrustedSpec
=============================================================================

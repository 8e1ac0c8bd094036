------------------------------ MODULE KeyedTable ------------------------------
(***************************************************************************)
(* What the callers of a hash table expect of it: each call takes effect   *)
(* at one moment, as on a function from keys to values.                    *)
(***************************************************************************)
CONSTANTS Thread, Key, Value, Null

VARIABLES content,   \* the value of each key, or Null
          call       \* of each thread: [step, op, key, value, result]

vars == <<content, call>>

NoCall == [step |-> "idle", op |-> "get", key |-> Null, value |-> Null, result |-> Null]

Init ==
  /\ content = [k \in Key |-> Null]
  /\ call = [th \in Thread |-> NoCall]

Begin(th, op, k, v) ==
  /\ call[th].step = "idle"
  /\ call' = [call EXCEPT ![th] =
       [step |-> "called", op |-> op, key |-> k, value |-> v, result |-> Null]]
  /\ UNCHANGED content

Answer(th, v) ==
  call' = [call EXCEPT ![th].step = "done", ![th].result = v]

Calling(th, op) == call[th].step = "called" /\ call[th].op = op

Get(th) ==
  /\ Calling(th, "get")
  /\ Answer(th, content[call[th].key])
  /\ UNCHANGED content

\* A key that is there already keeps its value, which is the answer.
Add(th) ==
  /\ Calling(th, "add")
  /\ LET k == call[th].key
     IN /\ Answer(th, content[k])
        /\ content' = [content EXCEPT ![k] = IF @ = Null THEN call[th].value ELSE @]

Remove(th) ==
  /\ Calling(th, "remove")
  /\ Answer(th, Null)
  /\ content' = [content EXCEPT ![call[th].key] = Null]

Return(th) ==
  /\ call[th].step = "done"
  /\ call' = [call EXCEPT ![th] = NoCall]
  /\ UNCHANGED content

Next ==
  \E th \in Thread :
    \/ \E op \in {"get", "add", "remove"}, k \in Key, v \in Value \cup {Null} : Begin(th, op, k, v)
    \/ Get(th) \/ Add(th) \/ Remove(th) \/ Return(th)

Spec == Init /\ [][Next]_vars
=============================================================================

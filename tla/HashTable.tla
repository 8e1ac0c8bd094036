------------------------------- MODULE HashTable -------------------------------
(***************************************************************************)
(* The chained hash table of insecure-lockmanager/.../hashtable.cpp, which *)
(* is the transaction table and the lock table, and the one of             *)
(* out-of-enclave, which counts the entries of each bucket and does not    *)
(* free them.  No operation takes a mutex.                                 *)
(*                                                                         *)
(* A step reads or writes one pointer that threads share: the head of a    *)
(* bucket or the `next' of an entry.  The key and the value of an entry do *)
(* not change and are read along with it.                                  *)
(*                                                                         *)
(* Callers add in two calls, `get' or `contains' and then `set' if the key *)
(* was not found; that is the operation "add".  "set" is `set' alone.      *)
(***************************************************************************)
EXTENDS Integers, FiniteSets, FiniteSetsExt

CONSTANTS
  Thread,
  Key,
  Value,
  Size,        \* buckets
  Node,        \* addresses of entries; as many as there is memory for
  Calls,       \* [thread, op, key]: who calls what
  Builds,      \* the values of untrusted to look at
  Null

ASSUME SizeAssumption == Size \in Nat \ {0}
ASSUME KeyAssumption == Key \subseteq Nat
ASSUME NodeAssumption == IsFiniteSet(Node)
ASSUME NullAssumption == Null \notin Node \cup Value \cup Key
ASSUME CallsAssumption ==
  Calls \subseteq [thread : Thread, op : {"get", "add", "set", "remove"}, key : Key]
ASSUME BuildsAssumption == Builds \subseteq BOOLEAN

VARIABLES
  untrusted, \* TRUE for the table of out-of-enclave; never changes
  table,     \* the first entry of each bucket
  sizes,     \* bucketSizes
  node,      \* the entries: [live, key, value, next]
  thread     \* of each thread: [step, op, key, value, prev, entry, target, size, result]

vars == <<untrusted, table, sizes, node, thread>>

Bucket == 0..(Size - 1)

hash(key) == key % Size

Unallocated == [live |-> FALSE, key |-> Null, value |-> Null, next |-> Null]

Idle ==
  [step |-> "idle", op |-> "get", key |-> Null, value |-> Null, prev |-> Null,
   entry |-> Null, target |-> Null, size |-> 0, result |-> Null]

Init ==
  /\ untrusted \in Builds
  /\ table = [b \in Bucket |-> Null]
  /\ sizes = [b \in Bucket |-> 0]
  /\ node = [a \in Node |-> Unallocated]
  /\ thread = [th \in Thread |-> Idle]

-----------------------------------------------------------------------------
(* Threads.  `prev' and `entry' are where a thread is in its chain,         *)
(* `target' is the pointer it is about to write.                            *)

BucketOf(th) == hash(thread[th].key)
Entry(th) == node[thread[th].entry]
AtEnd(th) == thread[th].entry = Null
Found(th) == Entry(th).key = thread[th].key

\* A thread is about to follow a null pointer, or to use or delete a deleted entry.
UsesBadPointer(th) ==
  \/ thread[th].step = "walk" /\ AtEnd(th)
  \/ /\ thread[th].step \in {"look", "walk", "advance", "link", "search", "free"}
     /\ ~AtEnd(th)
     /\ ~Entry(th).live
  \/ /\ thread[th].step = "unlink"
     /\ thread[th].prev # Null
     /\ ~node[thread[th].prev].live

\* Undefined behaviour: the model stops.
Fault == \E th \in Thread : UsesBadPointer(th)

At(th, step) == thread[th].step = step /\ ~Fault

\* Thread th goes on to a step, with some of its variables changed.
Goto(th, step) == thread' = [thread EXCEPT ![th].step = step]
GotoEntry(th, step, a) == thread' = [thread EXCEPT ![th].step = step, ![th].entry = a]
Finish(th, v) == thread' = [thread EXCEPT ![th].step = "done", ![th].result = v]

Adding == {th \in Thread : thread[th].op \in {"add", "set"}}
Free == {a \in Node : ~node[a].live}

\* No call begins that would run out of memory.
Begin(th, call) ==
  /\ At(th, "idle")
  /\ call.thread = th
  /\ call.op \in {"add", "set"} => Cardinality(Free) > Cardinality(Adding)
  /\ \E v \in IF call.op \in {"add", "set"} THEN Value ELSE {Null} :
       thread' = [thread EXCEPT ![th] =
         [Idle EXCEPT !.op = call.op, !.key = call.key, !.value = v,
            !.step = CASE call.op \in {"get", "add"} -> "head"
                       [] call.op = "set" -> "new"
                       [] call.op = "remove" -> "first"]]
  /\ UNCHANGED <<untrusted, table, sizes, node>>

Return(th) ==
  /\ At(th, "done")
  /\ thread' = [thread EXCEPT ![th] = Idle]
  /\ UNCHANGED <<untrusted, table, sizes, node>>

-----------------------------------------------------------------------------
(* get and contains.                                                       *)

ReadHead(th) ==
  /\ At(th, "head")
  /\ GotoEntry(th, "look", table[BucketOf(th)])
  /\ UNCHANGED <<untrusted, table, sizes, node>>

\* Fault: only the first entry is looked at.
LookOnce(th) ==
  /\ At(th, "look")
  /\ IF ~AtEnd(th) /\ Found(th) THEN Finish(th, Entry(th).value)
     ELSE IF thread[th].op = "get" THEN Finish(th, Null) ELSE Goto(th, "new")
  /\ UNCHANGED <<untrusted, table, sizes, node>>

Look(th) ==
  /\ At(th, "look")
  /\ \/ AtEnd(th) /\ thread[th].op = "get" /\ Finish(th, Null)
     \/ AtEnd(th) /\ thread[th].op = "add" /\ Goto(th, "new")
     \/ ~AtEnd(th) /\ Found(th) /\ Finish(th, Entry(th).value)
     \/ ~AtEnd(th) /\ ~Found(th) /\ GotoEntry(th, "look", Entry(th).next)
  /\ UNCHANGED <<untrusted, table, sizes, node>>

-----------------------------------------------------------------------------
(* set.                                                                    *)

New(th) ==
  /\ At(th, "new")
  /\ \E a \in Free :
       /\ node' = [node EXCEPT ![a] =
            [live |-> TRUE, key |-> thread[th].key, value |-> thread[th].value, next |-> Null]]
       /\ LET first == table[BucketOf(th)]
          IN thread' = [thread EXCEPT ![th].target = a, ![th].entry = first,
                                      ![th].step = IF first = Null THEN "link" ELSE "walk"]
  /\ UNCHANGED <<untrusted, table, sizes>>

\* The last entry is not compared with the key.
Walk(th) ==
  /\ At(th, "walk")
  /\ \/ Entry(th).next = Null /\ Goto(th, "link") /\ UNCHANGED node
     \/ /\ Entry(th).next # Null /\ Found(th)
        /\ node' = [node EXCEPT ![thread[th].target] = Unallocated]
        /\ Finish(th, Entry(th).value)
     \/ Entry(th).next # Null /\ ~Found(th) /\ Goto(th, "advance") /\ UNCHANGED node
  /\ UNCHANGED <<untrusted, table, sizes>>

\* `next' is read once more, and may be null by now.
Advance(th) ==
  /\ At(th, "advance")
  /\ GotoEntry(th, "walk", Entry(th).next)
  /\ UNCHANGED <<untrusted, table, sizes, node>>

Counted == IF untrusted THEN "count" ELSE "done"

\* Fault: the new entry becomes the first, and the others are lost.
LinkFirst(th) ==
  /\ At(th, "link")
  /\ table' = [table EXCEPT ![BucketOf(th)] = thread[th].target]
  /\ Goto(th, Counted)
  /\ UNCHANGED <<untrusted, sizes, node>>

Link(th) ==
  /\ At(th, "link")
  /\ IF AtEnd(th)
     THEN /\ table' = [table EXCEPT ![BucketOf(th)] = thread[th].target]
          /\ UNCHANGED node
     ELSE /\ node' = [node EXCEPT ![thread[th].entry].next = thread[th].target]
          /\ UNCHANGED table
  /\ Goto(th, Counted)
  /\ UNCHANGED <<untrusted, sizes>>

-----------------------------------------------------------------------------
(* remove.                                                                 *)

First(th) ==
  /\ At(th, "first")
  /\ GotoEntry(th, "search", table[BucketOf(th)])
  /\ UNCHANGED <<untrusted, table, sizes, node>>

\* Fault: the entry is counted off although there was none.
SearchAndCount(th) ==
  /\ At(th, "search")
  /\ \/ AtEnd(th) /\ Goto(th, "count")
     \/ /\ ~AtEnd(th) /\ Found(th)
        /\ thread' = [thread EXCEPT ![th].step = "unlink", ![th].target = Entry(th).next]
     \/ /\ ~AtEnd(th) /\ ~Found(th)
        /\ thread' = [thread EXCEPT ![th].prev = thread[th].entry, ![th].entry = Entry(th).next]
  /\ UNCHANGED <<untrusted, table, sizes, node>>

Search(th) ==
  /\ At(th, "search")
  /\ \/ AtEnd(th) /\ Finish(th, Null)
     \/ /\ ~AtEnd(th) /\ Found(th)
        /\ thread' = [thread EXCEPT ![th].step = "unlink", ![th].target = Entry(th).next]
     \/ /\ ~AtEnd(th) /\ ~Found(th)
        /\ thread' = [thread EXCEPT ![th].prev = thread[th].entry, ![th].entry = Entry(th).next]
  /\ UNCHANGED <<untrusted, table, sizes, node>>

\* Fault: an entry that is not the first stays in the chain.
UnlinkFirst(th) ==
  /\ At(th, "unlink")
  /\ table' = IF thread[th].prev = Null
              THEN [table EXCEPT ![BucketOf(th)] = thread[th].target] ELSE table
  /\ Goto(th, IF untrusted THEN "count" ELSE "free")
  /\ UNCHANGED <<untrusted, sizes, node>>

Unlink(th) ==
  /\ At(th, "unlink")
  /\ IF thread[th].prev = Null
     THEN /\ table' = [table EXCEPT ![BucketOf(th)] = thread[th].target]
          /\ UNCHANGED node
     ELSE /\ node' = [node EXCEPT ![thread[th].prev].next = thread[th].target]
          /\ UNCHANGED table
  /\ Goto(th, IF untrusted THEN "count" ELSE "free")
  /\ UNCHANGED <<untrusted, sizes>>

Delete(th) ==
  /\ At(th, "free")
  /\ node' = [node EXCEPT ![thread[th].entry] = Unallocated]
  /\ Finish(th, Null)
  /\ UNCHANGED <<untrusted, table, sizes>>

-----------------------------------------------------------------------------
(* bucketSizes[position]++ and --, which are a load and a store.            *)

LoadSize(th) ==
  /\ At(th, "count")
  /\ thread' = [thread EXCEPT ![th].step = "store", ![th].size = sizes[BucketOf(th)]]
  /\ UNCHANGED <<untrusted, table, sizes, node>>

\* Fault: remove does not count.
StoreLarger(th) ==
  /\ At(th, "store")
  /\ sizes' = [sizes EXCEPT ![BucketOf(th)] =
       IF thread[th].op = "remove" THEN @ ELSE thread[th].size + 1]
  /\ Finish(th, Null)
  /\ UNCHANGED <<untrusted, table, node>>

StoreSize(th) ==
  /\ At(th, "store")
  /\ sizes' = [sizes EXCEPT ![BucketOf(th)] =
       thread[th].size + (IF thread[th].op = "remove" THEN -1 ELSE 1)]
  /\ Finish(th, Null)
  /\ UNCHANGED <<untrusted, table, node>>

-----------------------------------------------------------------------------

Next ==
  \E th \in Thread :
    \/ \E call \in Calls : Begin(th, call)
    \/ ReadHead(th) \/ Look(th)
    \/ New(th) \/ Walk(th) \/ Advance(th) \/ Link(th)
    \/ First(th) \/ Search(th) \/ Unlink(th) \/ Delete(th)
    \/ LoadSize(th) \/ StoreSize(th)
    \/ Return(th)

Spec == Init /\ [][Next]_vars

-----------------------------------------------------------------------------

Pointer == Node \cup {Null}

\* Types; a bucket never counts fewer entries than none, nor more than fit into memory.
TypeOK ==
  /\ untrusted \in Builds
  /\ table \in [Bucket -> Pointer]
  /\ sizes \in [Bucket -> 0..Cardinality(Node)]
  /\ node \in [Node -> [live : BOOLEAN, key : Key \cup {Null}, value : Value \cup {Null},
                        next : Pointer]]
  /\ thread \in [Thread ->
       [step : {"idle", "head", "look", "new", "walk", "advance", "link", "first", "search",
                "unlink", "free", "count", "store", "done"},
        op : {"get", "add", "set", "remove"}, key : Key \cup {Null},
        value : Value \cup {Null}, prev : Pointer, entry : Pointer, target : Pointer,
        size : Nat, result : Value \cup {Null}]]

\* The entries of bucket b, by their position in the chain.
Chain(b) ==
  LET at[n \in 0..Cardinality(Node)] ==
        IF n = 0 THEN table[b]
        ELSE IF at[n - 1] = Null THEN Null ELSE node[at[n - 1]].next
  IN at

Positions(b) == {n \in 0..Cardinality(Node) : Chain(b)[n] # Null}

Lookup(k) ==
  LET at == {n \in Positions(hash(k)) : node[Chain(hash(k))[n]].key = k}
  IN IF at = {} THEN Null ELSE node[Chain(hash(k))[Min(at)]].value

\* Of two calls that are at work on a bucket at the same time, one only reads, and neither
\* removes.  Nothing in the code sees to it (no operation takes a mutex): it is what the
\* properties below need of those who call, and the runs show what happens without it.
NoClash ==
  \A th, u \in Thread :
    /\ th # u /\ thread[th].step # "idle" /\ thread[u].step # "idle"
    /\ BucketOf(th) = BucketOf(u)
    => /\ thread[th].op = "get" \/ thread[u].op = "get"
       /\ thread[th].op # "remove" /\ thread[u].op # "remove"

\* No thread uses a null pointer, or an entry that another thread or itself has deleted.
NoFault == ~Fault

\* A key is in the table once, so that remove, which stops at the first entry it
\* finds, takes away all that there is of it.
KeysUnique ==
  \A b \in Bucket : \A m, n \in Positions(b) :
    node[Chain(b)[m]].key = node[Chain(b)[n]].key => m = n

\* bucketSizes says how many entries there are, when nobody is at work on the bucket.
SizesMatch ==
  untrusted => \A b \in Bucket :
    (\A th \in Thread : thread[th].step # "idle" => BucketOf(th) # b)
      => sizes[b] = Cardinality(Positions(b))

\* A key that was added and that nobody removes is found.
AddedIsFound ==
  \A th \in Thread :
    /\ thread[th].step = "done" /\ thread[th].op = "add"
    /\ \A call \in Calls : call.op = "remove" => call.key # thread[th].key
    => Lookup(thread[th].key) # Null

\* A call takes effect when it writes the pointer that puts an entry in the chain or
\* takes it out, or when it reads the one that ends its search.
TookEffect(th) ==
  \/ thread[th].step \in {"free", "count", "store", "done"}
  \/ thread[th].step \in {"look", "search"} /\ AtEnd(th) /\ thread[th].op # "add"

Expected == INSTANCE KeyedTable WITH
  content <- [k \in Key |-> Lookup(k)],
  call <- [th \in Thread |->
    [step |-> IF thread[th].step = "idle" THEN "idle"
              ELSE IF TookEffect(th) THEN "done" ELSE "called",
     op |-> thread[th].op, key |-> thread[th].key, value |-> thread[th].value,
     result |-> thread[th].result]]

\* get, set and remove, which take several steps each, are as good as atomic: the table
\* implements KeyedTable.
Atomic == Expected!Spec
=============================================================================

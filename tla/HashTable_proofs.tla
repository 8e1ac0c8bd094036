--------------------------- MODULE HashTable_proofs ---------------------------
(***************************************************************************)
(* Theorems about HashTable, for chains of any length and any number of    *)
(* threads, buckets, keys and entries, as long as calls that are at work   *)
(* on a bucket at the same time only read it while one of them adds to it  *)
(* (NoClash); one after the other, all threads may change all buckets.     *)
(***************************************************************************)
EXTENDS HashTable, FiniteSetTheorems, SequenceTheorems, WellFoundedInduction, TLAPS

\* Nobody calls `set' without having asked for the key.
AsksFirst == \A c \in Calls : c.op # "set"

-----------------------------------------------------------------------------
(* The invariant.  The chain of a bucket is a sequence of addresses.        *)

\* The address at a position, or the null pointer before the first and behind the last.
Nth(s, p) == IF p \in 1..Len(s) THEN s[p] ELSE Null

\* No entry before position p has key k.
Absent(s, nodes, k, p) == \A i \in 1..Len(s) : i < p => nodes[s[i]].key # k

\* s is the chain of bucket b, of which `first' is the head.
Chained(b, s, first, nodes) ==
  /\ first = Nth(s, 1)
  /\ \A p \in 1..Len(s) :
       /\ nodes[s[p]].live
       /\ nodes[s[p]].key \in Key /\ hash(nodes[s[p]].key) = b
       /\ nodes[s[p]].value \in Value
       /\ nodes[s[p]].next = Nth(s, p + 1)
  /\ \A p, q \in 1..Len(s) : s[p] = s[q] => p = q

\* The entry that a thread alone knows of.
Mine(me) ==
  IF me.step \in {"walk", "advance", "link"} THEN me.target
  ELSE IF me.step = "free" THEN me.entry
  ELSE Null

\* `get' has seen all entries before the one it is at; if there was no next one
\* when it looked, there may be one now.
Reads(me, s, nodes) ==
  \/ me.entry = Null
  \/ \E p \in 1..Len(s) : me.entry = s[p] /\ Absent(s, nodes, me.key, p)

\* A thread that changes the bucket itself is at a position of the chain.
Asks(me, s, nodes) ==
  \E p \in 1..(Len(s) + 1) : me.entry = Nth(s, p) /\ Absent(s, nodes, me.key, p)

Adds(me, s, nodes) ==
  /\ me.op \in {"add", "set"} /\ me.value \in Value
  /\ me.op = "add" => Absent(s, nodes, me.key, Len(s) + 1)

\* The entry that `set' has allocated.
Carries(me, nodes) ==
  LET new == nodes[me.target]
  IN /\ me.target \in Node
     /\ new.key = me.key /\ new.value = me.value /\ new.next = Null

Searches(me, s, nodes) ==
  \E p \in 1..(Len(s) + 1) :
    /\ me.entry = Nth(s, p) /\ me.prev = Nth(s, p - 1)
    /\ Absent(s, nodes, me.key, p)

Unlinks(me, s, nodes) ==
  \E p \in 1..Len(s) :
    /\ me.entry = s[p] /\ me.prev = Nth(s, p - 1) /\ me.target = Nth(s, p + 1)
    /\ nodes[s[p]].key = me.key

\* The bucket is counted after its chain has changed.
Counts(me, s, size) ==
  IF me.op = "remove"
  THEN size = Len(s) + 1 /\ me.entry \in Node /\ \A p \in 1..Len(s) : s[p] # me.entry
  ELSE me.op \in {"add", "set"} /\ size = Len(s) - 1 /\ Len(s) >= 1

\* What a thread knows at each step of its bucket, whose chain is s.
Knows(me, s, nodes, size, outside) ==
  /\ me.step # "done" => me.result = Null
  /\ me.step \in {"head", "look"} =>
       me.op \in {"get", "add"} /\ (me.op = "add" => me.value \in Value)
  /\ me.step = "look" => IF me.op = "get" THEN Reads(me, s, nodes) ELSE Asks(me, s, nodes)
  /\ me.step \in {"new", "walk", "advance", "link"} => Adds(me, s, nodes)
  /\ me.step \in {"walk", "advance", "link"} => Carries(me, nodes)
  /\ me.step = "walk" => \E p \in 1..Len(s) : me.entry = s[p]
  /\ me.step = "advance" => \E p \in 1..(Len(s) - 1) : me.entry = s[p]
  /\ me.step = "link" => me.entry = Nth(s, Len(s))
  /\ me.step \in {"first", "search", "unlink", "free"} => me.op = "remove"
  /\ me.step = "first" => me.prev = Null
  /\ me.step = "search" => Searches(me, s, nodes)
  /\ me.step = "unlink" => Unlinks(me, s, nodes)
  /\ me.step = "free" => ~outside /\ me.entry # Null
  /\ me.step \in {"count", "store"} => outside /\ Counts(me, s, size)
  /\ me.step = "store" => me.size = size

Counting(th, b) == thread[th].step \in {"count", "store"} /\ BucketOf(th) = b

NodeState ==
  [live : BOOLEAN, key : Key \cup {Null}, value : Value \cup {Null}, next : Pointer]

ThreadState ==
  [step : {"idle", "head", "look", "new", "walk", "advance", "link", "first", "search",
           "unlink", "free", "count", "store", "done"},
   op : {"get", "add", "set", "remove"}, key : Key \cup {Null},
   value : Value \cup {Null}, prev : Pointer, entry : Pointer, target : Pointer,
   size : Nat, result : Value \cup {Null}]

\* A thread does what it was called for.
Called(th, me) ==
  me.step # "idle" => me.key \in Key /\ [thread |-> th, op |-> me.op, key |-> me.key] \in Calls

\* An address that is allocated and in no chain.
Private(a, chain, nodes) ==
  a \in Node /\ nodes[a].live /\ \A b \in Bucket : \A p \in 1..Len(chain[b]) : chain[b][p] # a

Shape(chain) ==
  /\ untrusted \in Builds
  /\ table \in [Bucket -> Pointer]
  /\ node \in [Node -> NodeState]
  /\ thread \in [Thread -> ThreadState]
  /\ sizes \in [Bucket -> Int]
  /\ chain \in [Bucket -> Seq(Node)]

\* The entries that threads know of alone are different ones, and in no chain.
Apart(chain) ==
  /\ \A th \in Thread : Mine(thread[th]) # Null => Private(Mine(thread[th]), chain, node)
  /\ \A th, u \in Thread : th # u /\ Mine(thread[th]) # Null => Mine(thread[th]) # Mine(thread[u])

Sizes(chain) ==
  \A b \in Bucket :
    IF untrusted THEN (\A th \in Thread : ~Counting(th, b)) => sizes[b] = Len(chain[b])
    ELSE sizes[b] = 0

\* A key is in the chain once.
KeysOnce(s, nodes) ==
  \A p, q \in 1..Len(s) : nodes[s[p]].key = nodes[s[q]].key => p = q

TableInv(chain) ==
  /\ Shape(chain)
  /\ \A b \in Bucket : Chained(b, chain[b], table[b], node)
  /\ \A th \in Thread : Called(th, thread[th])
  /\ \A th \in Thread :
       Knows(thread[th], chain[BucketOf(th)], node, sizes[BucketOf(th)], untrusted)
  /\ Apart(chain)
  /\ Sizes(chain)
  /\ AsksFirst => \A b \in Bucket : KeysOnce(chain[b], node)

-----------------------------------------------------------------------------
(* Chains                                                                  *)

LEMMA BucketOfKey ==
  ASSUME NEW k \in Key
  PROVE  hash(k) \in Bucket
  BY SizeAssumption, KeyAssumption DEF hash, Bucket

LEMMA NthType ==
  ASSUME NEW s \in Seq(Node), NEW p \in Int
  PROVE  /\ Nth(s, p) \in Pointer
         /\ Nth(s, p) # Null <=> p \in 1..Len(s)
         /\ p \in 1..Len(s) => Nth(s, p) = s[p] /\ s[p] \in Node
<1>1. p \in 1..Len(s) => s[p] \in Node
  BY ElementOfSeq
<1> QED
  BY <1>1, NullAssumption DEF Nth, Pointer

\* What a thread knows stays true when entries of others change.
LEMMA KnowsStays ==
  ASSUME NEW me, NEW s \in Seq(Node), NEW nodes, NEW size, NEW outside, NEW others,
         Knows(me, s, nodes, size, outside),
         \A p \in 1..Len(s) : others[s[p]].key = nodes[s[p]].key,
         Mine(me) # Null => others[Mine(me)] = nodes[Mine(me)],
         me.step \in {"walk", "advance", "link"} => me.target # Null
  PROVE  Knows(me, s, others, size, outside)
<1>1. \A k, p : Absent(s, nodes, k, p) => Absent(s, others, k, p)
  BY DEF Absent
<1>2. me.step \in {"walk", "advance", "link"} => (Carries(me, nodes) => Carries(me, others))
  BY DEF Carries, Mine
<1>3. /\ Reads(me, s, nodes) => Reads(me, s, others)
      /\ Asks(me, s, nodes) => Asks(me, s, others)
      /\ Adds(me, s, nodes) => Adds(me, s, others)
      /\ Searches(me, s, nodes) => Searches(me, s, others)
      /\ Unlinks(me, s, nodes) => Unlinks(me, s, others)
  BY <1>1 DEF Reads, Asks, Adds, Searches, Unlinks
<1> QED
  BY <1>2, <1>3 DEF Knows

\* A thread without a call, or at its end, knows nothing.
LEMMA IdleKnows ==
  ASSUME NEW me, NEW s, NEW nodes, NEW size, NEW outside,
         NEW t, NEW others, NEW other,
         me.step \in {"idle", "done"}, Knows(me, s, nodes, size, outside)
  PROVE  Knows(me, t, others, other, outside)
  BY DEF Knows

\* Who does not count does not depend on the size.
LEMMA KnowsNoSize ==
  ASSUME NEW me, NEW s, NEW nodes, NEW size, NEW outside, NEW other,
         me.step \notin {"count", "store"}, Knows(me, s, nodes, size, outside)
  PROVE  Knows(me, s, nodes, other, outside)
  BY DEF Knows

LEMMA ThreadType ==
  ASSUME NEW chain, TableInv(chain), NEW th \in Thread
  PROVE  /\ thread[th] \in ThreadState
         /\ thread[th].step # "idle" =>
              /\ thread[th].key \in Key /\ BucketOf(th) \in Bucket
              /\ [thread |-> th, op |-> thread[th].op, key |-> thread[th].key] \in Calls
              /\ chain[BucketOf(th)] \in Seq(Node)
              /\ Chained(BucketOf(th), chain[BucketOf(th)], table[BucketOf(th)], node)
         /\ Knows(thread[th], chain[BucketOf(th)], node, sizes[BucketOf(th)], untrusted)
<1>1. thread[th] \in ThreadState
  BY DEF TableInv, Shape
<1>2. ASSUME thread[th].step # "idle"
      PROVE  /\ thread[th].key \in Key /\ BucketOf(th) \in Bucket
             /\ [thread |-> th, op |-> thread[th].op, key |-> thread[th].key] \in Calls
  BY <1>2, BucketOfKey DEF TableInv, Called, BucketOf
<1>3. Knows(thread[th], chain[BucketOf(th)], node, sizes[BucketOf(th)], untrusted)
  BY DEF TableInv
<1> QED
  BY <1>1, <1>2, <1>3 DEF TableInv, Shape

\* What an entry in a chain is.
LEMMA InChain ==
  ASSUME NEW chain, TableInv(chain), NEW b \in Bucket, NEW p \in 1..Len(chain[b])
  PROVE  /\ chain[b][p] \in Node /\ chain[b][p] # Null
         /\ node[chain[b][p]].live
         /\ node[chain[b][p]].key \in Key /\ hash(node[chain[b][p]].key) = b
         /\ node[chain[b][p]].value \in Value
         /\ node[chain[b][p]].next = Nth(chain[b], p + 1)
<1>1. chain[b] \in Seq(Node) /\ Chained(b, chain[b], table[b], node)
  BY DEF TableInv, Shape
<1>2. chain[b][p] \in Node
  BY <1>1, ElementOfSeq
<1> QED
  BY <1>1, <1>2, NullAssumption DEF Chained

\* Different chains have no entry in common.
LEMMA ChainsApart ==
  ASSUME NEW chain, TableInv(chain), NEW b \in Bucket, NEW c \in Bucket, b # c,
         NEW p \in 1..Len(chain[b]), NEW q \in 1..Len(chain[c])
  PROVE  chain[b][p] # chain[c][q]
  BY InChain

LEMMA NoThreadFaults ==
  ASSUME NEW chain, TableInv(chain)
  PROVE  NoFault
<1>1. SUFFICES ASSUME NEW th \in Thread PROVE ~UsesBadPointer(th)
  BY DEF NoFault, Fault
<1> DEFINE me == thread[th]
           s == chain[BucketOf(th)]
<1>2. CASE me.step = "idle"
  BY <1>2 DEF UsesBadPointer, me
<1>3. CASE me.step # "idle"
  <2>1. /\ me \in ThreadState /\ BucketOf(th) \in Bucket /\ s \in Seq(Node)
        /\ Knows(me, s, node, sizes[BucketOf(th)], untrusted)
    BY <1>3, ThreadType
  <2>2. \A p \in 1..Len(s) : s[p] \in Node /\ s[p] # Null /\ node[s[p]].live
    BY <2>1, InChain
  <2>3. Len(s) \in Nat
    BY <2>1
  <2>4. Mine(me) # Null => Mine(me) \in Node /\ node[Mine(me)].live
    BY DEF TableInv, Apart, Private
  <2> HIDE DEF me, s
  <2>5. \A p \in Int : Nth(s, p) # Null => node[Nth(s, p)].live
    BY <2>2, <2>3 DEF Nth
  <2>6. CASE me.step = "look"
    <3>1. me.entry # Null => node[me.entry].live
      BY <2>1, <2>2, <2>3, <2>5, <2>6 DEF Knows, Reads, Asks
    <3> QED
      BY <2>6, <3>1 DEF UsesBadPointer, AtEnd, Entry, me
  <2>7. CASE me.step \in {"walk", "advance", "link"}
    <3>1. me.entry # Null => node[me.entry].live
      BY <2>1, <2>2, <2>3, <2>5, <2>7 DEF Knows
    <3>2. me.step = "walk" => me.entry # Null
      BY <2>1, <2>2, <2>7 DEF Knows
    <3> QED
      BY <2>7, <3>1, <3>2 DEF UsesBadPointer, AtEnd, Entry, me
  <2>8. CASE me.step = "search"
    <3>1. me.entry # Null => node[me.entry].live
      BY <2>1, <2>3, <2>5, <2>8 DEF Knows, Searches
    <3> QED
      BY <2>8, <3>1 DEF UsesBadPointer, AtEnd, Entry, me
  <2>9. CASE me.step = "free"
    <3>1. me.entry # Null => node[me.entry].live
      BY <2>4, <2>9 DEF Mine
    <3> QED
      BY <2>9, <3>1 DEF UsesBadPointer, AtEnd, Entry, me
  <2>10. CASE me.step = "unlink"
    <3>1. me.prev # Null => node[me.prev].live
      BY <2>1, <2>3, <2>5, <2>10 DEF Knows, Unlinks
    <3> QED
      BY <2>10, <3>1 DEF UsesBadPointer, me
  <2> QED
    BY <2>6, <2>7, <2>8, <2>9, <2>10 DEF UsesBadPointer, me
<1> QED
  BY <1>2, <1>3

-----------------------------------------------------------------------------
(* Steps that leave the chains as they are                                 *)

\* The entries in chains stay as they are, or have another `next' at most.
Keeps(chain) ==
  \A b \in Bucket : \A p \in 1..Len(chain[b]) : node'[chain[b][p]] = node[chain[b][p]]

KeepsData(chain) ==
  \A b \in Bucket : \A p \in 1..Len(chain[b]) :
    /\ node'[chain[b][p]].key = node[chain[b][p]].key
    /\ node'[chain[b][p]].value = node[chain[b][p]].value

\* A thread goes on, and the entries in chains and those that others know of alone stay.
LEMMA QuietStep ==
  ASSUME NEW chain, TableInv(chain), NEW th \in Thread, NEW me \in ThreadState,
         UNCHANGED <<untrusted, table, sizes>>,
         thread' = [thread EXCEPT ![th] = me],
         node' \in [Node -> NodeState],
         \A b \in Bucket : \A p \in 1..Len(chain[b]) : node'[chain[b][p]] = node[chain[b][p]],
         \A u \in Thread : u # th /\ Mine(thread[u]) # Null =>
           node'[Mine(thread[u])] = node[Mine(thread[u])],
         Called(th, me),
         Knows(me, chain[hash(me.key)], node', sizes[hash(me.key)], untrusted),
         Mine(me) # Null => Private(Mine(me), chain, node'),
         Mine(me) # Null => \A u \in Thread : u # th => Mine(thread[u]) # Mine(me),
         thread[th].step \in {"count", "store"} =>
           me.step \in {"count", "store"} /\ me.key = thread[th].key
  PROVE  TableInv(chain)'
<1>1. /\ thread'[th] = me /\ \A u \in Thread : u # th => thread'[u] = thread[u]
      /\ thread' \in [Thread -> ThreadState]
  BY DEF TableInv, Shape
<1>2. Shape(chain)'
  BY <1>1 DEF TableInv, Shape
<1>3. ASSUME NEW b \in Bucket
      PROVE  Chained(b, chain[b], table[b], node)'
  <2>1. Chained(b, chain[b], table[b], node) /\ table'[b] = table[b]
    BY DEF TableInv
  <2> QED
    BY <2>1 DEF Chained
<1>4. ASSUME NEW u \in Thread
      PROVE  Called(u, thread[u])'
  <2>1. Called(u, thread'[u])
    BY <1>1 DEF TableInv
  <2> QED
    BY <2>1 DEF Called
<1>5. ASSUME NEW u \in Thread
      PROVE  Knows(thread[u], chain[BucketOf(u)], node, sizes[BucketOf(u)], untrusted)'
  <2>1. CASE u = th
    BY <1>1, <2>1 DEF BucketOf
  <2>2. CASE u # th
    <3> DEFINE s == chain[BucketOf(u)]
               other == thread[u]
    <3>1. thread'[u] = other /\ Knows(other, s, node, sizes[BucketOf(u)], untrusted)
      BY <1>1, <2>2 DEF TableInv
    <3>2. CASE other.step = "idle"
      <4>1. Knows(other, s, node', sizes[BucketOf(u)], untrusted)
        BY <3>1, <3>2, IdleKnows
      <4> QED
        BY <3>1, <4>1 DEF BucketOf
    <3>3. CASE other.step # "idle"
      <4>1. s \in Seq(Node) /\ BucketOf(u) \in Bucket /\ other \in ThreadState
        BY <3>3, ThreadType
      <4>2. \A p \in 1..Len(s) : node'[s[p]].key = node[s[p]].key
        BY <4>1
      <4>3. Mine(other) # Null => node'[Mine(other)] = node[Mine(other)]
        BY <2>2
      <4>4. other.step \in {"walk", "advance", "link"} => other.target # Null
        <5>1. other.step \in {"walk", "advance", "link"} => Carries(other, node)
          BY <3>1 DEF Knows
        <5> QED
          BY <5>1, NullAssumption DEF Carries
      <4> HIDE DEF s, other
      <4>5. Knows(other, s, node', sizes[BucketOf(u)], untrusted)
        BY <3>1, <4>1, <4>2, <4>3, <4>4, KnowsStays
      <4> QED
        BY <3>1, <4>5 DEF BucketOf, s, other
    <3> QED
      BY <3>2, <3>3
  <2> QED
    BY <2>1, <2>2
<1>6. Apart(chain)'
  <2>1. ASSUME NEW u \in Thread, Mine(thread'[u]) # Null
        PROVE  Private(Mine(thread'[u]), chain, node')
    BY <1>1, <2>1 DEF TableInv, Apart, Private
  <2>2. ASSUME NEW u \in Thread, NEW v \in Thread, u # v, Mine(thread'[u]) # Null
        PROVE  Mine(thread'[u]) # Mine(thread'[v])
    BY <1>1, <2>2 DEF TableInv, Apart
  <2> QED
    BY <2>1, <2>2 DEF Apart, Private
<1>7. Sizes(chain)'
  <2>1. ASSUME NEW b \in Bucket, \A u \in Thread : ~Counting(u, b)'
        PROVE  \A u \in Thread : ~Counting(u, b)
    BY <1>1, <2>1 DEF Counting, BucketOf
  <2> QED
    BY <2>1 DEF TableInv, Sizes
<1>8. AsksFirst => \A b \in Bucket : KeysOnce(chain[b], node)'
  <2>1. ASSUME AsksFirst, NEW b \in Bucket
        PROVE  KeysOnce(chain[b], node)'
    BY <2>1 DEF TableInv, KeysOnce
  <2> QED
    BY <2>1
<1> QED
  BY <1>2, <1>3, <1>4, <1>5, <1>6, <1>7, <1>8 DEF TableInv

\* A thread goes on in its call and writes nothing.
LEMMA GoesOn ==
  ASSUME NEW chain, TableInv(chain), NEW th \in Thread, NEW me \in ThreadState,
         UNCHANGED <<untrusted, table, sizes, node>>,
         thread' = [thread EXCEPT ![th] = me],
         thread[th].step # "idle",
         me.op = thread[th].op, me.key = thread[th].key,
         Knows(me, chain[BucketOf(th)], node, sizes[BucketOf(th)], untrusted),
         Mine(me) # Null => Mine(me) = Mine(thread[th]),
         thread[th].step \in {"count", "store"} => me.step \in {"count", "store"}
  PROVE  TableInv(chain)'
<1>1. node' \in [Node -> NodeState] /\ node' = node
  BY DEF TableInv, Shape
<1>2. Called(th, me)
  BY ThreadType DEF Called
<1>3. Mine(me) # Null =>
        /\ Private(Mine(me), chain, node')
        /\ \A u \in Thread : u # th => Mine(thread[u]) # Mine(me)
  BY <1>1 DEF TableInv, Apart
<1>4. Knows(me, chain[hash(me.key)], node', sizes[hash(me.key)], untrusted)
  BY <1>1 DEF BucketOf
<1> QED
  BY <1>1, <1>2, <1>3, <1>4, QuietStep

LEMMA BeginStep ==
  ASSUME NEW chain, TableInv(chain), NEW th \in Thread, NEW call \in Calls, Begin(th, call)
  PROVE  TableInv(chain)'
<1>1. PICK v \in IF call.op \in {"add", "set"} THEN Value ELSE {Null} :
        thread' = [thread EXCEPT ![th] =
          [Idle EXCEPT !.op = call.op, !.key = call.key, !.value = v,
             !.step = CASE call.op \in {"get", "add"} -> "head"
                        [] call.op = "set" -> "new"
                        [] call.op = "remove" -> "first"]]
  BY DEF Begin
<1> DEFINE step == CASE call.op \in {"get", "add"} -> "head"
                     [] call.op = "set" -> "new"
                     [] call.op = "remove" -> "first"
           me == [Idle EXCEPT !.op = call.op, !.key = call.key, !.value = v, !.step = step]
<1>2. /\ call.thread = th /\ call.op \in {"get", "add", "set", "remove"} /\ call.key \in Key
      /\ call = [thread |-> th, op |-> call.op, key |-> call.key]
  BY CallsAssumption DEF Begin
<1>3. step = IF call.op \in {"get", "add"} THEN "head"
             ELSE IF call.op = "set" THEN "new" ELSE "first"
  BY <1>2
<1>4. thread' = [thread EXCEPT ![th] = me]
  BY <1>1
<1> HIDE DEF step
<1>5. Idle \in ThreadState /\ Idle.result = Null /\ Idle.prev = Null
  BY DEF Idle, ThreadState, Pointer
<1>6. v \in Value \cup {Null} /\ (call.op \in {"add", "set"} => v \in Value)
  BY <1>1
<1> HIDE DEF Idle
<1>7. /\ me.step = step /\ me.op = call.op /\ me.key = call.key /\ me.value = v
      /\ me.result = Null /\ me.prev = Null
  BY <1>5 DEF ThreadState
<1>8. me \in ThreadState
  <2>1. step \in {"head", "new", "first"} /\ call.key \in Key \cup {Null}
    BY <1>2, <1>3
  <2> DEFINE asked == [Idle EXCEPT !.op = call.op, !.key = call.key]
  <2>2. asked \in ThreadState
    BY <1>2, <1>5, <2>1 DEF ThreadState
  <2>3. me = [asked EXCEPT !.value = v, !.step = step]
    BY DEF asked
  <2> HIDE DEF asked, me
  <2> QED
    BY <1>6, <2>1, <2>2, <2>3 DEF ThreadState
<1> HIDE DEF me
<1>9. Called(th, me)
  BY <1>2, <1>7 DEF Called
<1>10. Mine(me) = Null
  BY <1>2, <1>3, <1>7 DEF Mine
<1>11. me.step = "new" => me.op = "set"
  BY <1>2, <1>3, <1>7
<1>12. Knows(me, chain[hash(me.key)], node, sizes[hash(me.key)], untrusted)
  BY <1>2, <1>3, <1>6, <1>11, <1>7 DEF Knows, Adds
<1>13. node' = node /\ UNCHANGED <<untrusted, table, sizes>> /\ thread[th].step = "idle"
  BY DEF Begin, At
<1> QED
  BY <1>8, <1>9, <1>10, <1>12, <1>13, <1>4, QuietStep DEF TableInv, Shape

LEMMA ReturnStep ==
  ASSUME NEW chain, TableInv(chain), NEW th \in Thread, Return(th)
  PROVE  TableInv(chain)'
<1>1. Idle \in ThreadState
  BY DEF Idle, ThreadState, Pointer
<1>2. Mine(Idle) = Null
  BY DEF Mine, Idle
<1>3. Called(th, Idle)
  BY DEF Called, Idle
<1>4. Knows(Idle, chain[hash(Idle.key)], node, sizes[hash(Idle.key)], untrusted)
  BY DEF Idle, Knows
<1>5. /\ thread' = [thread EXCEPT ![th] = Idle] /\ thread[th].step = "done"
      /\ node' = node /\ UNCHANGED <<untrusted, table, sizes>>
  BY DEF Return, At
<1> HIDE DEF Idle
<1> QED
  BY <1>1, <1>2, <1>3, <1>4, <1>5, QuietStep DEF TableInv, Shape

LEMMA ReadHeadStep ==
  ASSUME NEW chain, TableInv(chain), NEW th \in Thread, ReadHead(th)
  PROVE  TableInv(chain)'
<1> DEFINE me == [thread[th] EXCEPT !.step = "look", !.entry = table[BucketOf(th)]]
           s == chain[BucketOf(th)]
<1>1. thread[th].step = "head"
  BY DEF ReadHead, At
<1>2. /\ thread[th] \in ThreadState /\ BucketOf(th) \in Bucket /\ s \in Seq(Node)
      /\ Chained(BucketOf(th), s, table[BucketOf(th)], node)
      /\ Knows(thread[th], s, node, sizes[BucketOf(th)], untrusted)
  BY <1>1, ThreadType
<1>3. table[BucketOf(th)] = Nth(s, 1) /\ table[BucketOf(th)] \in Pointer
  BY <1>2 DEF Chained, TableInv, Shape
<1>4. /\ me \in ThreadState /\ me.step = "look" /\ me.entry = Nth(s, 1)
      /\ me.op = thread[th].op /\ me.key = thread[th].key /\ me.value = thread[th].value
      /\ me.result = thread[th].result /\ thread' = [thread EXCEPT ![th] = me]
  BY <1>2, <1>3 DEF ThreadState, ReadHead, GotoEntry
<1> HIDE DEF me, s
<1>5. Absent(s, node, me.key, 1) /\ 1 \in 1..(Len(s) + 1)
  BY <1>2 DEF Absent
<1>6. Reads(me, s, node) /\ Asks(me, s, node)
  BY <1>2, <1>4, <1>5 DEF Reads, Asks, Nth
<1>7. Knows(me, s, node, sizes[BucketOf(th)], untrusted)
  BY <1>1, <1>2, <1>4, <1>6 DEF Knows
<1>8. Mine(me) = Null
  BY <1>4 DEF Mine
<1> QED
  BY <1>1, <1>4, <1>7, <1>8, GoesOn DEF ReadHead, s

LEMMA LookStep ==
  ASSUME NEW chain, TableInv(chain), NEW th \in Thread, Look(th)
  PROVE  TableInv(chain)'
<1> DEFINE old == thread[th]
           s == chain[BucketOf(th)]
<1>1. old.step = "look"
  BY DEF Look, At
<1>2. /\ old \in ThreadState /\ BucketOf(th) \in Bucket /\ s \in Seq(Node)
      /\ Knows(old, s, node, sizes[BucketOf(th)], untrusted)
  BY <1>1, ThreadType
<1>3. /\ old.op \in {"get", "add"} /\ (old.op = "add" => old.value \in Value)
      /\ old.result = Null
      /\ IF old.op = "get" THEN Reads(old, s, node) ELSE Asks(old, s, node)
  BY <1>1, <1>2 DEF Knows
<1>4. \A p \in 1..Len(s) :
        /\ s[p] \in Node /\ s[p] # Null /\ node[s[p]].value \in Value
        /\ node[s[p]].next = Nth(s, p + 1)
  BY <1>2, InChain
<1>5. CASE AtEnd(th) /\ old.op = "get" /\ Finish(th, Null)
  <2> DEFINE me == [old EXCEPT !.step = "done", !.result = Null]
  <2>1. /\ me \in ThreadState /\ me.step = "done" /\ me.op = old.op /\ me.key = old.key
        /\ thread' = [thread EXCEPT ![th] = me]
    BY <1>2, <1>5 DEF ThreadState, Finish
  <2> HIDE DEF me
  <2>2. Mine(me) = Null /\ Knows(me, s, node, sizes[BucketOf(th)], untrusted)
    BY <2>1 DEF Mine, Knows
  <2> QED
    BY <1>1, <2>1, <2>2, GoesOn DEF Look
<1>6. CASE AtEnd(th) /\ old.op = "add" /\ Goto(th, "new")
  <2> DEFINE me == [old EXCEPT !.step = "new"]
  <2>1. /\ me \in ThreadState /\ me.step = "new" /\ me.op = old.op /\ me.key = old.key
        /\ me.value = old.value /\ me.result = Null
        /\ thread' = [thread EXCEPT ![th] = me] /\ old.entry = Null
    BY <1>2, <1>3, <1>6 DEF ThreadState, Goto, AtEnd
  <2>2. Asks(old, s, node)
    BY <1>3, <1>6
  <2>3. Absent(s, node, old.key, Len(s) + 1)
    BY <1>2, <1>4, <2>1, <2>2 DEF Asks, Nth
  <2> HIDE DEF me, old, s
  <2>4. Mine(me) = Null /\ Knows(me, s, node, sizes[BucketOf(th)], untrusted)
    BY <1>3, <1>6, <2>1, <2>3 DEF Mine, Knows, Adds
  <2> QED
    BY <1>1, <2>1, <2>4, GoesOn DEF Look, old, s
<1>7. CASE ~AtEnd(th) /\ Found(th) /\ Finish(th, Entry(th).value)
  <2> DEFINE me == [old EXCEPT !.step = "done", !.result = Entry(th).value]
  <2>1. \E p \in 1..Len(s) : old.entry = s[p]
    BY <1>2, <1>3, <1>7 DEF Reads, Asks, Nth, AtEnd
  <2>2. Entry(th).value \in Value
    BY <1>4, <2>1 DEF Entry
  <2>3. /\ me \in ThreadState /\ me.step = "done" /\ me.op = old.op /\ me.key = old.key
        /\ thread' = [thread EXCEPT ![th] = me]
    BY <1>2, <1>7, <2>2 DEF ThreadState, Finish
  <2> HIDE DEF me
  <2>4. Mine(me) = Null /\ Knows(me, s, node, sizes[BucketOf(th)], untrusted)
    BY <2>3 DEF Mine, Knows
  <2> QED
    BY <1>1, <2>3, <2>4, GoesOn DEF Look
<1>8. CASE ~AtEnd(th) /\ ~Found(th) /\ GotoEntry(th, "look", Entry(th).next)
  <2> DEFINE me == [old EXCEPT !.step = "look", !.entry = Entry(th).next]
  <2>1. \E p \in 1..Len(s) : old.entry = s[p] /\ Absent(s, node, old.key, p)
    BY <1>2, <1>3, <1>8 DEF Reads, Asks, Nth, AtEnd
  <2>2. PICK p \in 1..Len(s) : old.entry = s[p] /\ Absent(s, node, old.key, p)
    BY <2>1
  <2>3. Entry(th).next = Nth(s, p + 1) /\ node[s[p]].key # old.key
    BY <1>4, <1>8, <2>2 DEF Entry, Found
  <2>4. Nth(s, p + 1) \in Pointer /\ (Nth(s, p + 1) # Null => p + 1 \in 1..Len(s))
    BY <1>2, <2>2, NthType
  <2>5. /\ me \in ThreadState /\ me.step = "look" /\ me.op = old.op /\ me.key = old.key
        /\ me.value = old.value /\ me.result = Null /\ me.entry = Nth(s, p + 1)
        /\ thread' = [thread EXCEPT ![th] = me]
    BY <1>2, <1>3, <1>8, <2>3, <2>4 DEF ThreadState, GotoEntry
  <2> HIDE DEF me, old, s
  <2>6. Absent(s, node, me.key, p + 1) /\ p + 1 \in 1..(Len(s) + 1)
    BY <1>2, <2>2, <2>3, <2>5 DEF Absent
  <2>7. Reads(me, s, node) /\ Asks(me, s, node)
    BY <1>2, <2>4, <2>5, <2>6 DEF Reads, Asks, Nth
  <2>8. Mine(me) = Null /\ Knows(me, s, node, sizes[BucketOf(th)], untrusted)
    BY <1>3, <2>5, <2>7 DEF Mine, Knows
  <2> QED
    BY <1>1, <2>5, <2>8, GoesOn DEF Look, old, s
<1> QED
  BY <1>5, <1>6, <1>7, <1>8 DEF Look, old

\* What `set' knows at each of its steps.
LEMMA SetKnows ==
  ASSUME NEW chain, TableInv(chain), NEW th \in Thread,
         thread[th].step \in {"walk", "advance", "link"}
  PROVE  /\ Adds(thread[th], chain[BucketOf(th)], node) /\ Carries(thread[th], node)
         /\ thread[th].result = Null /\ Mine(thread[th]) = thread[th].target
         /\ thread[th].target \in Node /\ thread[th].target # Null
         /\ Private(thread[th].target, chain, node)
<1>1. Knows(thread[th], chain[BucketOf(th)], node, sizes[BucketOf(th)], untrusted)
  BY ThreadType
<1>2. /\ Adds(thread[th], chain[BucketOf(th)], node) /\ Carries(thread[th], node)
      /\ thread[th].result = Null
  BY <1>1 DEF Knows
<1>3. Mine(thread[th]) = thread[th].target /\ thread[th].target \in Node
  BY <1>2 DEF Mine, Carries
<1> QED
  BY <1>2, <1>3, NullAssumption DEF TableInv, Apart

LEMMA NewStep ==
  ASSUME NEW chain, TableInv(chain), NEW th \in Thread, New(th)
  PROVE  TableInv(chain)' /\ Keeps(chain)
<1> DEFINE old == thread[th]
           s == chain[BucketOf(th)]
           first == table[BucketOf(th)]
<1>1. old.step = "new"
  BY DEF New, At
<1>2. /\ old \in ThreadState /\ BucketOf(th) \in Bucket /\ s \in Seq(Node)
      /\ Chained(BucketOf(th), s, first, node) /\ old.key \in Key
      /\ Knows(old, s, node, sizes[BucketOf(th)], untrusted)
      /\ [thread |-> th, op |-> old.op, key |-> old.key] \in Calls
  BY <1>1, ThreadType
<1>3. Adds(old, s, node) /\ old.result = Null
  BY <1>1, <1>2 DEF Knows
<1>4. PICK a \in Free :
        /\ node' = [node EXCEPT ![a] =
             [live |-> TRUE, key |-> old.key, value |-> old.value, next |-> Null]]
        /\ thread' = [thread EXCEPT ![th].target = a, ![th].entry = first,
                                    ![th].step = IF first = Null THEN "link" ELSE "walk"]
  BY DEF New
<1> DEFINE step == IF first = Null THEN "link" ELSE "walk"
           new == [live |-> TRUE, key |-> old.key, value |-> old.value, next |-> Null]
           me == [old EXCEPT !.target = a, !.entry = first, !.step = step]
<1>5. a \in Node /\ ~node[a].live /\ a # Null
  BY NullAssumption DEF Free
<1>6. new \in NodeState /\ new.live /\ new.key = old.key /\ new.value = old.value /\ new.next = Null
  BY <1>2, <1>3 DEF NodeState, Adds, Pointer
<1>7. first \in Pointer /\ first = Nth(s, 1)
  BY <1>2 DEF Chained, TableInv, Shape
<1>8. /\ me.target = a /\ me.entry = first /\ me.step = step /\ me.op = old.op
      /\ me.key = old.key /\ me.value = old.value /\ me.result = Null
  BY <1>2, <1>3 DEF ThreadState
<1>9. me \in ThreadState
  BY <1>2, <1>5, <1>7 DEF ThreadState, Pointer
<1>10. thread' = [thread EXCEPT ![th] = me] /\ node' = [node EXCEPT ![a] = new]
  BY <1>4
<1> HIDE DEF me, new, old, s
<1>11. /\ node' \in [Node -> NodeState] /\ node'[a] = new
       /\ \A c \in Node : c # a => node'[c] = node[c]
  BY <1>5, <1>6, <1>10 DEF TableInv, Shape
<1>12. \A b \in Bucket : \A p \in 1..Len(chain[b]) :
         chain[b][p] # a /\ node'[chain[b][p]] = node[chain[b][p]]
  BY <1>5, <1>11, InChain
<1>13. \A u \in Thread : Mine(thread[u]) # Null =>
         Mine(thread[u]) # a /\ node'[Mine(thread[u])] = node[Mine(thread[u])]
  BY <1>5, <1>11 DEF TableInv, Apart, Private
<1>14. Called(th, me)
  BY <1>2, <1>8 DEF Called
<1>15. Mine(me) = a
  BY <1>8 DEF Mine
<1>16. Private(a, chain, node')
  BY <1>5, <1>6, <1>11, <1>12 DEF Private
<1>17. \A u \in Thread : Mine(thread[u]) # a
  BY <1>5, <1>13
<1>18. Adds(me, s, node')
  <2>1. \A p \in 1..Len(s) : node'[s[p]] = node[s[p]]
    BY <1>2, <1>12 DEF s
  <2> QED
    BY <1>3, <1>8, <2>1 DEF Adds, Absent
<1>19. Carries(me, node')
  BY <1>5, <1>6, <1>8, <1>11 DEF Carries
<1>20. Knows(me, s, node', sizes[BucketOf(th)], untrusted)
  <2>1. CASE first = Null
    <3>1. 1 \notin 1..Len(s)
      BY <1>2, <1>7, <2>1, NthType
    <3>2. me.step = "link" /\ me.entry = Nth(s, Len(s))
      BY <1>2, <1>8, <2>1, <3>1 DEF Nth
    <3> QED
      BY <1>8, <1>18, <1>19, <3>2 DEF Knows
  <2>2. CASE first # Null
    <3>1. me.step = "walk" /\ \E p \in 1..Len(s) : me.entry = s[p]
      BY <1>2, <1>7, <1>8, <2>2, NthType
    <3> QED
      BY <1>8, <1>18, <1>19, <3>1 DEF Knows
  <2> QED
    BY <2>1, <2>2
<1>21. Knows(me, chain[hash(me.key)], node', sizes[hash(me.key)], untrusted)
  BY <1>8, <1>20 DEF BucketOf, s, old
<1>22. UNCHANGED <<untrusted, table, sizes>> /\ thread[th].step = "new"
  BY <1>1 DEF New, old
<1>23. /\ \A b \in Bucket : \A p \in 1..Len(chain[b]) : node'[chain[b][p]] = node[chain[b][p]]
       /\ \A u \in Thread : u # th /\ Mine(thread[u]) # Null =>
            node'[Mine(thread[u])] = node[Mine(thread[u])]
  BY <1>12, <1>13
<1>24. /\ Mine(me) # Null => Private(Mine(me), chain, node')
       /\ Mine(me) # Null => \A u \in Thread : u # th => Mine(thread[u]) # Mine(me)
  BY <1>15, <1>16, <1>17
<1>25. thread' = [thread EXCEPT ![th] = me] /\ node' \in [Node -> NodeState]
  BY <1>10, <1>11
<1>26. TableInv(chain)'
  BY <1>9, <1>14, <1>21, <1>22, <1>23, <1>24, <1>25, QuietStep
<1> QED
  BY <1>23, <1>26 DEF Keeps

LEMMA WalkStep ==
  ASSUME NEW chain, TableInv(chain), NEW th \in Thread, Walk(th)
  PROVE  TableInv(chain)' /\ Keeps(chain)
<1> DEFINE old == thread[th]
           s == chain[BucketOf(th)]
<1>1. old.step = "walk"
  BY DEF Walk, At
<1>2. /\ old \in ThreadState /\ BucketOf(th) \in Bucket /\ s \in Seq(Node)
      /\ Knows(old, s, node, sizes[BucketOf(th)], untrusted) /\ old.key \in Key
      /\ [thread |-> th, op |-> old.op, key |-> old.key] \in Calls
  BY <1>1, ThreadType
<1>3. /\ Adds(old, s, node) /\ Carries(old, node) /\ old.result = Null
      /\ Mine(old) = old.target /\ old.target \in Node /\ old.target # Null
      /\ Private(old.target, chain, node)
  BY <1>1, SetKnows
<1>4. PICK p \in 1..Len(s) : old.entry = s[p]
  BY <1>1, <1>2 DEF Knows
<1>5. /\ Entry(th).next = Nth(s, p + 1) /\ Entry(th).value \in Value
  BY <1>2, <1>4, InChain DEF Entry
<1>6. Nth(s, p + 1) # Null <=> p + 1 \in 1..Len(s)
  BY <1>2, <1>4, NthType
<1>7. CASE Entry(th).next = Null /\ Goto(th, "link") /\ UNCHANGED node
  <2> DEFINE me == [old EXCEPT !.step = "link"]
  <2>1. /\ me \in ThreadState /\ me.step = "link" /\ me.op = old.op /\ me.key = old.key
        /\ me.value = old.value /\ me.result = Null /\ me.target = old.target
        /\ me.entry = old.entry /\ thread' = [thread EXCEPT ![th] = me]
    BY <1>2, <1>3, <1>7 DEF ThreadState, Goto
  <2> HIDE DEF me, old, s
  <2>2. me.entry = Nth(s, Len(s))
    BY <1>2, <1>4, <1>5, <1>6, <1>7, <2>1 DEF Nth
  <2>3. Mine(me) = Mine(old)
    BY <1>3, <2>1 DEF Mine
  <2>4. Knows(me, s, node, sizes[BucketOf(th)], untrusted)
    BY <1>3, <2>1, <2>2 DEF Knows, Adds, Carries
  <2>5. TableInv(chain)'
    BY <1>1, <1>7, <2>1, <2>3, <2>4, GoesOn DEF Walk, old, s
  <2> QED
    BY <2>5, <1>7 DEF Keeps
<1>8. CASE /\ Entry(th).next # Null /\ Found(th)
           /\ node' = [node EXCEPT ![old.target] = Unallocated]
           /\ Finish(th, Entry(th).value)
  <2> DEFINE me == [old EXCEPT !.step = "done", !.result = Entry(th).value]
  <2>1. /\ me \in ThreadState /\ me.step = "done" /\ me.op = old.op /\ me.key = old.key
        /\ thread' = [thread EXCEPT ![th] = me]
    BY <1>2, <1>5, <1>8 DEF ThreadState, Finish
  <2>2. Unallocated \in NodeState
    BY DEF Unallocated, NodeState, Pointer
  <2> HIDE DEF me, old, s, Unallocated
  <2>3. node' \in [Node -> NodeState] /\ \A c \in Node : c # old.target => node'[c] = node[c]
    BY <1>3, <1>8, <2>2 DEF TableInv, Shape
  <2>4. \A b \in Bucket : \A q \in 1..Len(chain[b]) : node'[chain[b][q]] = node[chain[b][q]]
    BY <1>3, <2>3, InChain DEF Private
  <2>5. \A u \in Thread : u # th /\ Mine(thread[u]) # Null =>
          node'[Mine(thread[u])] = node[Mine(thread[u])]
    BY <1>3, <2>3 DEF TableInv, Apart, Private, old
  <2>6. Mine(me) = Null /\ Knows(me, s, node', sizes[BucketOf(th)], untrusted)
    BY <2>1 DEF Mine, Knows
  <2>7. Called(th, me)
    BY <1>2, <2>1 DEF Called
  <2>8. TableInv(chain)'
    BY <1>1, <2>1, <2>3, <2>4, <2>5, <2>6, <2>7, QuietStep DEF Walk, BucketOf, old, s
  <2> QED
    BY <2>4, <2>8 DEF Keeps
<1>9. CASE Entry(th).next # Null /\ ~Found(th) /\ Goto(th, "advance") /\ UNCHANGED node
  <2> DEFINE me == [old EXCEPT !.step = "advance"]
  <2>1. /\ me \in ThreadState /\ me.step = "advance" /\ me.op = old.op /\ me.key = old.key
        /\ me.value = old.value /\ me.result = Null /\ me.target = old.target
        /\ me.entry = old.entry /\ thread' = [thread EXCEPT ![th] = me]
    BY <1>2, <1>3, <1>9 DEF ThreadState, Goto
  <2> HIDE DEF me, old, s
  <2>2. \E q \in 1..(Len(s) - 1) : me.entry = s[q]
    BY <1>2, <1>4, <1>5, <1>6, <1>9, <2>1
  <2>3. Mine(me) = Mine(old)
    BY <1>3, <2>1 DEF Mine
  <2>4. Knows(me, s, node, sizes[BucketOf(th)], untrusted)
    BY <1>3, <2>1, <2>2 DEF Knows, Adds, Carries
  <2>5. TableInv(chain)'
    BY <1>1, <1>9, <2>1, <2>3, <2>4, GoesOn DEF Walk, old, s
  <2> QED
    BY <2>5, <1>9 DEF Keeps
<1> QED
  BY <1>7, <1>8, <1>9 DEF Walk, old

LEMMA AdvanceStep ==
  ASSUME NEW chain, TableInv(chain), NEW th \in Thread, Advance(th)
  PROVE  TableInv(chain)'
<1> DEFINE old == thread[th]
           s == chain[BucketOf(th)]
           me == [old EXCEPT !.step = "walk", !.entry = Entry(th).next]
<1>1. old.step = "advance"
  BY DEF Advance, At
<1>2. /\ old \in ThreadState /\ BucketOf(th) \in Bucket /\ s \in Seq(Node)
      /\ Knows(old, s, node, sizes[BucketOf(th)], untrusted)
  BY <1>1, ThreadType
<1>3. /\ Adds(old, s, node) /\ Carries(old, node) /\ old.result = Null
      /\ Mine(old) = old.target
  BY <1>1, SetKnows
<1>4. PICK p \in 1..(Len(s) - 1) : old.entry = s[p]
  BY <1>1, <1>2 DEF Knows
<1>5. p \in 1..Len(s) /\ p + 1 \in 1..Len(s)
  BY <1>2
<1>6. Entry(th).next = s[p + 1] /\ s[p + 1] \in Node
  BY <1>2, <1>4, <1>5, InChain, NthType DEF Entry
<1>7. /\ me \in ThreadState /\ me.step = "walk" /\ me.op = old.op /\ me.key = old.key
      /\ me.value = old.value /\ me.result = Null /\ me.target = old.target
      /\ me.entry = s[p + 1] /\ thread' = [thread EXCEPT ![th] = me]
  BY <1>2, <1>3, <1>6 DEF ThreadState, Advance, GotoEntry, Pointer
<1> HIDE DEF me, old, s
<1>8. Mine(me) = Mine(old)
  BY <1>3, <1>7 DEF Mine
<1>9. Knows(me, s, node, sizes[BucketOf(th)], untrusted)
  BY <1>3, <1>5, <1>7 DEF Knows, Adds, Carries
<1> QED
  BY <1>1, <1>7, <1>8, <1>9, GoesOn DEF Advance, old, s

LEMMA FirstStep ==
  ASSUME NEW chain, TableInv(chain), NEW th \in Thread, First(th)
  PROVE  TableInv(chain)'
<1> DEFINE old == thread[th]
           s == chain[BucketOf(th)]
           me == [old EXCEPT !.step = "search", !.entry = table[BucketOf(th)]]
<1>1. old.step = "first"
  BY DEF First, At
<1>2. /\ old \in ThreadState /\ BucketOf(th) \in Bucket /\ s \in Seq(Node)
      /\ Chained(BucketOf(th), s, table[BucketOf(th)], node)
      /\ Knows(old, s, node, sizes[BucketOf(th)], untrusted)
  BY <1>1, ThreadType
<1>3. old.op = "remove" /\ old.result = Null
  BY <1>1, <1>2 DEF Knows
<1>4. table[BucketOf(th)] = Nth(s, 1) /\ table[BucketOf(th)] \in Pointer
  BY <1>2 DEF Chained, TableInv, Shape
<1>5. /\ me \in ThreadState /\ me.step = "search" /\ me.op = old.op /\ me.key = old.key
      /\ me.result = Null /\ me.entry = Nth(s, 1) /\ me.prev = old.prev
      /\ thread' = [thread EXCEPT ![th] = me]
  BY <1>2, <1>3, <1>4 DEF ThreadState, First, GotoEntry
<1>6. old.prev = Null
  BY <1>1, <1>2 DEF Knows
<1> HIDE DEF me, old, s
<1>7. 1 \in 1..(Len(s) + 1) /\ Nth(s, 0) = Null /\ Absent(s, node, me.key, 1)
  BY <1>2 DEF Nth, Absent
<1>8. Searches(me, s, node)
  BY <1>5, <1>6, <1>7 DEF Searches
<1>9. Mine(me) = Null /\ Knows(me, s, node, sizes[BucketOf(th)], untrusted)
  BY <1>3, <1>5, <1>8 DEF Mine, Knows
<1> QED
  BY <1>1, <1>5, <1>9, GoesOn DEF First, old, s

LEMMA SearchStep ==
  ASSUME NEW chain, TableInv(chain), NEW th \in Thread, Search(th)
  PROVE  TableInv(chain)'
<1> DEFINE old == thread[th]
           s == chain[BucketOf(th)]
<1>1. old.step = "search"
  BY DEF Search, At
<1>2. /\ old \in ThreadState /\ BucketOf(th) \in Bucket /\ s \in Seq(Node)
      /\ Knows(old, s, node, sizes[BucketOf(th)], untrusted)
  BY <1>1, ThreadType
<1>3. old.op = "remove" /\ old.result = Null /\ Searches(old, s, node)
  BY <1>1, <1>2 DEF Knows
<1>4. PICK p \in 1..(Len(s) + 1) :
        old.entry = Nth(s, p) /\ old.prev = Nth(s, p - 1) /\ Absent(s, node, old.key, p)
  BY <1>3 DEF Searches
<1>5. CASE AtEnd(th) /\ Finish(th, Null)
  <2> DEFINE me == [old EXCEPT !.step = "done", !.result = Null]
  <2>1. /\ me \in ThreadState /\ me.step = "done" /\ me.op = old.op /\ me.key = old.key
        /\ thread' = [thread EXCEPT ![th] = me]
    BY <1>2, <1>5 DEF ThreadState, Finish
  <2> HIDE DEF me
  <2>2. Mine(me) = Null /\ Knows(me, s, node, sizes[BucketOf(th)], untrusted)
    BY <2>1 DEF Mine, Knows
  <2> QED
    BY <1>1, <2>1, <2>2, GoesOn DEF Search
<1>6. ASSUME ~AtEnd(th)
      PROVE  /\ p \in 1..Len(s) /\ old.entry = s[p]
             /\ Entry(th) = node[s[p]]
             /\ Entry(th).next = Nth(s, p + 1) /\ Nth(s, p + 1) \in Pointer
             /\ s[p] \in Node
  <2>1. p \in 1..Len(s) /\ old.entry = s[p]
    BY <1>2, <1>4, <1>6 DEF AtEnd, Nth
  <2> QED
    BY <1>2, <2>1, InChain, NthType DEF Entry
<1>7. CASE /\ ~AtEnd(th) /\ Found(th)
           /\ thread' = [thread EXCEPT ![th].step = "unlink", ![th].target = Entry(th).next]
  <2> DEFINE me == [old EXCEPT !.step = "unlink", !.target = Entry(th).next]
  <2>1. /\ me \in ThreadState /\ me.step = "unlink" /\ me.op = old.op /\ me.key = old.key
        /\ me.result = Null /\ me.entry = old.entry /\ me.prev = old.prev
        /\ me.target = Nth(s, p + 1) /\ thread' = [thread EXCEPT ![th] = me]
    BY <1>2, <1>3, <1>6, <1>7 DEF ThreadState
  <2>2. node[s[p]].key = old.key
    BY <1>6, <1>7 DEF Found
  <2> HIDE DEF me, old, s
  <2>3. Unlinks(me, s, node)
    BY <1>4, <1>6, <1>7, <2>1, <2>2 DEF Unlinks
  <2>4. Mine(me) = Null /\ Knows(me, s, node, sizes[BucketOf(th)], untrusted)
    BY <1>3, <2>1, <2>3 DEF Mine, Knows
  <2> QED
    BY <1>1, <2>1, <2>4, GoesOn DEF Search, old, s
<1>8. CASE /\ ~AtEnd(th) /\ ~Found(th)
           /\ thread' = [thread EXCEPT ![th].prev = thread[th].entry, ![th].entry = Entry(th).next]
  <2> DEFINE me == [old EXCEPT !.prev = old.entry, !.entry = Entry(th).next]
  <2>1. /\ me \in ThreadState /\ me.step = "search" /\ me.op = old.op /\ me.key = old.key
        /\ me.result = Null /\ me.entry = Nth(s, p + 1) /\ me.prev = s[p]
        /\ thread' = [thread EXCEPT ![th] = me]
    BY <1>1, <1>2, <1>3, <1>6, <1>8 DEF ThreadState, Pointer
  <2>2. node[s[p]].key # old.key
    BY <1>6, <1>8 DEF Found
  <2> HIDE DEF me, old, s
  <2>3. Absent(s, node, me.key, p + 1) /\ p + 1 \in 1..(Len(s) + 1) /\ Nth(s, p + 1 - 1) = s[p]
    BY <1>2, <1>4, <1>6, <1>8, <2>1, <2>2 DEF Absent, Nth
  <2>4. Searches(me, s, node)
    BY <2>1, <2>3 DEF Searches
  <2>5. Mine(me) = Null /\ Knows(me, s, node, sizes[BucketOf(th)], untrusted)
    BY <1>3, <2>1, <2>4 DEF Mine, Knows
  <2> QED
    BY <1>1, <2>1, <2>5, GoesOn DEF Search, old, s
<1> QED
  BY <1>5, <1>7, <1>8 DEF Search

LEMMA LoadSizeStep ==
  ASSUME NEW chain, TableInv(chain), NEW th \in Thread, LoadSize(th)
  PROVE  TableInv(chain)'
<1> DEFINE old == thread[th]
           s == chain[BucketOf(th)]
           me == [old EXCEPT !.step = "store", !.size = sizes[BucketOf(th)]]
<1>1. old.step = "count"
  BY DEF LoadSize, At
<1>2. /\ old \in ThreadState /\ BucketOf(th) \in Bucket /\ s \in Seq(Node)
      /\ Knows(old, s, node, sizes[BucketOf(th)], untrusted)
  BY <1>1, ThreadType
<1>3. Counts(old, s, sizes[BucketOf(th)]) /\ old.result = Null /\ untrusted
  BY <1>1, <1>2 DEF Knows
<1>4. sizes[BucketOf(th)] \in Nat
  BY <1>2, <1>3 DEF Counts
<1>5. /\ me \in ThreadState /\ me.step = "store" /\ me.op = old.op /\ me.key = old.key
      /\ me.result = Null /\ me.entry = old.entry /\ me.size = sizes[BucketOf(th)]
      /\ thread' = [thread EXCEPT ![th] = me]
  BY <1>2, <1>3, <1>4 DEF ThreadState, LoadSize
<1> HIDE DEF me, old, s
<1>6. Counts(me, s, sizes[BucketOf(th)])
  BY <1>3, <1>5 DEF Counts
<1>7. Mine(me) = Null /\ Knows(me, s, node, sizes[BucketOf(th)], untrusted)
  BY <1>3, <1>5, <1>6 DEF Mine, Knows
<1> QED
  BY <1>1, <1>5, <1>7, GoesOn DEF LoadSize, old, s

LEMMA DeleteStep ==
  ASSUME NEW chain, TableInv(chain), NEW th \in Thread, Delete(th)
  PROVE  TableInv(chain)' /\ Keeps(chain)
<1> DEFINE old == thread[th]
           s == chain[BucketOf(th)]
           me == [old EXCEPT !.step = "done", !.result = Null]
<1>1. old.step = "free"
  BY DEF Delete, At
<1>2. /\ old \in ThreadState /\ BucketOf(th) \in Bucket /\ s \in Seq(Node) /\ old.key \in Key
      /\ Knows(old, s, node, sizes[BucketOf(th)], untrusted)
      /\ [thread |-> th, op |-> old.op, key |-> old.key] \in Calls
  BY <1>1, ThreadType
<1>3. old.entry # Null /\ Mine(old) = old.entry
  BY <1>1, <1>2 DEF Knows, Mine
<1>4. Private(old.entry, chain, node) /\ old.entry \in Node
  BY <1>3 DEF TableInv, Apart, Private
<1>5. /\ me \in ThreadState /\ me.step = "done" /\ me.op = old.op /\ me.key = old.key
      /\ thread' = [thread EXCEPT ![th] = me]
  BY <1>2 DEF ThreadState, Delete, Finish
<1>6. Unallocated \in NodeState
  BY DEF Unallocated, NodeState, Pointer
<1>7. node' = [node EXCEPT ![old.entry] = Unallocated] /\ UNCHANGED <<untrusted, table, sizes>>
  BY DEF Delete
<1> HIDE DEF me, old, s, Unallocated
<1>8. node' \in [Node -> NodeState] /\ \A c \in Node : c # old.entry => node'[c] = node[c]
  BY <1>4, <1>6, <1>7 DEF TableInv, Shape
<1>9. \A b \in Bucket : \A q \in 1..Len(chain[b]) : node'[chain[b][q]] = node[chain[b][q]]
  BY <1>4, <1>8, InChain DEF Private
<1>10. \A u \in Thread : u # th /\ Mine(thread[u]) # Null =>
         node'[Mine(thread[u])] = node[Mine(thread[u])]
  BY <1>3, <1>8 DEF TableInv, Apart, Private, old
<1>11. Mine(me) = Null /\ Knows(me, s, node', sizes[BucketOf(th)], untrusted)
  BY <1>5 DEF Mine, Knows
<1>12. Called(th, me)
  BY <1>2, <1>5 DEF Called
<1>13. TableInv(chain)'
  BY <1>1, <1>5, <1>7, <1>8, <1>9, <1>10, <1>11, <1>12, QuietStep DEF BucketOf, old, s
<1> QED
  BY <1>9, <1>13 DEF Keeps

-----------------------------------------------------------------------------
(* Steps that change a chain                                               *)

\* Address a was in chain s and is not in chain t.
TakenOut(a, s, t, nodes) ==
  nodes[a].live /\ (\A p \in 1..Len(t) : t[p] # a) /\ \E q \in 1..Len(s) : a = s[q]

\* The chain of bucket b becomes t: an entry of the thread's own may have come in,
\* and what has gone out is the thread's own from now on.
LEMMA ChainStep ==
  ASSUME NEW chain, TableInv(chain), NEW th \in Thread, NEW me \in ThreadState,
         NEW b \in Bucket, NEW t \in Seq(Node),
         thread[th].step # "idle", BucketOf(th) = b,
         me.op = thread[th].op, me.key = thread[th].key,
         UNCHANGED <<untrusted, sizes>>,
         thread' = [thread EXCEPT ![th] = me],
         node' \in [Node -> NodeState],
         table' \in [Bucket -> Pointer],
         \A c \in Bucket : c # b => table'[c] = table[c],
         \A c \in Bucket : c # b =>
           \A p \in 1..Len(chain[c]) : node'[chain[c][p]] = node[chain[c][p]],
         Chained(b, t, table'[b], node'),
         \A p \in 1..Len(t) :
           t[p] = Mine(thread[th]) \/ \E q \in 1..Len(chain[b]) : t[p] = chain[b][q],
         \A u \in Thread : u # th /\ Mine(thread[u]) # Null =>
           node'[Mine(thread[u])] = node[Mine(thread[u])],
         \A u \in Thread : u # th /\ thread[u].step # "idle" /\ BucketOf(u) = b =>
           Knows(thread[u], t, node', sizes[b], untrusted),
         Knows(me, t, node', sizes[b], untrusted),
         Mine(me) # Null => TakenOut(Mine(me), chain[b], t, node'),
         untrusted => me.step = "count",
         AsksFirst => KeysOnce(t, node')
  PROVE  TableInv([chain EXCEPT ![b] = t])'
<1>1. PICK new : new = [chain EXCEPT ![b] = t]
  OBVIOUS
<1>2. /\ chain \in [Bucket -> Seq(Node)]
      /\ new \in [Bucket -> Seq(Node)] /\ new[b] = t
      /\ \A c \in Bucket : c # b => new[c] = chain[c]
  BY <1>1 DEF TableInv, Shape
<1>3. /\ thread'[th] = me /\ \A u \in Thread : u # th => thread'[u] = thread[u]
      /\ thread' \in [Thread -> ThreadState]
  BY DEF TableInv, Shape
<1>4. hash(me.key) = b
  BY DEF BucketOf
<1>5. Shape(new)'
  BY <1>2, <1>3 DEF TableInv, Shape
<1>6. ASSUME NEW c \in Bucket
      PROVE  Chained(c, new[c], table[c], node)'
  <2>1. CASE c = b
    BY <1>2, <2>1
  <2>2. CASE c # b
    <3>1. Chained(c, chain[c], table[c], node) /\ table'[c] = table[c] /\ new[c] = chain[c]
      BY <1>2, <2>2 DEF TableInv
    <3> QED
      BY <2>2, <3>1 DEF Chained
  <2> QED
    BY <2>1, <2>2
<1>7. ASSUME NEW u \in Thread
      PROVE  Called(u, thread[u])'
  <2>1. Called(u, thread[u]) /\ Called(th, thread[th])
    BY DEF TableInv
  <2>2. Called(u, thread'[u])
    BY <1>3, <2>1 DEF Called
  <2> QED
    BY <2>2 DEF Called
<1>8. ASSUME NEW u \in Thread
      PROVE  Knows(thread[u], new[BucketOf(u)], node, sizes[BucketOf(u)], untrusted)'
  <2>1. CASE u = th
    BY <1>2, <1>3, <1>4, <2>1 DEF BucketOf
  <2>2. CASE u # th
    <3> DEFINE s == chain[BucketOf(u)]
               other == thread[u]
    <3>1. thread'[u] = other /\ Knows(other, s, node, sizes[BucketOf(u)], untrusted)
      BY <1>3, <2>2 DEF TableInv
    <3>2. CASE other.step = "idle"
      <4>1. Knows(other, new[BucketOf(u)], node', sizes[BucketOf(u)], untrusted)
        BY <3>1, <3>2, IdleKnows
      <4> QED
        BY <3>1, <4>1 DEF BucketOf
    <3>3. CASE other.step # "idle" /\ BucketOf(u) = b
      <4>1. Knows(other, t, node', sizes[b], untrusted)
        BY <2>2, <3>3
      <4> QED
        BY <1>2, <3>1, <3>3, <4>1 DEF BucketOf
    <3>4. CASE other.step # "idle" /\ BucketOf(u) # b
      <4>1. s \in Seq(Node) /\ BucketOf(u) \in Bucket /\ other \in ThreadState
        BY <3>4, ThreadType
      <4>2. \A p \in 1..Len(s) : node'[s[p]].key = node[s[p]].key
        BY <3>4, <4>1
      <4>3. Mine(other) # Null => node'[Mine(other)] = node[Mine(other)]
        BY <2>2
      <4>4. other.step \in {"walk", "advance", "link"} => other.target # Null
        <5>1. other.step \in {"walk", "advance", "link"} => Carries(other, node)
          BY <3>1 DEF Knows
        <5> QED
          BY <5>1, NullAssumption DEF Carries
      <4>5. new[BucketOf(u)] = s
        BY <1>2, <3>4, <4>1
      <4> HIDE DEF s, other
      <4>6. Knows(other, s, node', sizes[BucketOf(u)], untrusted)
        BY <3>1, <4>1, <4>2, <4>3, <4>4, KnowsStays
      <4> QED
        BY <3>1, <4>5, <4>6 DEF BucketOf, s, other
    <3> QED
      BY <3>2, <3>3, <3>4
  <2> QED
    BY <2>1, <2>2
<1>9. Apart(new)'
  <2>1. ASSUME NEW u \in Thread, u # th, Mine(thread[u]) # Null
        PROVE  /\ Private(Mine(thread[u]), new, node')
               /\ Mine(thread[u]) # Mine(thread[th])
    <3>1. Private(Mine(thread[u]), chain, node) /\ Mine(thread[u]) # Mine(thread[th])
      BY <2>1 DEF TableInv, Apart
    <3>2. \A p \in 1..Len(t) : t[p] # Mine(thread[u])
      BY <3>1 DEF Private
    <3>3. \A c \in Bucket : \A p \in 1..Len(new[c]) : new[c][p] # Mine(thread[u])
      <4>1. SUFFICES ASSUME NEW c \in Bucket, NEW p \in 1..Len(new[c])
                     PROVE  new[c][p] # Mine(thread[u])
        OBVIOUS
      <4> QED
        BY <1>2, <3>1, <3>2, <4>1 DEF Private
    <3> QED
      BY <2>1, <3>1, <3>3 DEF Private
  <2>2. ASSUME Mine(me) # Null
        PROVE  /\ Private(Mine(me), new, node')
               /\ \A u \in Thread : u # th => Mine(thread[u]) # Mine(me)
    <3>1. PICK q \in 1..Len(chain[b]) : Mine(me) = chain[b][q]
      BY <2>2 DEF TakenOut
    <3>2. \A c \in Bucket : c # b => \A p \in 1..Len(chain[c]) : chain[c][p] # Mine(me)
      BY <3>1, ChainsApart
    <3>3. Mine(me) \in Node
      BY <3>1, InChain
    <3>4. \A c \in Bucket : \A p \in 1..Len(new[c]) : new[c][p] # Mine(me)
      <4>1. SUFFICES ASSUME NEW c \in Bucket, NEW p \in 1..Len(new[c])
                     PROVE  new[c][p] # Mine(me)
        OBVIOUS
      <4>2. CASE c = b
        BY <1>2, <2>2, <4>2 DEF TakenOut
      <4>3. CASE c # b
        BY <1>2, <3>2, <4>3
      <4> QED
        BY <4>2, <4>3
    <3>5. \A u \in Thread : u # th => Mine(thread[u]) # Mine(me)
      BY <2>2, <3>1 DEF TableInv, Apart, Private
    <3> QED
      BY <2>2, <3>3, <3>4, <3>5 DEF Private, TakenOut
  <2>3. ASSUME NEW u \in Thread, Mine(thread'[u]) # Null
        PROVE  Private(Mine(thread'[u]), new, node')
    BY <1>3, <2>1, <2>2, <2>3
  <2>4. ASSUME NEW u \in Thread, NEW v \in Thread, u # v, Mine(thread'[u]) # Null
        PROVE  Mine(thread'[u]) # Mine(thread'[v])
    <3>1. CASE u # th /\ v # th
      BY <1>3, <2>4, <3>1 DEF TableInv, Apart
    <3>2. CASE u = th
      BY <1>3, <2>2, <2>4, <3>2
    <3>3. CASE v = th
      BY <1>3, <2>2, <2>4, <3>3
    <3> QED
      BY <3>1, <3>2, <3>3
  <2> QED
    BY <2>3, <2>4 DEF Apart, Private
<1>10. Sizes(new)'
  <2>1. ASSUME NEW c \in Bucket
        PROVE  IF untrusted
               THEN (\A u \in Thread : ~Counting(u, c)') => sizes[c] = Len(new[c])
               ELSE sizes[c] = 0
    <3>1. CASE c = b
      <4>1. untrusted => Counting(th, b)'
        BY <1>3, <1>4 DEF Counting, BucketOf
      <4> QED
        BY <3>1, <4>1 DEF TableInv, Sizes
    <3>2. CASE c # b
      <4>1. (\A u \in Thread : ~Counting(u, c)') => \A u \in Thread : ~Counting(u, c)
        BY <1>3, <3>2 DEF Counting, BucketOf
      <4> QED
        BY <1>2, <3>2, <4>1 DEF TableInv, Sizes
    <3> QED
      BY <3>1, <3>2
  <2> QED
    BY <2>1 DEF Sizes
<1>11. AsksFirst => \A c \in Bucket : KeysOnce(new[c], node)'
  <2>1. ASSUME AsksFirst, NEW c \in Bucket
        PROVE  KeysOnce(new[c], node)'
    <3>1. CASE c = b
      BY <1>2, <2>1, <3>1 DEF KeysOnce
    <3>2. CASE c # b
      <4>1. KeysOnce(chain[c], node)
        BY <2>1 DEF TableInv
      <4> QED
        BY <1>2, <3>2, <4>1 DEF KeysOnce
    <3> QED
      BY <3>1, <3>2
  <2> QED
    BY <2>1
<1>12. TableInv(new)'
  BY <1>5, <1>6, <1>7, <1>8, <1>9, <1>10, <1>11 DEF TableInv
<1> QED
  BY <1>1, <1>12

\* Who shares a bucket.
LEMMA BucketMates ==
  ASSUME NoClash, NEW th \in Thread, NEW u \in Thread, u # th,
         thread[th].step # "idle", thread[u].step # "idle", BucketOf(u) = BucketOf(th)
  PROVE  /\ thread[th].op = "get" \/ thread[u].op = "get"
         /\ thread[th].op # "remove" /\ thread[u].op # "remove"
BY DEF NoClash

\* A reader does not mind an entry at the end of the chain.
LEMMA ReaderKnows ==
  ASSUME NEW me, NEW s \in Seq(Node), NEW t \in Seq(Node), NEW nodes, NEW others,
         NEW size, NEW outside,
         me.op = "get", Knows(me, s, nodes, size, outside), Len(s) <= Len(t),
         \A p \in 1..Len(s) : t[p] = s[p] /\ others[s[p]].key = nodes[s[p]].key
  PROVE  Knows(me, t, others, size, outside)
<1>1. me.step \in {"idle", "done", "head", "look"}
        \/ me.step \notin {"new", "walk", "advance", "link", "first", "search", "unlink", "free",
                           "count", "store"}
  BY DEF Knows, Adds, Counts
<1>2. Len(s) \in Nat /\ Len(t) \in Nat
  OBVIOUS
<1>3. ASSUME Reads(me, s, nodes)
      PROVE  Reads(me, t, others)
  <2>1. CASE me.entry = Null
    BY <2>1 DEF Reads
  <2>2. CASE \E p \in 1..Len(s) : me.entry = s[p] /\ Absent(s, nodes, me.key, p)
    <3>1. PICK p \in 1..Len(s) : me.entry = s[p] /\ Absent(s, nodes, me.key, p)
      BY <2>2
    <3>2. p \in 1..Len(t) /\ me.entry = t[p]
      BY <1>2, <3>1
    <3>3. ASSUME NEW i \in 1..Len(t), i < p
          PROVE  others[t[i]].key # me.key
      <4>1. i \in 1..Len(s)
        BY <1>2, <3>3
      <4> QED
        BY <3>1, <3>3, <4>1 DEF Absent
    <3> QED
      BY <3>2, <3>3 DEF Reads, Absent
  <2> QED
    BY <1>3, <2>1, <2>2 DEF Reads
<1> QED
  BY <1>1, <1>3 DEF Knows

\* Nobody else counts in a bucket in which a thread adds or removes.
LEMMA NobodyCounts ==
  ASSUME NoClash, NEW chain, TableInv(chain), NEW th \in Thread, thread[th].step # "idle",
         thread[th].op # "get",
         NEW u \in Thread, u # th
  PROVE  ~Counting(u, BucketOf(th))
<1>1. SUFFICES ASSUME Counting(u, BucketOf(th)) PROVE FALSE
  OBVIOUS
<1>2. thread[u].step \in {"count", "store"} /\ BucketOf(u) = BucketOf(th)
  BY <1>1 DEF Counting
<1>3. thread[u].op = "get"
  BY <1>2, BucketMates
<1>4. Counts(thread[u], chain[BucketOf(u)], sizes[BucketOf(u)])
  BY <1>2, ThreadType DEF Knows
<1> QED
  BY <1>3, <1>4 DEF Counts

\* What `set' knows when it has written its entry to the end of the chain.
LEMMA LinkedChain ==
  ASSUME NEW b, NEW s \in Seq(Node), NEW a \in Node, NEW first, NEW nodes, NEW new, NEW others,
         Chained(b, s, first, nodes),
         \A p \in 1..Len(s) : s[p] # a,
         nodes[a].live, nodes[a].key \in Key, hash(nodes[a].key) = b, nodes[a].value \in Value,
         nodes[a].next = Null,
         others[a] = nodes[a],
         new = IF Len(s) = 0 THEN a ELSE first,
         \A p \in 1..Len(s) :
           /\ others[s[p]].live = nodes[s[p]].live
           /\ others[s[p]].key = nodes[s[p]].key /\ others[s[p]].value = nodes[s[p]].value
           /\ others[s[p]].next = IF p = Len(s) THEN a ELSE nodes[s[p]].next
  PROVE  Chained(b, Append(s, a), new, others)
<1> DEFINE t == Append(s, a)
<1>1. /\ Len(s) \in Nat /\ Len(t) = Len(s) + 1 /\ t[Len(s) + 1] = a
      /\ \A p \in 1..Len(s) : t[p] = s[p]
  OBVIOUS
<1> HIDE DEF t
<1>2. Nth(t, Len(s) + 1) = a /\ Nth(t, Len(s) + 2) = Null
  BY <1>1 DEF Nth
<1>3. \A p \in 1..Len(s) : Nth(t, p) = Nth(s, p)
  BY <1>1 DEF Nth
<1>4. new = Nth(t, 1)
  <2>1. CASE Len(s) = 0
    BY <1>2, <2>1
  <2>2. CASE Len(s) # 0
    BY <1>1, <1>3, <2>2 DEF Chained
  <2> QED
    BY <2>1, <2>2
<1>5. ASSUME NEW p \in 1..Len(t)
      PROVE  /\ others[t[p]].live
             /\ others[t[p]].key \in Key /\ hash(others[t[p]].key) = b
             /\ others[t[p]].value \in Value
             /\ others[t[p]].next = Nth(t, p + 1)
  <2>1. CASE p = Len(s) + 1
    BY <1>1, <1>2, <2>1
  <2>2. CASE p \in 1..Len(s)
    <3>1. /\ others[s[p]].live
          /\ others[s[p]].key \in Key /\ hash(others[s[p]].key) = b
          /\ others[s[p]].value \in Value
      BY <2>2 DEF Chained
    <3>2. others[s[p]].next = Nth(t, p + 1)
      <4>1. CASE p = Len(s)
        BY <1>2, <2>2, <4>1
      <4>2. CASE p # Len(s)
        <5>1. p + 1 \in 1..Len(s)
          BY <1>1, <2>2, <4>2
        <5> QED
          BY <1>3, <2>2, <4>2, <5>1 DEF Chained
      <4> QED
        BY <4>1, <4>2
    <3> QED
      BY <1>1, <2>2, <3>1, <3>2
  <2> QED
    BY <1>1, <2>1, <2>2
<1>6. ASSUME NEW p \in 1..Len(t), NEW q \in 1..Len(t), t[p] = t[q]
      PROVE  p = q
  BY <1>1, <1>6 DEF Chained
<1> QED
  BY <1>4, <1>5, <1>6 DEF Chained, t

Linked(chain, new, th) ==
  /\ new = [chain EXCEPT ![BucketOf(th)] = Append(@, thread[th].target)]
  /\ KeepsData(chain)
  /\ node'[thread[th].target].key = thread[th].key
  /\ node'[thread[th].target].value = thread[th].value

LEMMA LinkStep ==
  ASSUME NoClash, NEW chain, TableInv(chain), NEW th \in Thread, Link(th)
  PROVE  \E new : TableInv(new)' /\ Linked(chain, new, th)
<1> DEFINE old == thread[th]
           a == old.target
           me == [old EXCEPT !.step = Counted]
<1>1. old.step = "link"
  BY DEF Link, At
<1>2. PICK b \in Bucket : b = BucketOf(th)
  BY <1>1, ThreadType
<1>3. PICK s \in Seq(Node) : s = chain[b]
  BY <1>1, <1>2, ThreadType
<1>4. /\ old \in ThreadState /\ Chained(b, s, table[b], node) /\ old.key \in Key
      /\ Knows(old, s, node, sizes[b], untrusted)
      /\ [thread |-> th, op |-> old.op, key |-> old.key] \in Calls
  BY <1>1, <1>2, <1>3, ThreadType
<1>5. /\ Adds(old, s, node) /\ Carries(old, node) /\ old.result = Null
      /\ Mine(old) = a /\ a \in Node /\ a # Null /\ Private(a, chain, node)
  BY <1>1, <1>2, <1>3, SetKnows
<1>6. old.entry = Nth(s, Len(s)) /\ Len(s) \in Nat
  BY <1>1, <1>4 DEF Knows
<1>7. /\ me \in ThreadState /\ me.step = Counted /\ me.op = old.op /\ me.key = old.key
      /\ me.result = Null /\ thread' = [thread EXCEPT ![th] = me]
  BY <1>4, <1>5 DEF ThreadState, Link, Goto, Counted
<1>8. \A p \in 1..Len(s) : s[p] \in Node /\ s[p] # Null /\ s[p] # a
  BY <1>3, <1>5, InChain DEF Private
<1>9. \A p, q \in 1..Len(s) : s[p] = s[q] => p = q
  BY <1>4 DEF Chained
<1>10. \A u \in Thread : u # th /\ Mine(thread[u]) # Null =>
         Mine(thread[u]) # a /\ \A p \in 1..Len(s) : Mine(thread[u]) # s[p]
  BY <1>3, <1>5 DEF TableInv, Apart, Private, old
<1>11. \A c \in Bucket : c # b =>
          \A p \in 1..Len(chain[c]) : \A q \in 1..Len(s) : chain[c][p] # s[q]
  BY <1>3, ChainsApart
<1>12. node \in [Node -> NodeState] /\ table \in [Bucket -> Pointer]
  BY DEF TableInv, Shape
<1>13. UNCHANGED <<untrusted, sizes>>
  BY DEF Link
<1>14. /\ node' \in [Node -> NodeState] /\ table' \in [Bucket -> Pointer]
       /\ \A c \in Bucket : c # b => table'[c] = table[c]
       /\ table'[b] = IF Len(s) = 0 THEN a ELSE table[b]
       /\ \A c \in Node : (\A p \in 1..Len(s) : c # s[p]) => node'[c] = node[c]
       /\ \A p \in 1..Len(s) :
            /\ node'[s[p]].live = node[s[p]].live
            /\ node'[s[p]].key = node[s[p]].key /\ node'[s[p]].value = node[s[p]].value
            /\ node'[s[p]].next = IF p = Len(s) THEN a ELSE node[s[p]].next
  <2>1. CASE AtEnd(th)
    <3>1. Len(s) = 0
      BY <1>6, <1>8, <2>1 DEF AtEnd, Nth
    <3>2. table' = [table EXCEPT ![b] = a] /\ node' = node
      BY <1>2, <2>1 DEF Link
    <3> QED
      BY <1>5, <1>12, <3>1, <3>2 DEF Pointer
  <2>2. CASE ~AtEnd(th)
    <3>1. Len(s) \in 1..Len(s) /\ old.entry = s[Len(s)]
      BY <1>6, <2>2 DEF AtEnd, Nth
    <3> DEFINE z == s[Len(s)]
    <3>2. node' = [node EXCEPT ![z].next = a] /\ table' = table
      BY <2>2, <3>1 DEF Link
    <3>3. z \in Node /\ \A p \in 1..Len(s) : p # Len(s) => s[p] # z
      BY <1>8, <1>9, <3>1
    <3> HIDE DEF z
    <3>4. /\ \A c \in Node : c # z => node'[c] = node[c]
          /\ node'[z] = [node[z] EXCEPT !.next = a]
      BY <1>12, <3>2, <3>3
    <3>5. node[z] \in NodeState
      BY <1>12, <3>3
    <3>6. /\ node'[z].live = node[z].live /\ node'[z].key = node[z].key
          /\ node'[z].value = node[z].value /\ node'[z].next = a
      BY <3>4, <3>5 DEF NodeState
    <3>7. node' \in [Node -> NodeState]
      BY <1>5, <1>12, <3>2, <3>3 DEF NodeState, Pointer
    <3>8. ASSUME NEW p \in 1..Len(s)
          PROVE  /\ node'[s[p]].live = node[s[p]].live
                 /\ node'[s[p]].key = node[s[p]].key /\ node'[s[p]].value = node[s[p]].value
                 /\ node'[s[p]].next = IF p = Len(s) THEN a ELSE node[s[p]].next
      <4>1. CASE p = Len(s)
        BY <3>6, <4>1 DEF z
      <4>2. CASE p # Len(s)
        BY <1>8, <3>3, <3>4, <4>2
      <4> QED
        BY <4>1, <4>2
    <3>9. \A c \in Node : (\A p \in 1..Len(s) : c # s[p]) => node'[c] = node[c]
      BY <3>1, <3>4 DEF z
    <3> QED
      BY <1>12, <3>1, <3>2, <3>7, <3>8, <3>9
  <2> QED
    BY <2>1, <2>2
<1>15. node'[a] = node[a]
  BY <1>5, <1>8, <1>14
<1>16. PICK t \in Seq(Node) : t = Append(s, a)
  <2> HIDE DEF a
  <2>1. Append(s, a) \in Seq(Node)
    BY <1>5
  <2> QED
    BY <2>1
<1>17. /\ Len(t) = Len(s) + 1 /\ t[Len(s) + 1] = a
       /\ \A p \in 1..Len(s) : t[p] = s[p]
  BY <1>16
<1>18. /\ node[a].live /\ node[a].key = old.key /\ node[a].value = old.value
       /\ node[a].next = Null
  BY <1>5 DEF Carries, Private
<1>19. Chained(b, t, table'[b], node')
  <2>1. hash(old.key) = b /\ old.value \in Value
    BY <1>2, <1>5 DEF BucketOf, Adds
  <2> HIDE DEF a, old
  <2>2. \A p \in 1..Len(s) :
            /\ node'[s[p]].live = node[s[p]].live
            /\ node'[s[p]].key = node[s[p]].key /\ node'[s[p]].value = node[s[p]].value
            /\ node'[s[p]].next = IF p = Len(s) THEN a ELSE node[s[p]].next
    BY <1>14
  <2>3. Chained(b, Append(s, a), table'[b], node')
    BY <1>4, <1>5, <1>8, <1>14, <1>15, <1>18, <2>1, <2>2, LinkedChain
  <2> QED
    BY <1>16, <2>3
<1>20. old.op \in {"add", "set"} /\ old.op # "get"
  BY <1>5 DEF Adds
<1>21. ASSUME NEW u \in Thread, u # th, thread[u].step # "idle", BucketOf(u) = b
       PROVE  Knows(thread[u], t, node', sizes[b], untrusted)
  <2>1. thread[u].op = "get"
    BY <1>1, <1>2, <1>20, <1>21, BucketMates
  <2>2. Knows(thread[u], s, node, sizes[b], untrusted)
    BY <1>3, <1>21, ThreadType
  <2>3. Len(s) <= Len(t)
    BY <1>6, <1>17
  <2> QED
    BY <1>14, <1>17, <2>1, <2>2, <2>3, ReaderKnows
<1>22. Knows(me, t, node', sizes[b], untrusted)
  <2>1. CASE untrusted
    <3>1. \A u \in Thread : ~Counting(u, b)
      <4>1. SUFFICES ASSUME NEW u \in Thread PROVE ~Counting(u, b)
        OBVIOUS
      <4>2. CASE u = th
        BY <1>1, <4>2 DEF Counting
      <4>3. CASE u # th
        BY <1>1, <1>2, <1>20, <4>3, NobodyCounts
      <4> QED
        BY <4>2, <4>3
    <3>2. sizes[b] = Len(s)
      BY <1>3, <2>1, <3>1 DEF TableInv, Sizes
    <3>3. Counts(me, t, sizes[b]) /\ me.step = "count"
      BY <1>6, <1>7, <1>17, <1>20, <2>1, <3>2 DEF Counts, Counted
    <3> HIDE DEF me
    <3> QED
      BY <1>7, <2>1, <3>3 DEF Knows
  <2>2. CASE ~untrusted
    <3>1. me.step = "done"
      BY <1>7, <2>2 DEF Counted
    <3> HIDE DEF me
    <3> QED
      BY <1>7, <3>1 DEF Knows
  <2> QED
    BY <2>1, <2>2
<1>23. AsksFirst => KeysOnce(t, node')
  <2>1. ASSUME AsksFirst PROVE KeysOnce(t, node')
    <3>1. old.op # "set"
      BY <1>4, <2>1 DEF AsksFirst
    <3>2. \A p \in 1..Len(s) : node[s[p]].key # old.key
      BY <1>5, <1>6, <1>20, <3>1 DEF Adds, Absent
    <3>3. KeysOnce(s, node)
      BY <1>3, <2>1 DEF TableInv
    <3>4. \A p \in 1..Len(s) : node'[t[p]].key = node[s[p]].key
      BY <1>14, <1>17
    <3>5. node'[t[Len(s) + 1]].key = old.key
      BY <1>15, <1>17, <1>18
    <3> HIDE DEF old
    <3> QED
      BY <1>6, <1>17, <3>2, <3>3, <3>4, <3>5 DEF KeysOnce
  <2> QED
    BY <2>1
<1>24. Mine(me) = Null
  BY <1>7 DEF Mine, Counted
<1>25. \A p \in 1..Len(t) : t[p] = Mine(old) \/ \E q \in 1..Len(chain[b]) : t[p] = chain[b][q]
  BY <1>3, <1>5, <1>6, <1>17
<1>26. \A c \in Bucket : c # b => \A p \in 1..Len(chain[c]) : node'[chain[c][p]] = node[chain[c][p]]
  BY <1>11, <1>14, InChain
<1>27. \A u \in Thread : u # th /\ Mine(thread[u]) # Null =>
         node'[Mine(thread[u])] = node[Mine(thread[u])]
  BY <1>10, <1>14 DEF TableInv, Apart, Private
<1>28. untrusted => me.step = "count"
  BY <1>7 DEF Counted
<1>29. /\ thread[th].step # "idle" /\ BucketOf(th) = b
       /\ me.op = thread[th].op /\ me.key = thread[th].key
       /\ \A p \in 1..Len(t) :
            t[p] = Mine(thread[th]) \/ \E q \in 1..Len(chain[b]) : t[p] = chain[b][q]
       /\ me \in ThreadState /\ thread' = [thread EXCEPT ![th] = me]
  BY <1>1, <1>2, <1>7, <1>25
<1> HIDE DEF me, old, a
<1>30. TableInv([chain EXCEPT ![b] = t])'
  BY <1>13, <1>14, <1>19, <1>21, <1>22, <1>23, <1>24, <1>26, <1>27, <1>28, <1>29, ChainStep
<1>31. [chain EXCEPT ![b] = t] = [chain EXCEPT ![b] = Append(@, a)]
  BY <1>3, <1>16 DEF TableInv, Shape
<1>32. ASSUME NEW c \in Bucket, NEW p \in 1..Len(chain[c])
       PROVE  /\ node'[chain[c][p]].key = node[chain[c][p]].key
              /\ node'[chain[c][p]].value = node[chain[c][p]].value
  <2>1. CASE c = b
    BY <1>3, <1>14, <2>1
  <2>2. CASE c # b
    BY <1>26, <2>2
  <2> QED
    BY <2>1, <2>2
<1>33. node'[a].key = old.key /\ node'[a].value = old.value
  BY <1>15, <1>18
<1>34. Linked(chain, [chain EXCEPT ![b] = t], th)
  BY <1>2, <1>31, <1>32, <1>33 DEF Linked, KeepsData, a, old
<1> QED
  BY <1>30, <1>34

\* The chain without the entry at position p.
Without(s, p) == [i \in 1..(Len(s) - 1) |-> IF i < p THEN s[i] ELSE s[i + 1]]

LEMMA WithoutFacts ==
  ASSUME NEW s \in Seq(Node), NEW p \in 1..Len(s)
  PROVE  /\ Without(s, p) \in Seq(Node) /\ Len(Without(s, p)) = Len(s) - 1
         /\ \A i \in 1..(Len(s) - 1) : Without(s, p)[i] = IF i < p THEN s[i] ELSE s[i + 1]
         /\ \A i \in 1..(Len(s) - 1) : (IF i < p THEN i ELSE i + 1) \in 1..Len(s)
<1>1. Len(s) \in Nat /\ \A i \in 1..Len(s) : s[i] \in Node
  BY ElementOfSeq
<1>2. \A i \in 1..(Len(s) - 1) : (IF i < p THEN s[i] ELSE s[i + 1]) \in Node
  BY <1>1
<1>3. Len(s) - 1 \in Nat
  BY <1>1
<1>4. Without(s, p) \in [1..(Len(s) - 1) -> Node]
  BY <1>2 DEF Without
<1>5. Without(s, p) \in Seq(Node) /\ Len(Without(s, p)) = Len(s) - 1
  BY <1>3, <1>4
<1>6. \A i \in 1..(Len(s) - 1) : (IF i < p THEN i ELSE i + 1) \in 1..Len(s)
  BY <1>1
<1> QED
  BY <1>5, <1>6 DEF Without

\* What `remove' knows when it has written the pointer that takes its entry out.
LEMMA UnlinkedChain ==
  ASSUME NEW b, NEW s \in Seq(Node), NEW p \in 1..Len(s), NEW first, NEW nodes, NEW new,
         NEW others,
         Chained(b, s, first, nodes),
         new = IF p = 1 THEN Nth(s, 2) ELSE first,
         \A i \in 1..Len(s) :
           /\ others[s[i]].live = nodes[s[i]].live
           /\ others[s[i]].key = nodes[s[i]].key /\ others[s[i]].value = nodes[s[i]].value
           /\ others[s[i]].next = IF i = p - 1 THEN Nth(s, p + 1) ELSE nodes[s[i]].next
  PROVE  Chained(b, Without(s, p), new, others)
<1> DEFINE t == Without(s, p)
<1>1. /\ Len(s) \in Nat /\ Len(t) = Len(s) - 1
      /\ \A i \in 1..(Len(s) - 1) : t[i] = IF i < p THEN s[i] ELSE s[i + 1]
      /\ \A i \in 1..(Len(s) - 1) : (IF i < p THEN i ELSE i + 1) \in 1..Len(s)
  BY WithoutFacts
<1> HIDE DEF t
<1>2. ASSUME NEW i \in Nat \ {0}
      PROVE  Nth(t, i) = IF i < p THEN Nth(s, i) ELSE Nth(s, i + 1)
  <2>1. CASE i \in 1..(Len(s) - 1)
    BY <1>1, <2>1 DEF Nth
  <2>2. CASE i \notin 1..(Len(s) - 1)
    <3>1. i \notin 1..Len(t) /\ ~(i < p) /\ i + 1 \notin 1..Len(s)
      BY <1>1, <2>2
    <3> QED
      BY <3>1 DEF Nth
  <2> QED
    BY <2>1, <2>2
<1>3. new = Nth(t, 1)
  <2>1. CASE p = 1
    BY <1>2, <2>1
  <2>2. CASE p # 1
    <3>1. Nth(t, 1) = Nth(s, 1)
      BY <1>2, <2>2
    <3> QED
      BY <2>2, <3>1 DEF Chained
  <2> QED
    BY <2>1, <2>2
<1>4. ASSUME NEW i \in 1..Len(t)
      PROVE  /\ others[t[i]].live
             /\ others[t[i]].key \in Key /\ hash(others[t[i]].key) = b
             /\ others[t[i]].value \in Value
             /\ others[t[i]].next = Nth(t, i + 1)
  <2>1. PICK j \in 1..Len(s) : t[i] = s[j] /\ j = IF i < p THEN i ELSE i + 1
    BY <1>1
  <2>2. /\ others[s[j]].live
        /\ others[s[j]].key \in Key /\ hash(others[s[j]].key) = b
        /\ others[s[j]].value \in Value
    BY DEF Chained
  <2>3. Nth(t, i + 1) = IF i + 1 < p THEN Nth(s, i + 1) ELSE Nth(s, i + 1 + 1)
    BY <1>1, <1>2
  <2>4. nodes[s[j]].next = Nth(s, j + 1)
    BY DEF Chained
  <2>5. others[s[j]].next = Nth(t, i + 1)
    <3>1. CASE j = p - 1
      <4>1. i = j /\ ~(i + 1 < p)
        BY <1>1, <2>1, <3>1
      <4> QED
        BY <2>3, <3>1, <4>1
    <3>2. CASE j # p - 1
      <4>1. others[s[j]].next = Nth(s, j + 1)
        BY <2>4, <3>2
      <4>2. CASE i < p
        <5>1. j = i /\ i + 1 < p
          BY <1>1, <2>1, <3>2, <4>2
        <5> QED
          BY <2>3, <4>1, <5>1
      <4>3. CASE ~(i < p)
        <5>1. j = i + 1 /\ ~(i + 1 < p)
          BY <1>1, <2>1, <4>3
        <5> QED
          BY <2>3, <4>1, <5>1
      <4> QED
        BY <4>2, <4>3
    <3> QED
      BY <3>1, <3>2
  <2> QED
    BY <2>1, <2>2, <2>5
<1>5. ASSUME NEW i \in 1..Len(t), NEW k \in 1..Len(t), t[i] = t[k]
      PROVE  i = k
  BY <1>1, <1>5 DEF Chained
<1> QED
  BY <1>3, <1>4, <1>5 DEF Chained, t

Unlinked(chain, new, th) ==
  \E p \in 1..Len(chain[BucketOf(th)]) :
    /\ new = [chain EXCEPT ![BucketOf(th)] = Without(@, p)]
    /\ KeepsData(chain)
    /\ node[chain[BucketOf(th)][p]].key = thread[th].key

LEMMA UnlinkStep ==
  ASSUME NoClash, NEW chain, TableInv(chain), NEW th \in Thread, Unlink(th)
  PROVE  \E new : TableInv(new)' /\ Unlinked(chain, new, th)
<1> DEFINE old == thread[th]
           step == IF untrusted THEN "count" ELSE "free"
           me == [old EXCEPT !.step = step]
<1>1. old.step = "unlink"
  BY DEF Unlink, At
<1>2. PICK b \in Bucket : b = BucketOf(th)
  BY <1>1, ThreadType
<1>3. PICK s \in Seq(Node) : s = chain[b]
  BY <1>1, <1>2, ThreadType
<1>4. /\ old \in ThreadState /\ Chained(b, s, table[b], node) /\ old.key \in Key
      /\ Knows(old, s, node, sizes[b], untrusted)
  BY <1>1, <1>2, <1>3, ThreadType
<1>5. Unlinks(old, s, node) /\ old.result = Null /\ old.op = "remove"
  BY <1>1, <1>4 DEF Knows
<1>6. PICK p \in 1..Len(s) :
        /\ old.entry = s[p] /\ old.prev = Nth(s, p - 1) /\ old.target = Nth(s, p + 1)
        /\ node[s[p]].key = old.key
  BY <1>5 DEF Unlinks
<1>7. /\ me \in ThreadState /\ me.step = step /\ me.op = old.op /\ me.key = old.key
      /\ me.result = Null /\ me.entry = old.entry /\ thread' = [thread EXCEPT ![th] = me]
  BY <1>4, <1>5 DEF ThreadState, Unlink, Goto
<1>8. \A i \in 1..Len(s) : s[i] \in Node /\ s[i] # Null /\ node[s[i]].live
  BY <1>3, InChain
<1>9. \A i, j \in 1..Len(s) : s[i] = s[j] => i = j
  BY <1>4 DEF Chained
<1>10. \A u \in Thread : u # th /\ Mine(thread[u]) # Null =>
         \A i \in 1..Len(s) : Mine(thread[u]) # s[i]
  BY <1>3 DEF TableInv, Apart, Private
<1>11. \A c \in Bucket : c # b =>
          \A i \in 1..Len(chain[c]) : \A j \in 1..Len(s) : chain[c][i] # s[j]
  BY <1>3, ChainsApart
<1>12. node \in [Node -> NodeState] /\ table \in [Bucket -> Pointer]
  BY DEF TableInv, Shape
<1>13. UNCHANGED <<untrusted, sizes>>
  BY DEF Unlink
<1>14. Len(s) \in Nat /\ Nth(s, p + 1) \in Pointer
  BY NthType
<1>15. /\ node' \in [Node -> NodeState] /\ table' \in [Bucket -> Pointer]
       /\ \A c \in Bucket : c # b => table'[c] = table[c]
       /\ table'[b] = IF p = 1 THEN Nth(s, 2) ELSE table[b]
       /\ \A c \in Node : (\A i \in 1..Len(s) : c # s[i]) => node'[c] = node[c]
       /\ \A i \in 1..Len(s) :
            /\ node'[s[i]].live = node[s[i]].live
            /\ node'[s[i]].key = node[s[i]].key /\ node'[s[i]].value = node[s[i]].value
            /\ node'[s[i]].next = IF i = p - 1 THEN Nth(s, p + 1) ELSE node[s[i]].next
  <2>1. CASE old.prev = Null
    <3>1. p = 1
      BY <1>6, <1>8, <1>14, <2>1 DEF Nth
    <3>2. table' = [table EXCEPT ![b] = Nth(s, 2)] /\ node' = node
      BY <1>2, <1>6, <2>1, <3>1 DEF Unlink
    <3>3. \A i \in 1..Len(s) : i # p - 1
      BY <3>1
    <3> QED
      BY <1>12, <1>14, <3>1, <3>2, <3>3
  <2>2. CASE old.prev # Null
    <3>1. p # 1 /\ p - 1 \in 1..Len(s) /\ old.prev = s[p - 1]
      BY <1>6, <1>14, <2>2 DEF Nth
    <3> DEFINE z == s[p - 1]
               n == Nth(s, p + 1)
    <3>2. node' = [node EXCEPT ![z].next = n] /\ table' = table
      BY <1>6, <2>2, <3>1 DEF Unlink
    <3>3. z \in Node /\ \A i \in 1..Len(s) : i # p - 1 => s[i] # z
      BY <1>8, <1>9, <3>1
    <3>4. n \in Pointer
      BY <1>14
    <3> HIDE DEF z, n
    <3>5. /\ \A c \in Node : c # z => node'[c] = node[c]
          /\ node'[z] = [node[z] EXCEPT !.next = n]
      BY <1>12, <3>2, <3>3
    <3>6. node[z] \in NodeState
      BY <1>12, <3>3
    <3>7. /\ node'[z].live = node[z].live /\ node'[z].key = node[z].key
          /\ node'[z].value = node[z].value /\ node'[z].next = n
      BY <3>5, <3>6 DEF NodeState
    <3>8. node' \in [Node -> NodeState]
      BY <1>12, <3>2, <3>3, <3>4 DEF NodeState
    <3>9. ASSUME NEW i \in 1..Len(s)
          PROVE  /\ node'[s[i]].live = node[s[i]].live
                 /\ node'[s[i]].key = node[s[i]].key /\ node'[s[i]].value = node[s[i]].value
                 /\ node'[s[i]].next = IF i = p - 1 THEN n ELSE node[s[i]].next
      <4>1. CASE i = p - 1
        BY <3>7, <4>1 DEF z
      <4>2. CASE i # p - 1
        BY <1>8, <3>3, <3>5, <4>2
      <4> QED
        BY <4>1, <4>2
    <3>10. \A c \in Node : (\A i \in 1..Len(s) : c # s[i]) => node'[c] = node[c]
      BY <3>1, <3>5 DEF z
    <3> QED
      BY <1>12, <3>1, <3>2, <3>8, <3>9, <3>10 DEF n
  <2> QED
    BY <2>1, <2>2
<1>16. PICK t \in Seq(Node) : t = Without(s, p)
  BY WithoutFacts
<1>17. /\ Len(t) = Len(s) - 1
       /\ \A i \in 1..Len(t) : \E j \in 1..Len(s) : t[i] = s[j] /\ j = IF i < p THEN i ELSE i + 1
  <2>1. Len(t) = Len(s) - 1 /\ \A i \in 1..(Len(s) - 1) : t[i] = IF i < p THEN s[i] ELSE s[i + 1]
    BY <1>16, WithoutFacts
  <2>2. \A i \in 1..(Len(s) - 1) : (IF i < p THEN i ELSE i + 1) \in 1..Len(s)
    BY WithoutFacts
  <2>3. ASSUME NEW i \in 1..Len(t)
        PROVE  \E j \in 1..Len(s) : t[i] = s[j] /\ j = IF i < p THEN i ELSE i + 1
    <3>1. CASE i < p
      BY <2>1, <2>2, <3>1
    <3>2. CASE ~(i < p)
      BY <2>1, <2>2, <3>2
    <3> QED
      BY <3>1, <3>2
  <2> QED
    BY <2>1, <2>3
<1>18. Chained(b, t, table'[b], node')
  <2>1. Chained(b, Without(s, p), table'[b], node')
    BY <1>4, <1>15, UnlinkedChain
  <2> QED
    BY <1>16, <2>1
<1>19. \A i \in 1..Len(t) : t[i] # s[p]
  BY <1>9, <1>14, <1>17
<1>20. ASSUME NEW u \in Thread, u # th, thread[u].step # "idle", BucketOf(u) = b
       PROVE  Knows(thread[u], t, node', sizes[b], untrusted)
  BY <1>1, <1>2, <1>5, <1>20, BucketMates
<1>21. Knows(me, t, node', sizes[b], untrusted)
  <2>1. CASE untrusted
    <3>1. \A u \in Thread : ~Counting(u, b)
      <4>1. SUFFICES ASSUME NEW u \in Thread PROVE ~Counting(u, b)
        OBVIOUS
      <4>2. CASE u = th
        BY <1>1, <4>2 DEF Counting
      <4>3. CASE u # th
        BY <1>1, <1>2, <1>5, <4>3, NobodyCounts
      <4> QED
        BY <4>2, <4>3
    <3>2. sizes[b] = Len(s)
      BY <1>3, <2>1, <3>1 DEF TableInv, Sizes
    <3>3. Counts(me, t, sizes[b]) /\ me.step = "count"
      BY <1>5, <1>6, <1>7, <1>8, <1>14, <1>17, <1>19, <2>1, <3>2 DEF Counts
    <3> HIDE DEF me
    <3> QED
      BY <1>7, <2>1, <3>3 DEF Knows
  <2>2. CASE ~untrusted
    <3>1. me.step = "free" /\ me.entry # Null /\ me.op = "remove"
      BY <1>5, <1>6, <1>7, <1>8, <2>2
    <3> HIDE DEF me
    <3> QED
      BY <1>7, <2>2, <3>1 DEF Knows
  <2> QED
    BY <2>1, <2>2
<1>22. AsksFirst => KeysOnce(t, node')
  <2>1. ASSUME AsksFirst, NEW i \in 1..Len(t), NEW k \in 1..Len(t),
               node'[t[i]].key = node'[t[k]].key
        PROVE  i = k
    <3>1. KeysOnce(s, node)
      BY <1>3, <2>1 DEF TableInv
    <3>2. PICK j \in 1..Len(s) : t[i] = s[j] /\ j = IF i < p THEN i ELSE i + 1
      BY <1>17
    <3>3. PICK l \in 1..Len(s) : t[k] = s[l] /\ l = IF k < p THEN k ELSE k + 1
      BY <1>17
    <3>4. node[s[j]].key = node[s[l]].key
      BY <1>15, <2>1, <3>2, <3>3
    <3>5. j = l
      BY <3>1, <3>4 DEF KeysOnce
    <3> QED
      BY <1>14, <3>2, <3>3, <3>5
  <2> QED
    BY <2>1 DEF KeysOnce
<1>23. Mine(me) # Null => me.step = "free" /\ Mine(me) = s[p]
  BY <1>6, <1>7 DEF Mine
<1>24. Mine(me) # Null => TakenOut(Mine(me), chain[b], t, node')
  <2>1. node'[s[p]].live /\ p \in 1..Len(chain[b]) /\ s[p] = chain[b][p]
    BY <1>3, <1>8, <1>15
  <2> QED
    BY <1>19, <1>23, <2>1 DEF TakenOut
<1>25. \A i \in 1..Len(t) : \E j \in 1..Len(chain[b]) : t[i] = chain[b][j]
  BY <1>3, <1>17
<1>26. \A c \in Bucket : c # b => \A i \in 1..Len(chain[c]) : node'[chain[c][i]] = node[chain[c][i]]
  BY <1>11, <1>15, InChain
<1>27. \A u \in Thread : u # th /\ Mine(thread[u]) # Null =>
         node'[Mine(thread[u])] = node[Mine(thread[u])]
  BY <1>10, <1>15 DEF TableInv, Apart, Private
<1>28. untrusted => me.step = "count"
  BY <1>7
<1>29. /\ thread[th].step # "idle" /\ BucketOf(th) = b
       /\ me.op = thread[th].op /\ me.key = thread[th].key
       /\ \A i \in 1..Len(t) :
            t[i] = Mine(thread[th]) \/ \E j \in 1..Len(chain[b]) : t[i] = chain[b][j]
       /\ me \in ThreadState /\ thread' = [thread EXCEPT ![th] = me]
  BY <1>1, <1>2, <1>7, <1>25
<1> HIDE DEF me, old, step
<1>30. TableInv([chain EXCEPT ![b] = t])'
  <2>1. /\ node' \in [Node -> NodeState] /\ table' \in [Bucket -> Pointer]
        /\ \A c \in Bucket : c # b => table'[c] = table[c]
    BY <1>15
  <2> QED
    BY <1>13, <1>18, <1>20, <1>21, <1>22, <1>24, <1>26, <1>27, <1>28, <1>29, <2>1, ChainStep
<1>31. [chain EXCEPT ![b] = t] = [chain EXCEPT ![b] = Without(@, p)]
  BY <1>3, <1>16 DEF TableInv, Shape
<1>32. ASSUME NEW c \in Bucket, NEW i \in 1..Len(chain[c])
       PROVE  /\ node'[chain[c][i]].key = node[chain[c][i]].key
              /\ node'[chain[c][i]].value = node[chain[c][i]].value
  <2>1. CASE c = b
    BY <1>3, <1>15, <2>1
  <2>2. CASE c # b
    BY <1>26, <2>2
  <2> QED
    BY <2>1, <2>2
<1>33. Unlinked(chain, [chain EXCEPT ![b] = t], th)
  BY <1>2, <1>3, <1>6, <1>31, <1>32 DEF Unlinked, KeepsData, old
<1> QED
  BY <1>30, <1>33

LEMMA StoreSizeStep ==
  ASSUME NoClash, NEW chain, TableInv(chain), NEW th \in Thread, StoreSize(th)
  PROVE  TableInv(chain)'
<1> DEFINE old == thread[th]
           me == [old EXCEPT !.step = "done", !.result = Null]
           new == old.size + (IF old.op = "remove" THEN -1 ELSE 1)
<1>1. old.step = "store"
  BY DEF StoreSize, At
<1>2. PICK b \in Bucket : b = BucketOf(th)
  BY <1>1, ThreadType
<1>3. PICK s \in Seq(Node) : s = chain[b]
  BY <1>1, <1>2, ThreadType
<1>4. old \in ThreadState /\ Knows(old, s, node, sizes[b], untrusted)
  BY <1>1, <1>2, <1>3, ThreadType
<1>5. old.result = Null /\ untrusted /\ Counts(old, s, sizes[b]) /\ old.size = sizes[b]
  BY <1>1, <1>4 DEF Knows
<1>6. new = Len(s) /\ Len(s) \in Int
  BY <1>5 DEF Counts
<1>7. /\ me \in ThreadState /\ me.step = "done" /\ me.op = old.op /\ me.key = old.key
      /\ thread' = [thread EXCEPT ![th] = me]
  BY <1>4 DEF ThreadState, StoreSize, Finish
<1>8. sizes' = [sizes EXCEPT ![b] = new] /\ UNCHANGED <<untrusted, table, node>>
  BY <1>2 DEF StoreSize
<1> HIDE DEF new
<1>9. /\ sizes' \in [Bucket -> Int] /\ sizes'[b] = Len(s)
      /\ \A c \in Bucket : c # b => sizes'[c] = sizes[c]
  BY <1>6, <1>8 DEF TableInv, Shape
<1>10. /\ thread'[th] = me /\ \A u \in Thread : u # th => thread'[u] = thread[u]
       /\ thread' \in [Thread -> ThreadState]
  BY <1>7 DEF TableInv, Shape
<1>11. old.op # "get" /\ \A u \in Thread : u # th => ~Counting(u, b)
  BY <1>1, <1>2, <1>5, NobodyCounts DEF Counts
<1> HIDE DEF me
<1>12. Shape(chain)'
  BY <1>8, <1>9, <1>10 DEF TableInv, Shape
<1>13. ASSUME NEW u \in Thread
       PROVE  Called(u, thread[u])'
  <2>1. Called(u, thread[u]) /\ Called(th, thread[th])
    BY DEF TableInv
  <2>2. Called(u, thread'[u])
    BY <1>1, <1>7, <1>10, <2>1 DEF Called
  <2> QED
    BY <2>2 DEF Called
<1>14. ASSUME NEW u \in Thread
       PROVE  Knows(thread[u], chain[BucketOf(u)], node, sizes[BucketOf(u)], untrusted)'
  <2>1. CASE u = th
    <3>1. \A t, size : Knows(me, t, node, size, untrusted)
      BY <1>7 DEF Knows
    <3> QED
      BY <1>8, <1>10, <2>1, <3>1 DEF BucketOf
  <2>2. CASE u # th
    <3>1. thread'[u] = thread[u] /\ BucketOf(u)' = BucketOf(u)
      BY <1>10, <2>2 DEF BucketOf
    <3>2. Knows(thread[u], chain[BucketOf(u)], node, sizes[BucketOf(u)], untrusted)
      BY DEF TableInv
    <3>3. Knows(thread[u], chain[BucketOf(u)], node, sizes'[BucketOf(u)], untrusted)
      <4>1. CASE thread[u].step = "idle"
        BY <3>2, <4>1, IdleKnows
      <4>2. CASE thread[u].step # "idle" /\ BucketOf(u) # b
        BY <1>9, <3>2, <4>2, ThreadType
      <4>3. CASE thread[u].step # "idle" /\ BucketOf(u) = b
        <5>1. thread[u].step \notin {"count", "store"}
          BY <1>11, <2>2, <4>3 DEF Counting
        <5> QED
          BY <3>2, <5>1, KnowsNoSize
      <4> QED
        BY <4>1, <4>2, <4>3
    <3> QED
      BY <1>8, <3>1, <3>3 DEF BucketOf
  <2> QED
    BY <2>1, <2>2
<1>15. Apart(chain)'
  <2>1. Mine(me) = Null
    BY <1>7 DEF Mine
  <2>2. ASSUME NEW u \in Thread, Mine(thread'[u]) # Null
        PROVE  Private(Mine(thread'[u]), chain, node)
    BY <1>10, <2>1, <2>2 DEF TableInv, Apart
  <2>3. ASSUME NEW u \in Thread, NEW v \in Thread, u # v, Mine(thread'[u]) # Null
        PROVE  Mine(thread'[u]) # Mine(thread'[v])
    BY <1>10, <2>1, <2>3 DEF TableInv, Apart
  <2> QED
    BY <1>8, <2>2, <2>3 DEF Apart, Private
<1>16. Sizes(chain)'
  <2>1. ASSUME NEW c \in Bucket
        PROVE  (\A u \in Thread : ~Counting(u, c)') => sizes'[c] = Len(chain[c])
    <3>1. CASE c = b
      BY <1>3, <1>9, <3>1
    <3>2. CASE c # b
      <4>1. (\A u \in Thread : ~Counting(u, c)') => \A u \in Thread : ~Counting(u, c)
        BY <1>2, <1>10, <3>2 DEF Counting, BucketOf
      <4> QED
        BY <1>5, <1>9, <3>2, <4>1 DEF TableInv, Sizes
    <3> QED
      BY <3>1, <3>2
  <2> QED
    BY <1>5, <1>8, <2>1 DEF Sizes
<1>17. \A c \in Bucket : Chained(c, chain[c], table[c], node)'
  BY <1>8 DEF TableInv, Chained
<1>18. AsksFirst => \A c \in Bucket : KeysOnce(chain[c], node)'
  BY <1>8 DEF TableInv, KeysOnce
<1> QED
  BY <1>12, <1>13, <1>14, <1>15, <1>16, <1>17, <1>18 DEF TableInv

-----------------------------------------------------------------------------

LEMMA InitTable ==
  ASSUME Init
  PROVE  TableInv([b \in Bucket |-> <<>>])
<1>1. PICK chain : chain = [b \in Bucket |-> <<>>]
  OBVIOUS
<1>2. chain \in [Bucket -> Seq(Node)] /\ \A b \in Bucket : chain[b] = <<>> /\ Len(chain[b]) = 0
  BY <1>1
<1>3. Unallocated \in NodeState /\ Idle \in ThreadState /\ Idle.step = "idle"
      /\ Idle.result = Null /\ Mine(Idle) = Null
  BY DEF Unallocated, Idle, NodeState, ThreadState, Pointer, Mine
<1> HIDE DEF Unallocated, Idle
<1>4. Shape(chain)
  BY <1>2, <1>3 DEF Init, Shape, Pointer
<1>5. \A th \in Thread : thread[th] = Idle
  BY DEF Init
<1>6. \A b \in Bucket : Chained(b, chain[b], table[b], node)
  BY <1>2 DEF Init, Chained, Nth
<1>7. \A th \in Thread : Called(th, thread[th])
  BY <1>3, <1>5 DEF Called
<1>8. \A s, size : Knows(Idle, s, node, size, untrusted)
  BY <1>3 DEF Knows
<1>9. Apart(chain)
  BY <1>3, <1>5 DEF Apart
<1>10. Sizes(chain)
  BY <1>2 DEF Init, Sizes
<1>11. \A b \in Bucket : KeysOnce(chain[b], node)
  BY <1>2 DEF KeysOnce
<1>12. TableInv(chain)
  BY <1>4, <1>5, <1>6, <1>7, <1>8, <1>9, <1>10, <1>11 DEF TableInv
<1> QED
  BY <1>1, <1>12

\* Every bucket has a chain.
HashTableInv == \E chain : TableInv(chain)

LEMMA StutterStep ==
  ASSUME NEW chain, TableInv(chain), UNCHANGED vars
  PROVE  TableInv(chain)'
<1>1. /\ untrusted' = untrusted /\ table' = table /\ sizes' = sizes /\ node' = node
      /\ thread' = thread
  BY DEF vars
<1>2. Shape(chain)' /\ Apart(chain)' /\ Sizes(chain)'
  BY <1>1 DEF TableInv, Shape, Apart, Private, Sizes, Counting, BucketOf
<1>3. \A b \in Bucket : Chained(b, chain[b], table[b], node)'
  BY <1>1 DEF TableInv
<1>4. \A th \in Thread : Called(th, thread[th])'
  BY <1>1 DEF TableInv
<1>5. \A th \in Thread :
        Knows(thread[th], chain[BucketOf(th)], node, sizes[BucketOf(th)], untrusted)'
  BY <1>1 DEF TableInv, BucketOf
<1>6. AsksFirst => \A b \in Bucket : KeysOnce(chain[b], node)'
  BY <1>1 DEF TableInv
<1> QED
  BY <1>2, <1>3, <1>4, <1>5, <1>6 DEF TableInv

LEMMA HashTableStep ==
  ASSUME NoClash, HashTableInv, [Next]_vars
  PROVE  HashTableInv'
<1>1. PICK chain : TableInv(chain)
  BY DEF HashTableInv
<1>2. SUFFICES \E new : TableInv(new)'
  BY DEF HashTableInv
<1>3. CASE UNCHANGED vars
  BY <1>1, <1>3, StutterStep
<1>4. CASE Next
  <2>1. PICK th \in Thread :
          \/ \E call \in Calls : Begin(th, call)
          \/ ReadHead(th) \/ Look(th)
          \/ New(th) \/ Walk(th) \/ Advance(th) \/ Link(th)
          \/ First(th) \/ Search(th) \/ Unlink(th) \/ Delete(th)
          \/ LoadSize(th) \/ StoreSize(th)
          \/ Return(th)
    BY <1>4 DEF Next
  <2>2. CASE \E call \in Calls : Begin(th, call)
    BY <1>1, <2>2, BeginStep
  <2>3. CASE ReadHead(th)
    BY <1>1, <2>3, ReadHeadStep
  <2>4. CASE Look(th)
    BY <1>1, <2>4, LookStep
  <2>5. CASE New(th)
    BY <1>1, <2>5, NewStep
  <2>6. CASE Walk(th)
    BY <1>1, <2>6, WalkStep
  <2>7. CASE Advance(th)
    BY <1>1, <2>7, AdvanceStep
  <2>8. CASE Link(th)
    BY <1>1, <2>8, LinkStep
  <2>9. CASE First(th)
    BY <1>1, <2>9, FirstStep
  <2>10. CASE Search(th)
    BY <1>1, <2>10, SearchStep
  <2>11. CASE Unlink(th)
    BY <1>1, <2>11, UnlinkStep
  <2>12. CASE Delete(th)
    BY <1>1, <2>12, DeleteStep
  <2>13. CASE LoadSize(th)
    BY <1>1, <2>13, LoadSizeStep
  <2>14. CASE StoreSize(th)
    BY <1>1, <2>14, StoreSizeStep
  <2>15. CASE Return(th)
    BY <1>1, <2>15, ReturnStep
  <2> QED
    BY <2>1, <2>2, <2>3, <2>4, <2>5, <2>6, <2>7, <2>8, <2>9, <2>10, <2>11, <2>12, <2>13, <2>14,
       <2>15
<1> QED
  BY <1>3, <1>4

LEMMA HashTableAlways == Spec /\ []NoClash => []HashTableInv
<1>1. Init => HashTableInv
  BY InitTable DEF HashTableInv
<1>2. HashTableInv /\ NoClash /\ [Next]_vars => HashTableInv'
  BY HashTableStep
<1> QED
  BY <1>1, <1>2, PTL DEF Spec

\* While calls in one bucket overlap only to read it as one of them adds to it, nobody uses
\* a null pointer or an entry that has been deleted, whatever the steps of get, set and
\* remove (hashtable.cpp) in between.
THEOREM NobodyUsesADeletedEntry == Spec /\ []NoClash => []NoFault
<1>1. HashTableInv => NoFault
  BY NoThreadFaults DEF HashTableInv
<1> QED
  BY <1>1, HashTableAlways, PTL

-----------------------------------------------------------------------------
(* The chain as one follows it from the head                               *)

LEMMA LeastPosition ==
  ASSUME NEW T \in SUBSET Nat, T # {}
  PROVE  \E m \in T : \A k \in T : m <= k
<1> DEFINE R == OpToRel(<, Nat)
<1>1. IsWellFoundedOn(R, Nat)
  BY NatLessThanWellFounded
<1>2. \A x, y \in Nat : x < y => <<x, y>> \in R
  BY DEF OpToRel
<1> HIDE DEF R
<1>3. PICK m \in T : \A k \in T : ~(<<k, m>> \in R)
  BY <1>1, WFMin
<1>4. \A k \in T : m <= k
  <2> SUFFICES ASSUME NEW k \in T
               PROVE  m <= k
    OBVIOUS
  <2>1. k \in Nat /\ m \in Nat /\ ~(k < m)
    BY <1>2, <1>3
  <2> QED
    BY <2>1
<1> QED
  BY <1>4

\* A chain has no more entries than there is memory for.
LEMMA ChainFits ==
  ASSUME NEW s \in Seq(Node), \A p, q \in 1..Len(s) : s[p] = s[q] => p = q
  PROVE  Cardinality(Node) \in Nat /\ Len(s) <= Cardinality(Node)
<1>1. Cardinality(Node) \in Nat
  BY NodeAssumption, FS_CardinalityType
<1>2. Len(s) \in Nat /\ s \in [1..Len(s) -> Node]
  OBVIOUS
<1>3. s \in Injection(1..Len(s), Node)
  BY <1>2 DEF Injection, IsInjective
<1>4. Cardinality(1..Len(s)) <= Cardinality(Node)
  BY <1>3, NodeAssumption, FS_Injection
<1>5. Cardinality(1..Len(s)) = Len(s)
  BY <1>2, FS_Interval
<1> QED
  BY <1>1, <1>4, <1>5

\* Following the pointers of a chain.
LEMMA ChainIs ==
  ASSUME NEW chain, TableInv(chain), NEW b \in Bucket
  PROVE  Chain(b) = [n \in 0..Cardinality(Node) |-> Nth(chain[b], n + 1)]
<1> DEFINE s == chain[b]
           D == 0..Cardinality(Node)
           f == [n \in D |-> Nth(s, n + 1)]
           Follows(g) == g = [n \in D |-> IF n = 0 THEN table[b]
                                          ELSE IF g[n - 1] = Null THEN Null
                                          ELSE node[g[n - 1]].next]
<1>1. s \in Seq(Node) /\ Chained(b, s, table[b], node) /\ Len(s) \in Nat
  BY DEF TableInv, Shape
<1>2. Cardinality(Node) \in Nat
  BY <1>1, ChainFits DEF Chained
<1>3. Follows(f)
  <2>1. ASSUME NEW n \in D
        PROVE  f[n] = IF n = 0 THEN table[b]
                      ELSE IF f[n - 1] = Null THEN Null ELSE node[f[n - 1]].next
    <3>1. CASE n = 0
      BY <1>1, <3>1 DEF Chained
    <3>2. CASE n # 0
      <4>1. n - 1 \in D /\ f[n - 1] = Nth(s, n) /\ f[n] = Nth(s, n + 1) /\ n \in Nat
        BY <1>2, <3>2
      <4>2. CASE n \in 1..Len(s)
        <5>1. Nth(s, n) = s[n] /\ s[n] # Null
          BY <1>1, <4>2, NthType
        <5>2. node[s[n]].next = Nth(s, n + 1)
          BY <1>1, <4>2 DEF Chained
        <5> QED
          BY <3>2, <4>1, <5>1, <5>2
      <4>3. CASE n \notin 1..Len(s)
        <5>1. n + 1 \notin 1..Len(s)
          BY <1>1, <3>2, <4>1, <4>3
        <5> QED
          BY <3>2, <4>1, <4>3, <5>1 DEF Nth
      <4> QED
        BY <4>2, <4>3
    <3> QED
      BY <3>1, <3>2
  <2> HIDE DEF s
  <2> QED
    BY <2>1
<1>4. ASSUME NEW g, Follows(g)
      PROVE  g = f
  <2> DEFINE T == {n \in D : g[n] # f[n]}
  <2>1. \A n \in D : g[n] = IF n = 0 THEN table[b]
                            ELSE IF g[n - 1] = Null THEN Null ELSE node[g[n - 1]].next
    BY <1>4
  <2>2. \A n \in D : f[n] = IF n = 0 THEN table[b]
                            ELSE IF f[n - 1] = Null THEN Null ELSE node[f[n - 1]].next
    BY <1>3
  <2>3. g = [n \in D |-> g[n]] /\ f = [n \in D |-> f[n]]
    BY <1>4
  <2> HIDE DEF f, Follows
  <2>4. T = {}
    <3> SUFFICES ASSUME T # {} PROVE FALSE
      OBVIOUS
    <3>1. T \in SUBSET Nat
      BY <1>2
    <3>2. PICK m \in T : \A k \in T : m <= k
      BY <3>1, LeastPosition
    <3>3. m # 0 /\ m \in D /\ g[m] # f[m]
      BY <2>1, <2>2, <3>2
    <3>4. m - 1 \in D /\ m - 1 \notin T
      BY <1>2, <3>2, <3>3
    <3>5. g[m - 1] = f[m - 1]
      BY <3>4
    <3> QED
      BY <2>1, <2>2, <3>3, <3>5
  <2> QED
    BY <2>3, <2>4
<1>5. Follows(Chain(b))
  <2> HIDE DEF f
  <2>1. Chain(b) = CHOOSE g : Follows(g)
    BY DEF Chain
  <2> HIDE DEF Follows
  <2> QED
    BY <1>3, <2>1
<1> QED
  BY <1>4, <1>5

\* Positions are counted from 0.
LEMMA PositionsAre ==
  ASSUME NEW chain, TableInv(chain), NEW b \in Bucket
  PROVE  /\ Len(chain[b]) \in Nat
         /\ Positions(b) = 0..(Len(chain[b]) - 1)
         /\ Cardinality(Positions(b)) = Len(chain[b])
         /\ \A n \in Positions(b) :
              n + 1 \in 1..Len(chain[b]) /\ Chain(b)[n] = chain[b][n + 1]
<1> DEFINE s == chain[b]
<1>1. s \in Seq(Node) /\ Chained(b, s, table[b], node) /\ Len(s) \in Nat
  BY DEF TableInv, Shape
<1>2. Cardinality(Node) \in Nat /\ Len(s) <= Cardinality(Node)
  BY <1>1, ChainFits DEF Chained
<1>3. \A n \in 0..Cardinality(Node) : Chain(b)[n] = Nth(s, n + 1)
  BY ChainIs
<1>4. \A n \in Nat : Nth(s, n + 1) # Null <=> n + 1 \in 1..Len(s)
  BY <1>1, NthType
<1> HIDE DEF s
<1>5. Positions(b) = 0..(Len(s) - 1)
  <2>1. ASSUME NEW n \in Positions(b) PROVE n \in 0..(Len(s) - 1)
    BY <1>1, <1>2, <1>3, <1>4 DEF Positions
  <2>2. ASSUME NEW n \in 0..(Len(s) - 1) PROVE n \in Positions(b)
    <3>1. n \in 0..Cardinality(Node) /\ n \in Nat /\ n + 1 \in 1..Len(s)
      BY <1>1, <1>2
    <3> QED
      BY <1>3, <1>4, <3>1 DEF Positions
  <2> QED
    BY <2>1, <2>2
<1>6. Cardinality(0..(Len(s) - 1)) = Len(s)
  <2>1. Cardinality(0..(Len(s) - 1)) = IF 0 > Len(s) - 1 THEN 0 ELSE Len(s) - 1 - 0 + 1
    BY <1>1, FS_Interval
  <2> QED
    BY <1>1, <2>1
<1>7. \A n \in Positions(b) : n + 1 \in 1..Len(s) /\ Chain(b)[n] = s[n + 1]
  BY <1>1, <1>2, <1>3, <1>5 DEF Nth
<1> QED
  BY <1>1, <1>5, <1>6, <1>7 DEF s

LEMMA SizesInRange ==
  ASSUME NEW chain, TableInv(chain), NEW b \in Bucket
  PROVE  sizes[b] \in 0..Cardinality(Node)
<1> DEFINE s == chain[b]
<1>1. s \in Seq(Node) /\ Chained(b, s, table[b], node) /\ Len(s) \in Nat
  BY DEF TableInv, Shape
<1>2. \A p, q \in 1..Len(s) : s[p] = s[q] => p = q
  BY <1>1 DEF Chained
<1>3. Cardinality(Node) \in Nat /\ Len(s) <= Cardinality(Node)
  BY <1>1, <1>2, ChainFits
<1>4. CASE ~untrusted
  BY <1>3, <1>4 DEF TableInv, Sizes
<1>5. CASE untrusted /\ \A th \in Thread : ~Counting(th, b)
  <2>1. sizes[b] = Len(s)
    BY <1>5 DEF TableInv, Sizes
  <2> QED
    BY <1>1, <1>3, <2>1
<1>6. ASSUME NEW th \in Thread, Counting(th, b)
      PROVE  sizes[b] \in 0..Cardinality(Node)
  <2>1. thread[th].step \in {"count", "store"} /\ BucketOf(th) = b
    BY <1>6 DEF Counting
  <2>2. Counts(thread[th], s, sizes[b])
    BY <2>1, ThreadType DEF Knows
  <2>3. CASE thread[th].op = "remove"
    <3>1. PICK a \in Node : \A p \in 1..Len(s) : s[p] # a
      BY <2>2, <2>3 DEF Counts
    <3>2. sizes[b] = Len(s) + 1
      BY <2>2, <2>3 DEF Counts
    <3>3. PICK t : t = Append(s, a)
      OBVIOUS
    <3>4. t \in Seq(Node) /\ Len(t) = Len(s) + 1 /\ t[Len(s) + 1] = a
          /\ \A p \in 1..Len(s) : t[p] = s[p]
      BY <1>1, <3>3
    <3>5. \A p, q \in 1..Len(t) : t[p] = t[q] => p = q
      BY <1>1, <1>2, <3>1, <3>4
    <3>6. Len(t) <= Cardinality(Node)
      BY <3>4, <3>5, ChainFits
    <3> QED
      BY <1>1, <1>3, <3>2, <3>4, <3>6
  <2>4. CASE thread[th].op # "remove"
    BY <1>1, <1>3, <2>2, <2>4 DEF Counts
  <2> QED
    BY <2>3, <2>4
<1> QED
  BY <1>4, <1>5, <1>6

LEMMA TableTypes ==
  ASSUME NEW chain, TableInv(chain)
  PROVE  TypeOK
<1>1. sizes = [b \in Bucket |-> sizes[b]]
  BY DEF TableInv, Shape
<1>2. sizes \in [Bucket -> 0..Cardinality(Node)]
  BY <1>1, SizesInRange
<1> QED
  BY <1>2 DEF TypeOK, TableInv, Shape, NodeState, ThreadState

LEMMA TableSizes ==
  ASSUME NEW chain, TableInv(chain)
  PROVE  SizesMatch
<1>1. SUFFICES ASSUME untrusted, NEW b \in Bucket,
                      \A th \in Thread : thread[th].step # "idle" => BucketOf(th) # b
               PROVE  sizes[b] = Cardinality(Positions(b))
  BY DEF SizesMatch
<1>2. \A th \in Thread : ~Counting(th, b)
  BY <1>1 DEF Counting
<1>3. sizes[b] = Len(chain[b])
  BY <1>1, <1>2 DEF TableInv, Sizes
<1> QED
  BY <1>3, PositionsAre

LEMMA TableKeys ==
  ASSUME AsksFirst, NEW chain, TableInv(chain)
  PROVE  KeysUnique
<1>1. SUFFICES ASSUME NEW b \in Bucket, NEW m \in Positions(b), NEW n \in Positions(b),
                      node[Chain(b)[m]].key = node[Chain(b)[n]].key
               PROVE  m = n
  BY DEF KeysUnique
<1>2. m \in Int /\ n \in Int /\ m + 1 \in 1..Len(chain[b]) /\ n + 1 \in 1..Len(chain[b])
  BY PositionsAre
<1>3. node[chain[b][m + 1]].key = node[chain[b][n + 1]].key
  BY <1>1, PositionsAre
<1>4. KeysOnce(chain[b], node)
  BY DEF TableInv
<1>5. m + 1 = n + 1
  BY <1>2, <1>3, <1>4 DEF KeysOnce
<1> QED
  BY <1>2, <1>5

\* As long as no two changes of a bucket overlap, pointers, entries and what threads hold
\* of them keep their types, and a bucket never counts fewer entries than none nor more
\* than there is memory for.
THEOREM HashTableTypes == Spec /\ []NoClash => []TypeOK
<1>1. HashTableInv => TypeOK
  BY TableTypes DEF HashTableInv
<1> QED
  BY <1>1, HashTableAlways, PTL

\* bucketSizes[position]++ and --, a load and a store each, add up to the number of
\* entries whenever no call is at work on the bucket, whoever has added and removed, if
\* no two changes have overlapped.  (Nothing in out-of-enclave keeps a client's set and
\* a worker's remove apart: the run hash_table_counts shows the count go wrong.)
THEOREM SizesAddUp == Spec /\ []NoClash => []SizesMatch
<1>1. HashTableInv => SizesMatch
  BY TableSizes DEF HashTableInv
<1> QED
  BY <1>1, HashTableAlways, PTL

\* A key is in the table once if nobody calls `set' for a key it has not asked for and no
\* two changes of a bucket overlap, though `set' does not compare the last entry with it.
THEOREM KeysAreUnique == AsksFirst => (Spec /\ []NoClash => []KeysUnique)
<1>1. ASSUME AsksFirst PROVE Spec /\ []NoClash => []KeysUnique
  <2>1. HashTableInv => KeysUnique
    BY <1>1, TableKeys DEF HashTableInv
  <2> QED
    BY <1>1, <2>1, HashTableAlways, PTL
<1> QED
  BY <1>1

-----------------------------------------------------------------------------
(* HashTable implements KeyedTable.                                        *)

\* A chain has an entry with key k and value v.
Holds(chain, nodes, k, v) ==
  \E p \in 1..Len(chain[hash(k)]) :
    nodes[chain[hash(k)][p]].key = k /\ nodes[chain[hash(k)][p]].value = v

\* Following the pointers finds what the chains hold.
LookupFinds ==
  \A chain : TableInv(chain) =>
    \A k \in Key :
      /\ \A v : Holds(chain, node, k, v) => Lookup(k) = v /\ v \in Value
      /\ (\A v : ~Holds(chain, node, k, v)) => Lookup(k) = Null

LEMMA LookupCorrect ==
  ASSUME AsksFirst
  PROVE  LookupFinds
<1>1. SUFFICES ASSUME NEW chain, TableInv(chain), NEW k \in Key
               PROVE  /\ \A v : Holds(chain, node, k, v) => Lookup(k) = v /\ v \in Value
                      /\ (\A v : ~Holds(chain, node, k, v)) => Lookup(k) = Null
  BY DEF LookupFinds
<1>2. PICK b \in Bucket : b = hash(k)
  BY BucketOfKey
<1> DEFINE s == chain[b]
           at == {n \in Positions(b) : node[Chain(b)[n]].key = k}
<1>3. Lookup(k) = IF at = {} THEN Null ELSE node[Chain(b)[Min(at)]].value
  BY <1>2 DEF Lookup
<1>4. /\ Len(s) \in Nat /\ Positions(b) = 0..(Len(s) - 1)
      /\ \A n \in Positions(b) : n + 1 \in 1..Len(s) /\ Chain(b)[n] = s[n + 1]
  BY <1>1, PositionsAre
<1>5. ASSUME NEW p \in 1..Len(s), node[s[p]].key = k
      PROVE  Lookup(k) = node[s[p]].value /\ node[s[p]].value \in Value
  <2>1. p - 1 \in Positions(b) /\ p - 1 + 1 = p /\ p - 1 \in Int
    BY <1>4
  <2>2. p - 1 \in at
    BY <1>4, <1>5, <2>1
  <2>3. ASSUME NEW n \in at
        PROVE  n = p - 1
    <3>1. n \in Positions(b) /\ n \in Int /\ n + 1 \in 1..Len(s) /\ node[s[n + 1]].key = k
      BY <1>4
    <3>2. n + 1 = p
      BY <1>1, <1>5, <3>1 DEF TableInv, KeysOnce
    <3> QED
      BY <3>1, <3>2
  <2> HIDE DEF at
  <2>4. Min(at) = p - 1
    <3>1. \A x \in at : \A y \in at : x <= y
      BY <2>1, <2>3
    <3>2. \E x \in at : \A y \in at : x <= y
      BY <2>2, <3>1
    <3>3. Min(at) \in at
      BY <3>2 DEF Min
    <3> QED
      BY <2>3, <3>3
  <2>5. Chain(b)[p - 1] = s[p]
    BY <1>4, <2>1
  <2>6. Lookup(k) = node[s[p]].value
    BY <1>3, <2>2, <2>4, <2>5
  <2>7. node[s[p]].value \in Value
    BY <1>1, InChain
  <2> QED
    BY <2>6, <2>7
<1>6. ASSUME NEW v, Holds(chain, node, k, v)
      PROVE  Lookup(k) = v /\ v \in Value
  <2>1. PICK p \in 1..Len(s) : node[s[p]].key = k /\ node[s[p]].value = v
    BY <1>2, <1>6 DEF Holds
  <2> QED
    BY <1>5, <2>1
<1>7. ASSUME \A v : ~Holds(chain, node, k, v)
      PROVE  Lookup(k) = Null
  <2>1. ASSUME NEW n \in at PROVE FALSE
    <3>1. n + 1 \in 1..Len(s) /\ node[s[n + 1]].key = k
      BY <1>4
    <3>2. Holds(chain, node, k, node[s[n + 1]].value)
      BY <1>2, <3>1 DEF Holds
    <3> QED
      BY <1>7, <3>2
  <2>2. at = {}
    BY <2>1
  <2> HIDE DEF at
  <2> QED
    BY <1>3, <2>2
<1> QED
  BY <1>6, <1>7

LEMMA LookupCorrectNext ==
  ASSUME AsksFirst
  PROVE  LookupFinds /\ LookupFinds'
<1>1. LookupFinds
  BY LookupCorrect
<1> QED
  BY <1>1, PTL

\* What is found is the same if the chains hold the same.
LEMMA SameLookup ==
  ASSUME AsksFirst, NEW chain, NEW new, TableInv(chain), TableInv(new)', NEW k \in Key,
         \A v : Holds(new, node', k, v) <=> Holds(chain, node, k, v)
  PROVE  Lookup(k)' = Lookup(k)
<1>1. /\ \A v : Holds(chain, node, k, v) => Lookup(k) = v
      /\ (\A v : ~Holds(chain, node, k, v)) => Lookup(k) = Null
      /\ \A v : Holds(new, node', k, v) => Lookup(k)' = v
      /\ (\A v : ~Holds(new, node', k, v)) => Lookup(k)' = Null
  BY LookupCorrectNext DEF LookupFinds
<1>2. CASE \E v : Holds(chain, node, k, v)
  <2>1. PICK v : Holds(chain, node, k, v)
    BY <1>2
  <2>2. Holds(new, node', k, v)
    BY <2>1
  <2> QED
    BY <1>1, <2>1, <2>2
<1>3. CASE \A v : ~Holds(chain, node, k, v)
  <2>1. \A v : ~Holds(new, node', k, v)
    BY <1>3
  <2> QED
    BY <1>1, <1>3, <2>1
<1> QED
  BY <1>2, <1>3

LEMMA KeepsContent ==
  ASSUME AsksFirst, NEW chain, TableInv(chain), TableInv(chain)', Keeps(chain)
  PROVE  \A k \in Key : Lookup(k)' = Lookup(k)
<1>1. SUFFICES ASSUME NEW k \in Key PROVE Lookup(k)' = Lookup(k)
  OBVIOUS
<1>2. \A v : Holds(chain, node', k, v) <=> Holds(chain, node, k, v)
  BY BucketOfKey DEF Holds, Keeps
<1> QED
  BY <1>2, SameLookup

LEMMA LinkedContent ==
  ASSUME AsksFirst, NEW chain, NEW new, TableInv(chain), TableInv(new)', NEW th \in Thread,
         thread[th].step = "link", Linked(chain, new, th),
         NEW key, key = thread[th].key, NEW value, value = thread[th].value
  PROVE  /\ thread[th].op = "add" /\ value \in Value /\ key \in Key
         /\ Lookup(key) = Null /\ Lookup(key)' = value
         /\ \A k \in Key : k # key => Lookup(k)' = Lookup(k)
<1> DEFINE old == thread[th]
<1>1. PICK a : a = old.target
  OBVIOUS
<1>2. PICK b \in Bucket : b = BucketOf(th)
  BY ThreadType
<1>3. PICK s \in Seq(Node) : s = chain[b]
  BY <1>2, ThreadType
<1>4. /\ key \in Key /\ hash(key) = b
      /\ [thread |-> th, op |-> old.op, key |-> key] \in Calls
  BY <1>2, ThreadType DEF BucketOf
<1>5. Adds(old, s, node) /\ a \in Node
  BY <1>1, <1>2, <1>3, SetKnows
<1>6. old.op = "add" /\ value \in Value /\ Absent(s, node, key, Len(s) + 1)
  BY <1>4, <1>5 DEF Adds, AsksFirst
<1>7. /\ new = [chain EXCEPT ![b] = Append(s, a)] /\ KeepsData(chain)
      /\ node'[a].key = key /\ node'[a].value = value
  BY <1>1, <1>2, <1>3 DEF Linked, TableInv, Shape
<1>8. PICK t : t = Append(s, a)
  OBVIOUS
<1>9. new[b] = t /\ \A c \in Bucket : c # b => new[c] = chain[c]
  BY <1>7, <1>8 DEF TableInv, Shape
<1>10. /\ Len(s) \in Nat /\ Len(t) = Len(s) + 1 /\ t[Len(s) + 1] = a
      /\ \A p \in 1..Len(s) : t[p] = s[p]
  BY <1>5, <1>8
<1>11. \A p \in 1..Len(s) :
         node'[s[p]].key = node[s[p]].key /\ node'[s[p]].value = node[s[p]].value
  BY <1>3, <1>7 DEF KeepsData
<1>12. \A v : ~Holds(chain, node, key, v)
  BY <1>3, <1>4, <1>6, <1>10 DEF Holds, Absent
<1>13. Lookup(key) = Null
  BY <1>4, <1>12, LookupCorrectNext DEF LookupFinds
<1>14. Holds(new, node', key, value)
  <2>1. Len(s) + 1 \in 1..Len(t)
    BY <1>10
  <2> QED
    BY <1>4, <1>7, <1>9, <1>10, <2>1 DEF Holds
<1>15. Lookup(key)' = value
  <2>1. \A k \in Key : \A v : Holds(new, node', k, v) => Lookup(k)' = v
    BY LookupCorrectNext DEF LookupFinds
  <2> QED
    BY <1>4, <1>14, <2>1
<1>16. ASSUME NEW k \in Key, k # key
       PROVE  Lookup(k)' = Lookup(k)
  <2>1. ASSUME NEW v
        PROVE  Holds(new, node', k, v) <=> Holds(chain, node, k, v)
    <3>1. CASE hash(k) # b
      <4>1. PICK c \in Bucket : c = hash(k)
        BY BucketOfKey
      <4>2. new[c] = chain[c]
        BY <1>9, <3>1, <4>1
      <4>3. \A p \in 1..Len(chain[c]) :
              /\ node'[chain[c][p]].key = node[chain[c][p]].key
              /\ node'[chain[c][p]].value = node[chain[c][p]].value
        BY <1>7 DEF KeepsData
      <4> QED
        BY <4>1, <4>2, <4>3 DEF Holds
    <3>2. CASE hash(k) = b
      <4>1. Holds(new, node', k, v) <=>
              \E p \in 1..Len(t) : node'[t[p]].key = k /\ node'[t[p]].value = v
        BY <1>9, <3>2 DEF Holds
      <4>2. Holds(chain, node, k, v) <=>
              \E p \in 1..Len(s) : node[s[p]].key = k /\ node[s[p]].value = v
        BY <1>3, <3>2 DEF Holds
      <4>3. \A p \in 1..Len(t) : p \in 1..Len(s) \/ t[p] = a
        BY <1>10
      <4>4. \A p \in 1..Len(s) : p \in 1..Len(t)
        BY <1>10
      <4> QED
        BY <1>7, <1>10, <1>11, <1>16, <4>1, <4>2, <4>3, <4>4
    <3> QED
      BY <3>1, <3>2
  <2> QED
    BY <2>1, SameLookup
<1> QED
  BY <1>4, <1>6, <1>13, <1>15, <1>16

LEMMA UnlinkedContent ==
  ASSUME AsksFirst, NEW chain, NEW new, TableInv(chain), TableInv(new)', NEW th \in Thread,
         thread[th].step = "unlink", Unlinked(chain, new, th),
         NEW key, key = thread[th].key
  PROVE  /\ key \in Key /\ Lookup(key)' = Null
         /\ \A k \in Key : k # key => Lookup(k)' = Lookup(k)
<1>1. PICK b \in Bucket : b = BucketOf(th)
  BY ThreadType
<1>2. PICK s \in Seq(Node) : s = chain[b]
  BY <1>1, ThreadType
<1>3. key \in Key /\ hash(key) = b
  BY <1>1, ThreadType DEF BucketOf
<1>4. PICK p \in 1..Len(s) :
        /\ new = [chain EXCEPT ![b] = Without(s, p)] /\ KeepsData(chain)
        /\ node[s[p]].key = key
  BY <1>1, <1>2 DEF Unlinked, TableInv, Shape
<1>5. PICK t : t = Without(s, p)
  OBVIOUS
<1>6. new[b] = t /\ \A c \in Bucket : c # b => new[c] = chain[c]
  BY <1>4, <1>5 DEF TableInv, Shape
<1>7. /\ Len(s) \in Nat /\ Len(t) = Len(s) - 1
      /\ \A i \in 1..(Len(s) - 1) : t[i] = IF i < p THEN s[i] ELSE s[i + 1]
  <2>1. /\ Len(Without(s, p)) = Len(s) - 1
        /\ \A i \in 1..(Len(s) - 1) : Without(s, p)[i] = IF i < p THEN s[i] ELSE s[i + 1]
    BY WithoutFacts
  <2> QED
    BY <1>5, <2>1
<1>8. \A i \in 1..Len(s) :
         node'[s[i]].key = node[s[i]].key /\ node'[s[i]].value = node[s[i]].value
  BY <1>2, <1>4 DEF KeepsData
<1>9. \A i \in 1..Len(s) : node[s[i]].key = key => i = p
  BY <1>2, <1>4 DEF TableInv, KeysOnce
<1>10. \A i \in 1..Len(t) : \E j \in 1..Len(s) : j # p /\ t[i] = s[j]
  <2> SUFFICES ASSUME NEW i \in 1..Len(t)
               PROVE  \E j \in 1..Len(s) : j # p /\ t[i] = s[j]
    OBVIOUS
  <2>1. CASE i < p
    <3>1. i \in 1..Len(s) /\ i # p /\ t[i] = s[i]
      BY <1>7, <2>1
    <3> QED
      BY <3>1
  <2>2. CASE ~(i < p)
    <3>1. i + 1 \in 1..Len(s) /\ i + 1 # p /\ t[i] = s[i + 1]
      BY <1>7, <2>2
    <3> QED
      BY <3>1
  <2> QED
    BY <2>1, <2>2
<1>11. \A j \in 1..Len(s) : j # p => \E i \in 1..Len(t) : t[i] = s[j]
  <2> SUFFICES ASSUME NEW j \in 1..Len(s), j # p
               PROVE  \E i \in 1..Len(t) : t[i] = s[j]
    OBVIOUS
  <2>1. CASE j < p
    <3>1. j \in 1..Len(t) /\ t[j] = s[j]
      BY <1>7, <2>1
    <3> QED
      BY <3>1
  <2>2. CASE ~(j < p)
    <3>1. j - 1 \in 1..Len(t) /\ ~(j - 1 < p) /\ j - 1 + 1 = j
      BY <1>7, <2>2
    <3>2. t[j - 1] = s[j - 1 + 1]
      BY <1>7, <3>1
    <3> QED
      BY <3>1, <3>2
  <2> QED
    BY <2>1, <2>2
<1>12. Lookup(key)' = Null
  <2>1. ASSUME NEW v, Holds(new, node', key, v)
        PROVE  FALSE
    <3>1. PICK i \in 1..Len(t) : node'[t[i]].key = key
      BY <1>3, <1>6, <2>1 DEF Holds
    <3> QED
      BY <1>8, <1>9, <1>10, <3>1
  <2>2. \A k \in Key : (\A v : ~Holds(new, node', k, v)) => Lookup(k)' = Null
    BY LookupCorrectNext DEF LookupFinds
  <2> QED
    BY <1>3, <2>1, <2>2
<1>13. ASSUME NEW k \in Key, k # key
       PROVE  Lookup(k)' = Lookup(k)
  <2>1. ASSUME NEW v
        PROVE  Holds(new, node', k, v) <=> Holds(chain, node, k, v)
    <3>1. CASE hash(k) # b
      <4>1. PICK c \in Bucket : c = hash(k)
        BY BucketOfKey
      <4>2. new[c] = chain[c]
        BY <1>6, <3>1, <4>1
      <4>3. \A i \in 1..Len(chain[c]) :
              /\ node'[chain[c][i]].key = node[chain[c][i]].key
              /\ node'[chain[c][i]].value = node[chain[c][i]].value
        BY <1>4 DEF KeepsData
      <4> QED
        BY <4>1, <4>2, <4>3 DEF Holds
    <3>2. CASE hash(k) = b
      <4>1. Holds(new, node', k, v) <=>
              \E i \in 1..Len(t) : node'[t[i]].key = k /\ node'[t[i]].value = v
        BY <1>6, <3>2 DEF Holds
      <4>2. Holds(chain, node, k, v) <=>
              \E i \in 1..Len(s) : node[s[i]].key = k /\ node[s[i]].value = v
        BY <1>2, <3>2 DEF Holds
      <4>3. ASSUME Holds(new, node', k, v) PROVE Holds(chain, node, k, v)
        <5>1. PICK i \in 1..Len(t) : node'[t[i]].key = k /\ node'[t[i]].value = v
          BY <4>1, <4>3
        <5>2. PICK j \in 1..Len(s) : t[i] = s[j]
          BY <1>10
        <5> QED
          BY <1>8, <4>2, <5>1, <5>2
      <4>4. ASSUME Holds(chain, node, k, v) PROVE Holds(new, node', k, v)
        <5>1. PICK j \in 1..Len(s) : node[s[j]].key = k /\ node[s[j]].value = v
          BY <4>2, <4>4
        <5>2. PICK i \in 1..Len(t) : t[i] = s[j]
          BY <1>4, <1>11, <1>13, <5>1
        <5> QED
          BY <1>8, <4>1, <5>1, <5>2
      <4> QED
        BY <4>3, <4>4
    <3> QED
      BY <3>1, <3>2
  <2> QED
    BY <2>1, SameLookup
<1> QED
  BY <1>3, <1>12, <1>13

\* A reader that has come to the end without finding its key, or stands before it.
LEMMA AbsentLookup ==
  ASSUME AsksFirst, NEW chain, TableInv(chain), NEW th \in Thread, thread[th].step # "idle",
         Absent(chain[BucketOf(th)], node, thread[th].key, Len(chain[BucketOf(th)]) + 1)
  PROVE  Lookup(thread[th].key) = Null
<1>1. /\ thread[th].key \in Key /\ hash(thread[th].key) = BucketOf(th)
      /\ chain[BucketOf(th)] \in Seq(Node)
  BY ThreadType DEF BucketOf
<1>2. \A v : ~Holds(chain, node, thread[th].key, v)
  BY <1>1 DEF Holds, Absent
<1> QED
  BY <1>1, <1>2, LookupCorrectNext DEF LookupFinds

LEMMA FoundLookup ==
  ASSUME AsksFirst, NEW chain, TableInv(chain), NEW th \in Thread, thread[th].step # "idle",
         NEW p \in 1..Len(chain[BucketOf(th)]),
         node[chain[BucketOf(th)][p]].key = thread[th].key
  PROVE  /\ Lookup(thread[th].key) = node[chain[BucketOf(th)][p]].value
         /\ Lookup(thread[th].key) \in Value
<1>1. thread[th].key \in Key /\ hash(thread[th].key) = BucketOf(th)
  BY ThreadType DEF BucketOf
<1>2. Holds(chain, node, thread[th].key, node[chain[BucketOf(th)][p]].value)
  BY <1>1 DEF Holds
<1> QED
  BY <1>1, <1>2, LookupCorrectNext DEF LookupFinds

\* What the table holds and what callers see of their calls.
Content == [k \in Key |-> Lookup(k)]

Effective(me) ==
  \/ me.step \in {"free", "count", "store", "done"}
  \/ me.step \in {"look", "search"} /\ me.entry = Null /\ me.op # "add"

CallOf(me) ==
  [step |-> IF me.step = "idle" THEN "idle" ELSE IF Effective(me) THEN "done" ELSE "called",
   op |-> me.op, key |-> me.key, value |-> me.value, result |-> me.result]

CallsOf == [th \in Thread |-> CallOf(thread[th])]

ExpectedStep == Expected!Next \/ UNCHANGED <<Content, CallsOf>>

LEMMA CallsMapped ==
  CallsOf = [th \in Thread |->
    [step |-> IF thread[th].step = "idle" THEN "idle"
              ELSE IF TookEffect(th) THEN "done" ELSE "called",
     op |-> thread[th].op, key |-> thread[th].key, value |-> thread[th].value,
     result |-> thread[th].result]]
  BY DEF CallsOf, CallOf, Effective, TookEffect, AtEnd

\* The operations of KeyedTable in terms of Content and CallsOf.
LEMMA ExpectedOperations ==
  ASSUME NEW th \in Thread
  PROVE  /\ \A op, k, v : Expected!Begin(th, op, k, v) <=>
              /\ CallsOf[th].step = "idle"
              /\ CallsOf' = [CallsOf EXCEPT ![th] =
                   [step |-> "called", op |-> op, key |-> k, value |-> v, result |-> Null]]
              /\ Content' = Content
         /\ Expected!Get(th) <=>
              /\ CallsOf[th].step = "called" /\ CallsOf[th].op = "get"
              /\ CallsOf' = [CallsOf EXCEPT ![th].step = "done",
                                            ![th].result = Content[CallsOf[th].key]]
              /\ Content' = Content
         /\ Expected!Add(th) <=>
              /\ CallsOf[th].step = "called" /\ CallsOf[th].op = "add"
              /\ CallsOf' = [CallsOf EXCEPT ![th].step = "done",
                                            ![th].result = Content[CallsOf[th].key]]
              /\ Content' = [Content EXCEPT ![CallsOf[th].key] =
                               IF @ = Null THEN CallsOf[th].value ELSE @]
         /\ Expected!Remove(th) <=>
              /\ CallsOf[th].step = "called" /\ CallsOf[th].op = "remove"
              /\ CallsOf' = [CallsOf EXCEPT ![th].step = "done", ![th].result = Null]
              /\ Content' = [Content EXCEPT ![CallsOf[th].key] = Null]
         /\ Expected!Return(th) <=>
              /\ CallsOf[th].step = "done"
              /\ CallsOf' = [CallsOf EXCEPT ![th] = Expected!NoCall]
              /\ Content' = Content
<1>1. CallsOf' = [u \in Thread |->
        [step |-> IF thread[u].step = "idle" THEN "idle"
                  ELSE IF TookEffect(u) THEN "done" ELSE "called",
         op |-> thread[u].op, key |-> thread[u].key, value |-> thread[u].value,
         result |-> thread[u].result]]'
  BY DEF CallsOf, CallOf, Effective, TookEffect, AtEnd
<1> QED
  BY <1>1, CallsMapped
  DEF Content, Expected!Begin, Expected!Get, Expected!Add, Expected!Remove, Expected!Return,
      Expected!Answer, Expected!Calling

LEMMA CallsMove ==
  ASSUME NEW chain, TableInv(chain), NEW th \in Thread, NEW me,
         thread' = [thread EXCEPT ![th] = me]
  PROVE  CallsOf' = [CallsOf EXCEPT ![th] = CallOf(me)] /\ CallsOf[th] = CallOf(thread[th])
<1>1. thread'[th] = me /\ \A u \in Thread : u # th => thread'[u] = thread[u]
  BY DEF TableInv, Shape
<1>2. \A u \in Thread : CallOf(thread'[u]) = IF u = th THEN CallOf(me) ELSE CallOf(thread[u])
  BY <1>1
<1> HIDE DEF CallOf
<1>3. CallsOf' = [u \in Thread |-> CallOf(thread'[u])]
  BY DEF CallsOf
<1> QED
  BY <1>2, <1>3 DEF CallsOf

LEMMA ContentStays ==
  ASSUME \A k \in Key : Lookup(k)' = Lookup(k)
  PROVE  Content' = Content
  BY DEF Content

LEMMA AsStutter ==
  ASSUME NEW chain, TableInv(chain), NEW th \in Thread, NEW me,
         thread' = [thread EXCEPT ![th] = me],
         CallOf(me) = CallOf(thread[th]),
         \A k \in Key : Lookup(k)' = Lookup(k)
  PROVE  ExpectedStep
<1>1. CallsOf' = [CallsOf EXCEPT ![th] = CallsOf[th]]
  BY CallsMove
<1>2. CallsOf' = CallsOf
  BY <1>1 DEF CallsOf
<1> QED
  BY <1>2, ContentStays DEF ExpectedStep

\* The step in which the call of a thread takes effect.
LEMMA AsEffect ==
  ASSUME NEW chain, TableInv(chain), NEW th \in Thread, NEW me \in ThreadState,
         thread' = [thread EXCEPT ![th] = me],
         thread[th].step # "idle", ~Effective(thread[th]),
         me.step # "idle", Effective(me),
         me.op = thread[th].op, me.key = thread[th].key, me.value = thread[th].value,
         NEW key \in Key, key = thread[th].key,
         \A k \in Key : k # key => Lookup(k)' = Lookup(k),
         \/ me.op = "get" /\ me.result = Lookup(key) /\ Lookup(key)' = Lookup(key)
         \/ /\ me.op = "add" /\ me.result = Lookup(key)
            /\ Lookup(key)' = IF Lookup(key) = Null THEN me.value ELSE Lookup(key)
         \/ me.op = "remove" /\ me.result = Null /\ Lookup(key)' = Null
  PROVE  ExpectedStep
<1>1. /\ CallsOf' = [CallsOf EXCEPT ![th] = CallOf(me)]
      /\ CallsOf[th] = CallOf(thread[th]) /\ Content[key] = Lookup(key)
  BY CallsMove DEF Content
<1>2. /\ CallOf(thread[th]) = [step |-> "called", op |-> me.op, key |-> key, value |-> me.value,
                               result |-> thread[th].result]
      /\ CallOf(me) = [step |-> "done", op |-> me.op, key |-> key, value |-> me.value,
                       result |-> me.result]
  BY DEF CallOf
<1>3. /\ CallsOf[th].step = "called" /\ CallsOf[th].op = me.op /\ CallsOf[th].key = key
      /\ CallsOf[th].value = me.value
      /\ CallOf(me) = [CallsOf[th] EXCEPT !.step = "done", !.result = me.result]
  <2> DEFINE before == [step |-> "called", op |-> me.op, key |-> key, value |-> me.value,
                        result |-> thread[th].result]
  <2>1. before.step = "called" /\ before.op = me.op /\ before.key = key /\ before.value = me.value
    OBVIOUS
  <2>2. [before EXCEPT !.step = "done", !.result = me.result] =
          [step |-> "done", op |-> before.op, key |-> before.key, value |-> before.value,
           result |-> me.result]
    <3> DEFINE A == {"called", "done"}
               B == {me.op}
               C == {key}
               D == {me.value}
               E == {thread[th].result, me.result}
    <3>1. /\ before \in [step : A, op : B, key : C, value : D, result : E]
          /\ "done" \in A /\ me.result \in E
      OBVIOUS
    <3> DEFINE changed == [before EXCEPT !.step = "done", !.result = me.result]
               built == [step |-> "done", op |-> before.op, key |-> before.key,
                         value |-> before.value, result |-> me.result]
    <3> HIDE DEF before, A, B, C, D, E
    <3>2. /\ changed.step = "done" /\ changed.op = before.op /\ changed.key = before.key
          /\ changed.value = before.value /\ changed.result = me.result
          /\ changed \in [step : A, op : B, key : C, value : D, result : E]
      BY <3>1
    <3>3. /\ built.step = "done" /\ built.op = before.op /\ built.key = before.key
          /\ built.value = before.value /\ built.result = me.result
          /\ built \in [step : A, op : B, key : C, value : D, result : E]
      BY <3>1
    <3> HIDE DEF changed, built
    <3>4. changed = built
      BY <3>2, <3>3
    <3> QED
      BY <3>4 DEF changed, built
  <2>3. CallsOf[th] = before
    BY <1>1, <1>2
  <2> HIDE DEF before
  <2> QED
    BY <1>2, <2>1, <2>2, <2>3
<1>4. CallsOf' = [CallsOf EXCEPT ![th].step = "done", ![th].result = me.result]
  BY <1>1, <1>3 DEF CallsOf
<1>5. Content' = [Content EXCEPT ![key] = Lookup(key)']
  <2>1. PICK w : w = Lookup(key)'
    OBVIOUS
  <2>2. Content' = [k \in Key |-> Lookup(k)']
    BY DEF Content
  <2>3. \A k \in Key : Lookup(k)' = IF k = key THEN w ELSE Lookup(k)
    BY <2>1
  <2> HIDE DEF Lookup
  <2>4. Content' = [Content EXCEPT ![key] = w]
    BY <2>2, <2>3 DEF Content
  <2> QED
    BY <2>1, <2>4
<1>6. CASE me.op = "get"
  <2>1. me.result = Content[CallsOf[th].key] /\ Content' = Content
    BY <1>1, <1>3, <1>6, ContentStays
  <2>2. Expected!Get(th)
    BY <1>3, <1>4, <1>6, <2>1, ExpectedOperations
  <2> QED
    BY <2>2 DEF ExpectedStep, Expected!Next
<1>7. CASE me.op = "add"
  <2>1. /\ me.result = Content[CallsOf[th].key]
        /\ Content' = [Content EXCEPT ![CallsOf[th].key] =
                         IF @ = Null THEN CallsOf[th].value ELSE @]
    BY <1>1, <1>3, <1>5, <1>7
  <2>2. Expected!Add(th)
    BY <1>3, <1>4, <1>7, <2>1, ExpectedOperations
  <2> QED
    BY <2>2 DEF ExpectedStep, Expected!Next
<1>8. CASE me.op = "remove"
  <2>1. me.result = Null /\ Content' = [Content EXCEPT ![CallsOf[th].key] = Null]
    BY <1>1, <1>3, <1>5, <1>8
  <2>2. Expected!Remove(th)
    BY <1>3, <1>4, <1>8, <2>1, ExpectedOperations
  <2> QED
    BY <2>2 DEF ExpectedStep, Expected!Next
<1> QED
  BY <1>6, <1>7, <1>8

\* A step within a call, before or after it takes effect.
LEMMA AsInside ==
  ASSUME NEW chain, TableInv(chain), NEW th \in Thread, NEW me,
         thread' = [thread EXCEPT ![th] = me],
         thread[th].step # "idle", me.step # "idle",
         me.op = thread[th].op, me.key = thread[th].key, me.value = thread[th].value,
         me.result = thread[th].result,
         Effective(me) <=> Effective(thread[th]),
         \A k \in Key : Lookup(k)' = Lookup(k)
  PROVE  ExpectedStep
<1>1. CallOf(me) = CallOf(thread[th])
  BY DEF CallOf
<1> HIDE DEF CallOf, Effective
<1> QED
  BY <1>1, AsStutter

LEMMA QuietContent ==
  ASSUME AsksFirst, NEW chain, TableInv(chain), TableInv(chain)', UNCHANGED node
  PROVE  \A k \in Key : Lookup(k)' = Lookup(k)
<1>1. Keeps(chain)
  BY DEF Keeps
<1> QED
  BY <1>1, KeepsContent

\* A call that is at work, of a caller who asks first.
LEMMA AskingThread ==
  ASSUME AsksFirst, NEW chain, TableInv(chain), NEW th \in Thread, thread[th].step # "idle"
  PROVE  /\ thread[th] \in ThreadState /\ thread[th].op \in {"get", "add", "remove"}
         /\ thread[th].key \in Key
         /\ chain[BucketOf(th)] \in Seq(Node) /\ BucketOf(th) \in Bucket
         /\ Chained(BucketOf(th), chain[BucketOf(th)], table[BucketOf(th)], node)
         /\ Knows(thread[th], chain[BucketOf(th)], node, sizes[BucketOf(th)], untrusted)
<1> DEFINE call == [thread |-> th, op |-> thread[th].op, key |-> thread[th].key]
<1>1. call \in Calls /\ call.op = thread[th].op
  BY ThreadType
<1>2. thread[th].op # "set"
  BY <1>1 DEF AsksFirst
<1> QED
  BY <1>2, ThreadType DEF ThreadState

LEMMA BeginExpected ==
  ASSUME AsksFirst, NEW chain, TableInv(chain), TableInv(chain)', NEW th \in Thread,
         NEW call \in Calls, Begin(th, call)
  PROVE  ExpectedStep
<1>1. thread[th].step = "idle" /\ UNCHANGED node
  BY DEF Begin, At
<1>2. call.op \in {"get", "add", "remove"} /\ call.key \in Key
  BY CallsAssumption DEF AsksFirst
<1>3. PICK v \in Value \cup {Null}, step \in {"head", "first"} :
        thread' = [thread EXCEPT ![th] =
          [Idle EXCEPT !.op = call.op, !.key = call.key, !.value = v, !.step = step]]
  BY <1>2 DEF Begin
<1> DEFINE me == [Idle EXCEPT !.op = call.op, !.key = call.key, !.value = v, !.step = step]
<1>4. Idle \in ThreadState /\ Idle.result = Null
  BY DEF Idle, ThreadState, Pointer
<1> HIDE DEF Idle
<1>5. me.step = step /\ me.op = call.op /\ me.key = call.key /\ me.value = v /\ me.result = Null
  BY <1>4 DEF ThreadState
<1>6. thread' = [thread EXCEPT ![th] = me]
  BY <1>3
<1> HIDE DEF me
<1>7. CallOf(me) = [step |-> "called", op |-> call.op, key |-> call.key, value |-> v,
                    result |-> Null]
  BY <1>5 DEF CallOf, Effective
<1>8. CallsOf' = [CallsOf EXCEPT ![th] = CallOf(me)] /\ CallsOf[th] = CallOf(thread[th])
  BY <1>6, CallsMove
<1>9. CallsOf[th].step = "idle"
  BY <1>1, <1>8 DEF CallOf
<1>10. Content' = Content
  BY <1>1, QuietContent, ContentStays
<1>11. Expected!Begin(th, call.op, call.key, v)
  <2>1. CallsOf' = [CallsOf EXCEPT ![th] =
          [step |-> "called", op |-> call.op, key |-> call.key, value |-> v, result |-> Null]]
    BY <1>7, <1>8
  <2>2. \A op, k : Expected!Begin(th, op, k, v) <=>
              /\ CallsOf[th].step = "idle"
              /\ CallsOf' = [CallsOf EXCEPT ![th] =
                   [step |-> "called", op |-> op, key |-> k, value |-> v, result |-> Null]]
              /\ Content' = Content
    BY ExpectedOperations
  <2>3. PICK op, k : op = call.op /\ k = call.key
    OBVIOUS
  <2> HIDE DEF CallsOf, Content
  <2>4. Expected!Begin(th, op, k, v)
    BY <1>9, <1>10, <2>1, <2>2, <2>3
  <2> QED
    BY <2>3, <2>4
<1> QED
  BY <1>2, <1>11 DEF ExpectedStep, Expected!Next

LEMMA ReturnExpected ==
  ASSUME AsksFirst, NEW chain, TableInv(chain), TableInv(chain)', NEW th \in Thread, Return(th)
  PROVE  ExpectedStep
<1>1. thread[th].step = "done" /\ UNCHANGED node /\ thread' = [thread EXCEPT ![th] = Idle]
  BY DEF Return, At
<1>2. CallsOf' = [CallsOf EXCEPT ![th] = CallOf(Idle)] /\ CallsOf[th] = CallOf(thread[th])
  BY <1>1, CallsMove
<1>3. CallOf(Idle) = Expected!NoCall
  BY DEF CallOf, Idle, Expected!NoCall
<1>4. CallsOf[th].step = "done"
  BY <1>1, <1>2 DEF CallOf, Effective
<1>5. Content' = Content
  BY <1>1, QuietContent, ContentStays
<1>6. Expected!Return(th)
  BY <1>2, <1>3, <1>4, <1>5, ExpectedOperations
<1> QED
  BY <1>6 DEF ExpectedStep, Expected!Next

\* A search that ends behind the last entry has found nothing.
LEMMA EndOfChain ==
  ASSUME AsksFirst, NEW chain, TableInv(chain), NEW th \in Thread, thread[th].step # "idle",
         NEW p \in 1..(Len(chain[BucketOf(th)]) + 1),
         Absent(chain[BucketOf(th)], node, thread[th].key, p),
         Nth(chain[BucketOf(th)], p) = Null
  PROVE  Lookup(thread[th].key) = Null
<1> DEFINE s == chain[BucketOf(th)]
<1>1. s \in Seq(Node)
  BY ThreadType
<1>2. p = Len(s) + 1
  BY <1>1, NthType
<1> QED
  BY <1>2, AbsentLookup

LEMMA ReadHeadExpected ==
  ASSUME AsksFirst, NEW chain, TableInv(chain), TableInv(chain)', NEW th \in Thread, ReadHead(th)
  PROVE  ExpectedStep
<1> DEFINE old == thread[th]
           s == chain[BucketOf(th)]
           me == [old EXCEPT !.step = "look", !.entry = table[BucketOf(th)]]
<1>1. old.step = "head" /\ UNCHANGED node
  BY DEF ReadHead, At
<1>2. /\ old \in ThreadState /\ old.op \in {"get", "add", "remove"} /\ old.key \in Key
      /\ s \in Seq(Node) /\ BucketOf(th) \in Bucket
      /\ Chained(BucketOf(th), s, table[BucketOf(th)], node)
      /\ Knows(old, s, node, sizes[BucketOf(th)], untrusted)
  BY <1>1, AskingThread
<1>3. table[BucketOf(th)] = Nth(s, 1) /\ table[BucketOf(th)] \in Pointer
  BY <1>2 DEF Chained, TableInv, Shape
<1>4. /\ me \in ThreadState /\ me.step = "look" /\ me.entry = Nth(s, 1)
      /\ me.op = old.op /\ me.key = old.key /\ me.value = old.value /\ me.result = old.result
      /\ thread' = [thread EXCEPT ![th] = me]
  BY <1>2, <1>3 DEF ThreadState, ReadHead, GotoEntry
<1>5. old.op \in {"get", "add"} /\ old.result = Null
  BY <1>1, <1>2 DEF Knows
<1>6. \A k \in Key : Lookup(k)' = Lookup(k)
  BY <1>1, QuietContent
<1> HIDE DEF me
<1>7. ~Effective(old)
  BY <1>1 DEF Effective
<1>8. CASE old.op = "get" /\ Nth(s, 1) = Null
  <2>1. Lookup(old.key) = Null
    <3>1. 1 \in 1..(Len(s) + 1) /\ Absent(s, node, old.key, 1)
      BY <1>2 DEF Absent
    <3> QED
      BY <1>1, <1>8, <3>1, EndOfChain
  <2>2. Effective(me)
    BY <1>4, <1>8 DEF Effective
  <2>3. me.op = "get" /\ me.result = Lookup(old.key) /\ Lookup(old.key) = Null
    BY <1>4, <1>5, <1>8, <2>1
  <2>4. PICK key \in Key : key = thread[th].key
    BY <1>2
  <2>5. me.result = Lookup(key) /\ Lookup(key)' = Lookup(key)
    BY <1>6, <2>3, <2>4
  <2> QED
    BY <1>1, <1>4, <1>6, <1>7, <2>2, <2>3, <2>4, <2>5, AsEffect
<1>9. CASE old.op = "add" \/ Nth(s, 1) # Null
  <2>1. ~Effective(me)
    BY <1>4, <1>9 DEF Effective
  <2> QED
    BY <1>1, <1>4, <1>6, <1>7, <2>1, AsInside
<1> QED
  BY <1>5, <1>8, <1>9

LEMMA LookExpected ==
  ASSUME AsksFirst, NEW chain, TableInv(chain), TableInv(chain)', NEW th \in Thread, Look(th)
  PROVE  ExpectedStep
<1> DEFINE old == thread[th]
           s == chain[BucketOf(th)]
<1>1. old.step = "look" /\ UNCHANGED node
  BY DEF Look, At
<1>2. /\ old \in ThreadState /\ old.op \in {"get", "add", "remove"} /\ old.key \in Key
      /\ s \in Seq(Node) /\ BucketOf(th) \in Bucket
      /\ Knows(old, s, node, sizes[BucketOf(th)], untrusted)
  BY <1>1, AskingThread
<1>3. /\ old.op \in {"get", "add"} /\ old.result = Null
      /\ IF old.op = "get" THEN Reads(old, s, node) ELSE Asks(old, s, node)
  BY <1>1, <1>2 DEF Knows
<1>4. \A p \in 1..Len(s) :
        /\ s[p] \in Node /\ s[p] # Null /\ node[s[p]].value \in Value
        /\ node[s[p]].next = Nth(s, p + 1)
  BY <1>2, InChain
<1>5. \A k \in Key : Lookup(k)' = Lookup(k)
  BY <1>1, QuietContent
<1>6. CASE AtEnd(th) /\ old.op = "get" /\ Finish(th, Null)
  <2> DEFINE me == [old EXCEPT !.step = "done", !.result = Null]
  <2>1. /\ me.step = "done" /\ me.op = old.op /\ me.key = old.key /\ me.value = old.value
        /\ me.result = Null /\ thread' = [thread EXCEPT ![th] = me]
    BY <1>2, <1>6 DEF ThreadState, Finish
  <2> HIDE DEF me
  <2>2. Effective(me) /\ Effective(old)
    BY <1>1, <1>6, <2>1 DEF Effective, AtEnd
  <2> QED
    BY <1>1, <1>3, <1>5, <2>1, <2>2, AsInside
<1>7. CASE AtEnd(th) /\ old.op = "add" /\ Goto(th, "new")
  <2> DEFINE me == [old EXCEPT !.step = "new"]
  <2>1. /\ me.step = "new" /\ me.op = old.op /\ me.key = old.key /\ me.value = old.value
        /\ me.result = old.result /\ thread' = [thread EXCEPT ![th] = me]
    BY <1>2, <1>7 DEF ThreadState, Goto
  <2> HIDE DEF me
  <2>2. ~Effective(me) /\ ~Effective(old)
    BY <1>1, <1>7, <2>1 DEF Effective
  <2> QED
    BY <1>1, <1>5, <2>1, <2>2, AsInside
<1>8. ASSUME ~AtEnd(th)
      PROVE  \E p \in 1..Len(s) :
               old.entry = s[p] /\ Entry(th) = node[s[p]] /\ Absent(s, node, old.key, p)
  BY <1>2, <1>3, <1>8 DEF Reads, Asks, Nth, AtEnd, Entry
<1>9. CASE ~AtEnd(th) /\ Found(th) /\ Finish(th, Entry(th).value)
  <2> DEFINE me == [old EXCEPT !.step = "done", !.result = Entry(th).value]
  <2>1. PICK p \in 1..Len(s) : old.entry = s[p] /\ Entry(th) = node[s[p]]
    BY <1>8, <1>9
  <2>2. node[s[p]].key = old.key /\ node[s[p]].value \in Value
    BY <1>4, <1>9, <2>1 DEF Found
  <2>3. Lookup(old.key) = node[s[p]].value /\ Lookup(old.key) \in Value
    BY <1>1, <2>2, FoundLookup
  <2>4. /\ me \in ThreadState /\ me.step = "done" /\ me.op = old.op /\ me.key = old.key
        /\ me.value = old.value /\ me.result = node[s[p]].value
        /\ thread' = [thread EXCEPT ![th] = me]
    BY <1>2, <1>9, <2>1, <2>2 DEF ThreadState, Finish
  <2> HIDE DEF me
  <2>5. Effective(me) /\ ~Effective(old)
    BY <1>1, <1>9, <2>4 DEF Effective, AtEnd
  <2>6. PICK key \in Key : key = thread[th].key
    BY <1>2
  <2>7. me.result = Lookup(key) /\ Lookup(key)' = Lookup(key) /\ Lookup(key) # Null
    BY <1>5, <2>3, <2>4, <2>6, NullAssumption
  <2>8. \/ me.op = "get" /\ me.result = Lookup(key) /\ Lookup(key)' = Lookup(key)
        \/ /\ me.op = "add" /\ me.result = Lookup(key)
           /\ Lookup(key)' = IF Lookup(key) = Null THEN me.value ELSE Lookup(key)
    BY <1>3, <2>4, <2>7
  <2> QED
    BY <1>1, <1>5, <2>4, <2>5, <2>6, <2>8, AsEffect
<1>10. CASE ~AtEnd(th) /\ ~Found(th) /\ GotoEntry(th, "look", Entry(th).next)
  <2> DEFINE me == [old EXCEPT !.step = "look", !.entry = Entry(th).next]
  <2>1. PICK p \in 1..Len(s) :
          old.entry = s[p] /\ Entry(th) = node[s[p]] /\ Absent(s, node, old.key, p)
    BY <1>8, <1>10
  <2>2. node[s[p]].key # old.key
    BY <1>10, <2>1 DEF Found
  <2>3. Entry(th).next = Nth(s, p + 1) /\ Nth(s, p + 1) \in Pointer
    BY <1>2, <1>4, <2>1, NthType
  <2>4. /\ me \in ThreadState /\ me.step = "look" /\ me.op = old.op /\ me.key = old.key
        /\ me.value = old.value /\ me.result = old.result /\ me.entry = Nth(s, p + 1)
        /\ thread' = [thread EXCEPT ![th] = me]
    BY <1>2, <1>10, <2>3 DEF ThreadState, GotoEntry
  <2> HIDE DEF me
  <2>5. Absent(s, node, old.key, p + 1) /\ p + 1 \in 1..(Len(s) + 1)
    BY <1>2, <2>1, <2>2 DEF Absent
  <2>6. ~Effective(old)
    BY <1>1, <1>10 DEF Effective, AtEnd
  <2>7. CASE old.op = "get" /\ Nth(s, p + 1) = Null
    <3>1. Lookup(old.key) = Null
      BY <1>1, <2>5, <2>7, EndOfChain
    <3>2. Effective(me)
      BY <2>4, <2>7 DEF Effective
    <3>3. PICK key \in Key : key = thread[th].key
      BY <1>2
    <3>4. me.op = "get" /\ me.result = Lookup(key) /\ Lookup(key)' = Lookup(key)
      BY <1>3, <1>5, <2>4, <2>7, <3>1, <3>3
    <3> QED
      BY <1>1, <1>5, <2>4, <2>6, <3>2, <3>3, <3>4, AsEffect
  <2>8. CASE old.op = "add" \/ Nth(s, p + 1) # Null
    <3>1. ~Effective(me)
      BY <2>4, <2>8 DEF Effective
    <3> QED
      BY <1>1, <1>5, <2>4, <2>6, <3>1, AsInside
  <2> QED
    BY <1>3, <2>7, <2>8
<1> QED
  BY <1>6, <1>7, <1>9, <1>10 DEF Look, old

LEMMA NewExpected ==
  ASSUME AsksFirst, NEW chain, TableInv(chain), TableInv(chain)', Keeps(chain),
         NEW th \in Thread, New(th)
  PROVE  ExpectedStep
<1> DEFINE old == thread[th]
<1>1. old.step = "new" /\ old \in ThreadState
  BY ThreadType DEF New, At
<1> DEFINE first == table[BucketOf(th)]
           step == IF first = Null THEN "link" ELSE "walk"
<1>2. PICK a \in Free :
        thread' = [thread EXCEPT ![th].target = a, ![th].entry = first, ![th].step = step]
  BY DEF New
<1>3. step \in {"link", "walk"}
  OBVIOUS
<1> HIDE DEF step, first
<1> DEFINE me == [old EXCEPT !.target = a, !.entry = first, !.step = step]
<1>4. /\ me.step = step /\ me.op = old.op /\ me.key = old.key /\ me.value = old.value
      /\ me.result = old.result /\ thread' = [thread EXCEPT ![th] = me]
  BY <1>1, <1>2 DEF ThreadState
<1> HIDE DEF me
<1>5. ~Effective(me) /\ ~Effective(old) /\ me.step # "idle"
  BY <1>1, <1>3, <1>4 DEF Effective
<1> QED
  BY <1>1, <1>4, <1>5, KeepsContent, AsInside

LEMMA WalkExpected ==
  ASSUME AsksFirst, NEW chain, TableInv(chain), TableInv(chain)', Keeps(chain),
         NEW th \in Thread, Walk(th)
  PROVE  ExpectedStep
<1> DEFINE old == thread[th]
           s == chain[BucketOf(th)]
<1>1. old.step = "walk"
  BY DEF Walk, At
<1>2. /\ old \in ThreadState /\ old.op \in {"get", "add", "remove"} /\ s \in Seq(Node)
      /\ Knows(old, s, node, sizes[BucketOf(th)], untrusted)
  BY <1>1, AskingThread
<1>3. ~Found(th)
  <2>1. PICK p \in 1..Len(s) : old.entry = s[p]
    BY <1>1, <1>2 DEF Knows
  <2>2. Adds(old, s, node)
    BY <1>1, <1>2 DEF Knows
  <2>3. Absent(s, node, old.key, Len(s) + 1)
    BY <1>2, <2>2 DEF Adds
  <2>4. p < Len(s) + 1
    BY <1>2
  <2>5. node[s[p]].key # old.key
    BY <2>3, <2>4 DEF Absent
  <2> QED
    BY <2>1, <2>5 DEF Found, Entry
<1>4. PICK step \in {"link", "advance"} : Goto(th, step)
  BY <1>3 DEF Walk
<1> DEFINE me == [old EXCEPT !.step = step]
<1>5. /\ me.step = step /\ me.op = old.op /\ me.key = old.key /\ me.value = old.value
      /\ me.result = old.result /\ thread' = [thread EXCEPT ![th] = me]
  BY <1>2, <1>4 DEF ThreadState, Goto
<1> HIDE DEF me
<1>6. ~Effective(me) /\ ~Effective(old)
  BY <1>1, <1>5 DEF Effective
<1> QED
  BY <1>1, <1>5, <1>6, KeepsContent, AsInside

LEMMA AdvanceExpected ==
  ASSUME AsksFirst, NEW chain, TableInv(chain), TableInv(chain)', NEW th \in Thread, Advance(th)
  PROVE  ExpectedStep
<1> DEFINE old == thread[th]
           me == [old EXCEPT !.step = "walk", !.entry = Entry(th).next]
<1>1. old.step = "advance" /\ old \in ThreadState /\ UNCHANGED node
  BY ThreadType DEF Advance, At
<1>2. /\ me.step = "walk" /\ me.op = old.op /\ me.key = old.key /\ me.value = old.value
      /\ me.result = old.result /\ thread' = [thread EXCEPT ![th] = me]
  BY <1>1 DEF ThreadState, Advance, GotoEntry
<1> HIDE DEF me
<1>3. ~Effective(me) /\ ~Effective(old)
  BY <1>1, <1>2 DEF Effective
<1> QED
  BY <1>1, <1>2, <1>3, QuietContent, AsInside

LEMMA LinkExpected ==
  ASSUME AsksFirst, NEW chain, NEW new, TableInv(chain), TableInv(new)', NEW th \in Thread,
         Link(th), Linked(chain, new, th)
  PROVE  ExpectedStep
<1> DEFINE old == thread[th]
           step == Counted
           me == [old EXCEPT !.step = step]
<1>1. old.step = "link" /\ step \in {"count", "done"}
  BY DEF Link, At, Counted
<1>2. /\ old \in ThreadState
      /\ Knows(old, chain[BucketOf(th)], node, sizes[BucketOf(th)], untrusted)
  BY <1>1, AskingThread
<1>3. thread' = [thread EXCEPT ![th].step = step]
  BY DEF Link, Goto
<1> HIDE DEF step
<1>4. /\ me \in ThreadState /\ me.step = step /\ me.op = old.op /\ me.key = old.key
      /\ me.value = old.value /\ me.result = old.result /\ thread' = [thread EXCEPT ![th] = me]
  BY <1>1, <1>2, <1>3 DEF ThreadState
<1> HIDE DEF me
<1>5. old.result = Null
  BY <1>1, <1>2 DEF Knows
<1>6. PICK key, value : key = thread[th].key /\ value = thread[th].value
  OBVIOUS
<1>7. /\ old.op = "add" /\ value \in Value /\ key \in Key
      /\ Lookup(key) = Null /\ Lookup(key)' = value
      /\ \A k \in Key : k # key => Lookup(k)' = Lookup(k)
  BY <1>1, <1>6, LinkedContent
<1>8. Effective(me) /\ ~Effective(old) /\ me.step # "idle"
  BY <1>1, <1>4 DEF Effective
<1>9. /\ me.op = "add" /\ me.result = Lookup(key)
      /\ Lookup(key)' = IF Lookup(key) = Null THEN me.value ELSE Lookup(key)
  BY <1>4, <1>5, <1>6, <1>7
<1> QED
  BY <1>1, <1>4, <1>6, <1>7, <1>8, <1>9, AsEffect

LEMMA FirstExpected ==
  ASSUME AsksFirst, NEW chain, TableInv(chain), TableInv(chain)', NEW th \in Thread, First(th)
  PROVE  ExpectedStep
<1> DEFINE old == thread[th]
           s == chain[BucketOf(th)]
           me == [old EXCEPT !.step = "search", !.entry = table[BucketOf(th)]]
<1>1. old.step = "first" /\ UNCHANGED node
  BY DEF First, At
<1>2. /\ old \in ThreadState /\ old.key \in Key /\ s \in Seq(Node) /\ BucketOf(th) \in Bucket
      /\ Chained(BucketOf(th), s, table[BucketOf(th)], node)
      /\ Knows(old, s, node, sizes[BucketOf(th)], untrusted)
  BY <1>1, AskingThread
<1>3. table[BucketOf(th)] = Nth(s, 1) /\ table[BucketOf(th)] \in Pointer
  BY <1>2 DEF Chained, TableInv, Shape
<1>4. /\ me \in ThreadState /\ me.step = "search" /\ me.entry = Nth(s, 1)
      /\ me.op = old.op /\ me.key = old.key /\ me.value = old.value /\ me.result = old.result
      /\ thread' = [thread EXCEPT ![th] = me]
  BY <1>2, <1>3 DEF ThreadState, First, GotoEntry
<1>5. old.op = "remove" /\ old.result = Null
  BY <1>1, <1>2 DEF Knows
<1>6. \A k \in Key : Lookup(k)' = Lookup(k)
  BY <1>1, QuietContent
<1> HIDE DEF me
<1>7. ~Effective(old)
  BY <1>1 DEF Effective
<1>8. CASE Nth(s, 1) = Null
  <2>1. Lookup(old.key) = Null
    <3>1. 1 \in 1..(Len(s) + 1) /\ Absent(s, node, old.key, 1)
      BY <1>2 DEF Absent
    <3> QED
      BY <1>1, <1>8, <3>1, EndOfChain
  <2>2. Effective(me)
    BY <1>4, <1>5, <1>8 DEF Effective
  <2>3. PICK key \in Key : key = thread[th].key
    BY <1>2
  <2>4. me.op = "remove" /\ me.result = Null /\ Lookup(key)' = Null
    BY <1>4, <1>5, <1>6, <2>1, <2>3
  <2> QED
    BY <1>1, <1>4, <1>6, <1>7, <2>2, <2>3, <2>4, AsEffect
<1>9. CASE Nth(s, 1) # Null
  <2>1. ~Effective(me)
    BY <1>4, <1>9 DEF Effective
  <2> QED
    BY <1>1, <1>4, <1>6, <1>7, <2>1, AsInside
<1> QED
  BY <1>8, <1>9

LEMMA SearchExpected ==
  ASSUME AsksFirst, NEW chain, TableInv(chain), TableInv(chain)', NEW th \in Thread, Search(th)
  PROVE  ExpectedStep
<1> DEFINE old == thread[th]
           s == chain[BucketOf(th)]
<1>1. old.step = "search" /\ UNCHANGED node
  BY DEF Search, At
<1>2. /\ old \in ThreadState /\ old.key \in Key /\ s \in Seq(Node) /\ BucketOf(th) \in Bucket
      /\ Knows(old, s, node, sizes[BucketOf(th)], untrusted)
  BY <1>1, AskingThread
<1>3. old.op = "remove" /\ old.result = Null /\ Searches(old, s, node)
  BY <1>1, <1>2 DEF Knows
<1>4. \A p \in 1..Len(s) : s[p] \in Node /\ s[p] # Null /\ node[s[p]].next = Nth(s, p + 1)
  BY <1>2, InChain
<1>5. \A k \in Key : Lookup(k)' = Lookup(k)
  BY <1>1, QuietContent
<1>6. CASE AtEnd(th) /\ Finish(th, Null)
  <2> DEFINE me == [old EXCEPT !.step = "done", !.result = Null]
  <2>1. /\ me.step = "done" /\ me.op = old.op /\ me.key = old.key /\ me.value = old.value
        /\ me.result = Null /\ thread' = [thread EXCEPT ![th] = me]
    BY <1>2, <1>6 DEF ThreadState, Finish
  <2> HIDE DEF me
  <2>2. Effective(me) /\ Effective(old)
    BY <1>1, <1>3, <1>6, <2>1 DEF Effective, AtEnd
  <2> QED
    BY <1>1, <1>3, <1>5, <2>1, <2>2, AsInside
<1>7. CASE /\ ~AtEnd(th)
           /\ thread' = [thread EXCEPT ![th].step = "unlink", ![th].target = Entry(th).next]
  <2> DEFINE me == [old EXCEPT !.step = "unlink", !.target = Entry(th).next]
  <2>1. /\ me.step = "unlink" /\ me.op = old.op /\ me.key = old.key /\ me.value = old.value
        /\ me.result = old.result /\ thread' = [thread EXCEPT ![th] = me]
    BY <1>2, <1>7 DEF ThreadState
  <2> HIDE DEF me
  <2>2. ~Effective(me) /\ ~Effective(old)
    BY <1>1, <1>7, <2>1 DEF Effective, AtEnd
  <2> QED
    BY <1>1, <1>5, <2>1, <2>2, AsInside
<1>8. CASE /\ ~AtEnd(th) /\ ~Found(th)
           /\ thread' = [thread EXCEPT ![th].prev = old.entry, ![th].entry = Entry(th).next]
  <2> DEFINE me == [old EXCEPT !.prev = old.entry, !.entry = Entry(th).next]
  <2>1. PICK p \in 1..Len(s) :
          old.entry = s[p] /\ Entry(th) = node[s[p]] /\ Absent(s, node, old.key, p)
    BY <1>2, <1>3, <1>8 DEF Searches, Nth, AtEnd, Entry
  <2>2. node[s[p]].key # old.key
    BY <1>8, <2>1 DEF Found
  <2>3. Entry(th).next = Nth(s, p + 1) /\ Nth(s, p + 1) \in Pointer
    BY <1>2, <1>4, <2>1, NthType
  <2>4. /\ me \in ThreadState /\ me.step = "search" /\ me.op = old.op /\ me.key = old.key
        /\ me.value = old.value /\ me.result = old.result /\ me.entry = Nth(s, p + 1)
        /\ thread' = [thread EXCEPT ![th] = me]
    BY <1>1, <1>2, <1>8, <2>3 DEF ThreadState
  <2> HIDE DEF me
  <2>5. Absent(s, node, old.key, p + 1) /\ p + 1 \in 1..(Len(s) + 1)
    BY <1>2, <2>1, <2>2 DEF Absent
  <2>6. ~Effective(old)
    BY <1>1, <1>8 DEF Effective, AtEnd
  <2>7. CASE Nth(s, p + 1) = Null
    <3>1. Lookup(old.key) = Null
      BY <1>1, <2>5, <2>7, EndOfChain
    <3>2. Effective(me)
      BY <1>3, <2>4, <2>7 DEF Effective
    <3>3. PICK key \in Key : key = thread[th].key
      BY <1>2
    <3>4. me.op = "remove" /\ me.result = Null /\ Lookup(key)' = Null
      BY <1>3, <1>5, <2>4, <3>1, <3>3
    <3> QED
      BY <1>1, <1>5, <2>4, <2>6, <3>2, <3>3, <3>4, AsEffect
  <2>8. CASE Nth(s, p + 1) # Null
    <3>1. ~Effective(me)
      BY <2>4, <2>8 DEF Effective
    <3> QED
      BY <1>1, <1>5, <2>4, <2>6, <3>1, AsInside
  <2> QED
    BY <2>7, <2>8
<1> QED
  BY <1>6, <1>7, <1>8 DEF Search, old

LEMMA UnlinkExpected ==
  ASSUME AsksFirst, NEW chain, NEW new, TableInv(chain), TableInv(new)', NEW th \in Thread,
         Unlink(th), Unlinked(chain, new, th)
  PROVE  ExpectedStep
<1> DEFINE old == thread[th]
           step == IF untrusted THEN "count" ELSE "free"
           me == [old EXCEPT !.step = step]
<1>1. old.step = "unlink" /\ step \in {"count", "free"}
  BY DEF Unlink, At
<1>2. /\ old \in ThreadState
      /\ Knows(old, chain[BucketOf(th)], node, sizes[BucketOf(th)], untrusted)
  BY <1>1, AskingThread
<1>3. thread' = [thread EXCEPT ![th].step = step]
  BY DEF Unlink, Goto
<1> HIDE DEF step
<1>4. /\ me \in ThreadState /\ me.step = step /\ me.op = old.op /\ me.key = old.key
      /\ me.value = old.value /\ me.result = old.result /\ thread' = [thread EXCEPT ![th] = me]
  BY <1>1, <1>2, <1>3 DEF ThreadState
<1> HIDE DEF me
<1>5. old.op = "remove" /\ old.result = Null
  BY <1>1, <1>2 DEF Knows
<1>6. PICK key : key = thread[th].key
  OBVIOUS
<1>7. /\ key \in Key /\ Lookup(key)' = Null
      /\ \A k \in Key : k # key => Lookup(k)' = Lookup(k)
  BY <1>1, <1>6, UnlinkedContent
<1>8. Effective(me) /\ ~Effective(old) /\ me.step # "idle"
  BY <1>1, <1>4 DEF Effective
<1>9. me.op = "remove" /\ me.result = Null /\ Lookup(key)' = Null
  BY <1>4, <1>5, <1>7
<1> QED
  BY <1>1, <1>4, <1>6, <1>7, <1>8, <1>9, AsEffect

LEMMA DeleteExpected ==
  ASSUME AsksFirst, NEW chain, TableInv(chain), TableInv(chain)', Keeps(chain),
         NEW th \in Thread, Delete(th)
  PROVE  ExpectedStep
<1> DEFINE old == thread[th]
           me == [old EXCEPT !.step = "done", !.result = Null]
<1>1. old.step = "free"
  BY DEF Delete, At
<1>2. /\ old \in ThreadState
      /\ Knows(old, chain[BucketOf(th)], node, sizes[BucketOf(th)], untrusted)
  BY <1>1, AskingThread
<1>3. /\ me.step = "done" /\ me.op = old.op /\ me.key = old.key /\ me.value = old.value
      /\ me.result = Null /\ thread' = [thread EXCEPT ![th] = me]
  BY <1>2 DEF ThreadState, Delete, Finish
<1>4. old.result = Null
  BY <1>1, <1>2 DEF Knows
<1> HIDE DEF me
<1>5. Effective(me) /\ Effective(old)
  BY <1>1, <1>3 DEF Effective
<1> QED
  BY <1>1, <1>3, <1>4, <1>5, KeepsContent, AsInside

LEMMA LoadSizeExpected ==
  ASSUME AsksFirst, NEW chain, TableInv(chain), TableInv(chain)', NEW th \in Thread, LoadSize(th)
  PROVE  ExpectedStep
<1> DEFINE old == thread[th]
           me == [old EXCEPT !.step = "store", !.size = sizes[BucketOf(th)]]
<1>1. old.step = "count" /\ UNCHANGED node
  BY DEF LoadSize, At
<1>2. old \in ThreadState
  BY <1>1, AskingThread
<1>3. /\ me.step = "store" /\ me.op = old.op /\ me.key = old.key /\ me.value = old.value
      /\ me.result = old.result /\ thread' = [thread EXCEPT ![th] = me]
  BY <1>2 DEF ThreadState, LoadSize
<1> HIDE DEF me
<1>4. Effective(me) /\ Effective(old)
  BY <1>1, <1>3 DEF Effective
<1> QED
  BY <1>1, <1>3, <1>4, QuietContent, AsInside

LEMMA StoreSizeExpected ==
  ASSUME AsksFirst, NEW chain, TableInv(chain), TableInv(chain)', NEW th \in Thread, StoreSize(th)
  PROVE  ExpectedStep
<1> DEFINE old == thread[th]
           me == [old EXCEPT !.step = "done", !.result = Null]
<1>1. old.step = "store" /\ UNCHANGED node
  BY DEF StoreSize, At
<1>2. /\ old \in ThreadState
      /\ Knows(old, chain[BucketOf(th)], node, sizes[BucketOf(th)], untrusted)
  BY <1>1, AskingThread
<1>3. /\ me.step = "done" /\ me.op = old.op /\ me.key = old.key /\ me.value = old.value
      /\ me.result = Null /\ thread' = [thread EXCEPT ![th] = me]
  BY <1>2 DEF ThreadState, StoreSize, Finish
<1>4. old.result = Null
  BY <1>1, <1>2 DEF Knows
<1> HIDE DEF me
<1>5. Effective(me) /\ Effective(old)
  BY <1>1, <1>3 DEF Effective
<1> QED
  BY <1>1, <1>3, <1>4, <1>5, QuietContent, AsInside

LEMMA StutterExpected ==
  ASSUME AsksFirst, NEW chain, TableInv(chain), UNCHANGED vars
  PROVE  ExpectedStep
<1>1. node' = node /\ thread' = thread
  BY DEF vars
<1>2. TableInv(chain)'
  BY StutterStep
<1>3. Content' = Content
  BY <1>1, <1>2, QuietContent, ContentStays
<1>4. CallsOf' = CallsOf
  BY <1>1 DEF CallsOf, CallOf, Effective
<1> QED
  BY <1>3, <1>4 DEF ExpectedStep

\* Every step of the table is one of KeyedTable, or none that its callers could see.
LEMMA NextExpected ==
  ASSUME AsksFirst, NoClash, HashTableInv, [Next]_vars
  PROVE  ExpectedStep
<1>1. PICK chain : TableInv(chain)
  BY DEF HashTableInv
<1>2. CASE UNCHANGED vars
  BY <1>1, <1>2, StutterExpected
<1>3. CASE Next
  <2>1. PICK th \in Thread :
          \/ \E call \in Calls : Begin(th, call)
          \/ ReadHead(th) \/ Look(th)
          \/ New(th) \/ Walk(th) \/ Advance(th) \/ Link(th)
          \/ First(th) \/ Search(th) \/ Unlink(th) \/ Delete(th)
          \/ LoadSize(th) \/ StoreSize(th)
          \/ Return(th)
    BY <1>3 DEF Next
  <2>2. CASE \E call \in Calls : Begin(th, call)
    BY <1>1, <2>2, BeginStep, BeginExpected
  <2>3. CASE ReadHead(th)
    BY <1>1, <2>3, ReadHeadStep, ReadHeadExpected
  <2>4. CASE Look(th)
    BY <1>1, <2>4, LookStep, LookExpected
  <2>5. CASE New(th)
    BY <1>1, <2>5, NewStep, NewExpected
  <2>6. CASE Walk(th)
    BY <1>1, <2>6, WalkStep, WalkExpected
  <2>7. CASE Advance(th)
    BY <1>1, <2>7, AdvanceStep, AdvanceExpected
  <2>8. CASE Link(th)
    <3>1. PICK new : TableInv(new)' /\ Linked(chain, new, th)
      BY <1>1, <2>8, LinkStep
    <3> QED
      BY <1>1, <2>8, <3>1, LinkExpected
  <2>9. CASE First(th)
    BY <1>1, <2>9, FirstStep, FirstExpected
  <2>10. CASE Search(th)
    BY <1>1, <2>10, SearchStep, SearchExpected
  <2>11. CASE Unlink(th)
    <3>1. PICK new : TableInv(new)' /\ Unlinked(chain, new, th)
      BY <1>1, <2>11, UnlinkStep
    <3> QED
      BY <1>1, <2>11, <3>1, UnlinkExpected
  <2>12. CASE Delete(th)
    BY <1>1, <2>12, DeleteStep, DeleteExpected
  <2>13. CASE LoadSize(th)
    BY <1>1, <2>13, LoadSizeStep, LoadSizeExpected
  <2>14. CASE StoreSize(th)
    BY <1>1, <2>14, StoreSizeStep, StoreSizeExpected
  <2>15. CASE Return(th)
    BY <1>1, <2>15, ReturnStep, ReturnExpected
  <2> QED
    BY <2>1, <2>2, <2>3, <2>4, <2>5, <2>6, <2>7, <2>8, <2>9, <2>10, <2>11, <2>12, <2>13, <2>14,
       <2>15
<1> QED
  BY <1>2, <1>3

LEMMA InitExpected ==
  ASSUME AsksFirst, Init
  PROVE  Expected!Init
<1>1. PICK chain : chain = [b \in Bucket |-> <<>>]
  OBVIOUS
<1>2. TableInv(chain)
  BY <1>1, InitTable
<1>3. \A k \in Key : Lookup(k) = Null
  <2>1. SUFFICES ASSUME NEW k \in Key PROVE Lookup(k) = Null
    OBVIOUS
  <2>2. chain[hash(k)] = <<>>
    BY <1>1, BucketOfKey
  <2>3. \A v : ~Holds(chain, node, k, v)
    BY <2>2 DEF Holds
  <2> QED
    BY <1>2, <2>3, LookupCorrect DEF LookupFinds
<1>4. [k \in Key |-> Lookup(k)] = [k \in Key |-> Null]
  BY <1>3
<1>5. \A th \in Thread : thread[th] = Idle
  BY DEF Init
<1>6. CallOf(Idle) = Expected!NoCall
  BY DEF CallOf, Idle, Expected!NoCall
<1>7. CallsOf = [th \in Thread |-> Expected!NoCall]
  BY <1>5, <1>6 DEF CallsOf
<1> QED
  BY <1>4, <1>7, CallsMapped DEF Expected!Init

\* The hash table (hashtable.cpp) implements KeyedTable while nobody adds without having
\* asked and calls in one bucket overlap only to read it as one of them adds to it: get, the
\* `set' of an absent key and remove, of many steps each, take effect in one of them.
THEOREM HashTableIsAtomic == AsksFirst => (Spec /\ []NoClash => Atomic)
<1>1. ASSUME AsksFirst PROVE Spec /\ []NoClash => Atomic
  <2>1. Init => Expected!Init
    BY <1>1, InitExpected
  <2>2. HashTableInv /\ NoClash /\ [Next]_vars => [Expected!Next]_(Expected!vars)
    <3>1. HashTableInv /\ NoClash /\ [Next]_vars => ExpectedStep
      BY <1>1, NextExpected
    <3>2. Expected!vars = <<Content, CallsOf>>
      BY CallsMapped DEF Expected!vars, Content
    <3>3. ExpectedStep => [Expected!Next]_(Expected!vars)
      BY CallsMapped DEF Expected!vars, Content, ExpectedStep, CallsOf, CallOf, Effective,
                         TookEffect, AtEnd
    <3> QED
      BY <3>1, <3>3
  <2>3. Spec /\ []NoClash => []HashTableInv
    BY HashTableAlways
  <2> QED
    BY <2>1, <2>2, <2>3, PTL DEF Spec, Atomic, Expected!Spec
<1> QED
  BY <1>1
=============================================================================

---------------------------- MODULE ServerProofs ----------------------------
(***************************************************************************)
(* From the API server to the handlers, and the end of the process: for    *)
(* any names and objects, any number of changes, lists, broken watches and *)
(* resyncs, and any order of the goroutines.                               *)
(***************************************************************************)
EXTENDS Server, TLAPS

\* The objects of both kinds.
AllObjs == UNION {Objs[k] : k \in Kinds}

\* What the queue holds about an object, and what a handler is told of it.
Delta == [type: {"Set", "Sync", "Deleted"}, obj: AllObjs, tombstone: BOOLEAN]

Event == [name: Names, new: AllObjs \cup {Nil}, tombstone: BOOLEAN, old: AllObjs \cup {Nil}]

\* The object of every name.
Objects == [Names -> AllObjs \cup {Nil}]

\* The types of the variables of the informers.
TypeInv ==
  /\ api \in [Kinds -> Objects] /\ indexer \in [Kinds -> Objects]
  /\ given \in [Kinds -> Objects]
  /\ watching \in [Kinds -> BOOLEAN] /\ populated \in [Kinds -> BOOLEAN]
  /\ handlers \in [Kinds -> BOOLEAN] /\ raced \in [Kinds -> BOOLEAN]
  /\ deltas \in [Kinds -> [Names -> Seq(Delta)]]
  /\ queue \in [Kinds -> Seq(Names)] /\ initialCount \in [Kinds -> Nat]
  /\ pending \in [Kinds -> Seq(Event)]
  /\ run \in [Kinds -> {"none", "waiting", "synced"}]
  /\ initial \in [Kinds -> SUBSET Names]

-----------------------------------------------------------------------------
(* The invariant of an informer and its config *)

\* The queue has the names with an item, each once.
Queued(q, items) ==
  /\ \A i \in 1..Len(q) : items[q[i]] # <<>>
  /\ \A n \in Names : items[n] # <<>> => \E i \in 1..Len(q) : q[i] = n
  /\ \A i, j \in 1..Len(q) : q[i] = q[j] => i = j

\* The object before the i-th delta of s, when the cache has o.
Preceding(s, o, i) == IF i = 1 THEN o ELSE After(s[i - 1])

\* A deletion in s deletes an object that is there, and has that object unless a
\* list raced with the queue.
Deletes(s, o, r) ==
  \A i \in 1..Len(s) : s[i].type = "Deleted" =>
    Preceding(s, o, i) # Nil /\ (r \/ s[i].obj = Preceding(s, o, i))

\* The object after all deltas of s, when the cache has o.
Final(s, o) == IF s = <<>> THEN o ELSE After(s[Len(s)])

\* An event fits the object the handler has.
Fits(last, e, r) ==
  IF e.new = Nil THEN last # Nil /\ (r \/ e.old = last) ELSE e.old = last

\* The events q are about the name n and fit one another, from the object o on.
Follows(q, n, o, r) ==
  \A i \in 1..Len(q) : /\ q[i].name = n
                       /\ Fits(IF i = 1 THEN o ELSE q[i - 1].new, q[i], r)

\* The events p lead from the objects g of the handler to the objects x of the
\* cache, name by name.
Chain(p, g, x, r) ==
  /\ \A i \in 1..Len(p) :
       (\A j \in 1..(i - 1) : p[j].name # p[i].name) => Fits(g[p[i].name], p[i], r)
  /\ \A i, j \in 1..Len(p) :
       /\ j < i /\ p[j].name = p[i].name
       /\ \A m \in (j + 1)..(i - 1) : p[m].name # p[i].name
       => Fits(p[j].new, p[i], r)
  /\ \A n \in Names : (\A i \in 1..Len(p) : p[i].name # n) => x[n] = g[n]
  /\ \A i \in 1..Len(p) :
       (\A j \in (i + 1)..Len(p) : p[j].name # p[i].name) => x[p[i].name] = p[i].new

\* What is missing of the first list is in the events p, or among the first c
\* names of the queue.
Coming(S, q, c, p) ==
  \A n \in S : \/ \E i \in 1..Len(p) : p[i].name = n
               \/ \E i \in 1..Len(q) : i <= c /\ q[i] = n

\* The parts of the invariant, for one kind of objects.
QueueInv(k) == Queued(queue[k], deltas[k])

DeltaInv(k) ==
  /\ \A n \in Names : Deletes(deltas[k][n], indexer[k][n], raced[k])
  /\ watching[k] /\ ~raced[k] =>
       \A n \in Names : Final(deltas[k][n], indexer[k][n]) = api[k][n]

ChainInv(k) == Chain(pending[k], given[k], indexer[k], raced[k])

FirstListInv(k) ==
  /\ ~populated[k] => /\ ~watching[k] /\ queue[k] = <<>> /\ initial[k] = {}
                      /\ \A n \in Names : indexer[k][n] = Nil
  /\ Coming(initial[k], queue[k], initialCount[k], pending[k])
  /\ run[k] = "synced" => HasSynced(k)

KindInv(k) == QueueInv(k) /\ DeltaInv(k) /\ ChainInv(k) /\ FirstListInv(k)

\* Run registers the handlers before it starts the informers, and SyncLoop has
\* taken the stop when Run goes on.
RunInv ==
  /\ main # "serviceConfig" => handlers["service"]
  /\ main \notin {"serviceConfig", "endpointsConfig"} => handlers["endpoints"]
  /\ started => main \notin {"serviceConfig", "endpointsConfig", "start"}
  /\ main = "watchers" => loop = "stopped"
  /\ process = "panicked" => loop = "stopped"

\* The inductive invariant.
ServerInv == TypeInv /\ RunInv /\ \A k \in Kinds : KindInv(k)

-----------------------------------------------------------------------------
(* The operators *)

\* The orders of a finite set have each of its members, once.
LEMMA OrderOfSet ==
  ASSUME NEW S, Cardinality(S) \in Nat, NEW order \in Bijection(1..Cardinality(S), S)
  PROVE  /\ order \in Seq(S) /\ Len(order) = Cardinality(S)
         /\ \A n \in S : \E i \in 1..Len(order) : order[i] = n
         /\ \A i, j \in 1..Len(order) : order[i] = order[j] => i = j
<1> DEFINE D == 1..Cardinality(S)
<1>1. /\ order \in [D -> S]
      /\ \A i, j \in D : order[i] = order[j] => i = j
      /\ \A n \in S : \E i \in D : order[i] = n
  BY DEF Bijection, Injection, IsInjective, Surjection
<1>2. order \in Seq(S) /\ Len(order) = Cardinality(S)
  BY <1>1
<1> QED BY <1>1, <1>2

\* The objects of an informer are not Nil.
LEMMA NilNoObject == Nil \notin AllObjs
BY ObjectsAssumption DEF AllObjs

\* A delta added to an item leaves an item; where it deletes, there is something
\* to delete; and the item ends at what the delta says, unless it is a Sync after
\* a deletion.
LEMMA queueActionFacts ==
  ASSUME NEW s \in Seq(Delta), NEW d \in Delta, NEW o \in AllObjs \cup {Nil},
         NEW r \in BOOLEAN, Deletes(s, o, r),
         d.type = "Deleted" =>
           /\ s = <<>> => o # Nil
           /\ r \/ (~IsDeleted(s) /\ d.obj = Final(s, o))
  PROVE  /\ queueAction(s, d) \in Seq(Delta) /\ queueAction(s, d) # <<>>
         /\ Deletes(queueAction(s, d), o, r)
         /\ Final(queueAction(s, d), o) = IF d.type = "Sync" /\ IsDeleted(s) THEN Nil ELSE After(d)
<1> DEFINE t == queueAction(s, d)
           Good == /\ t \in Seq(Delta) /\ t # <<>> /\ Deletes(t, o, r)
                   /\ Final(t, o) = IF d.type = "Sync" /\ IsDeleted(s) THEN Nil ELSE After(d)
<1> SUFFICES Good
  OBVIOUS
<1>0. Len(s) \in Nat /\ \A i \in 1..Len(s) : s[i] \in Delta
  OBVIOUS
<1>1. CASE d.type = "Sync" /\ IsDeleted(s)
  <2>1. t = s /\ s # <<>> /\ s[Len(s)].type = "Deleted"
    BY <1>1 DEF queueAction, IsDeleted, Newest
  <2> HIDE DEF t
  <2> QED BY <1>1, <2>1 DEF Final, After
<1>2. CASE d.type = "Deleted" /\ IsDeleted(s)
  <2>1. s # <<>> /\ s[Len(s)].type = "Deleted" /\ Len(s) \in Nat \ {0} /\ Len(s) \in 1..Len(s)
    BY <1>0, <1>2 DEF IsDeleted, Newest
  <2>2. CASE ~Newest(s).tombstone
    <3>1. t = s
      BY <1>2, <2>2 DEF queueAction
    <3> HIDE DEF t
    <3> QED BY <1>2, <2>1, <3>1 DEF Final, After
  <2>3. CASE Newest(s).tombstone
    <3>1. t = [s EXCEPT ![Len(s)] = d]
      BY <1>2, <2>3 DEF queueAction
    <3>2. t \in Seq(Delta) /\ Len(t) = Len(s)
      BY <2>1, <3>1
    <3>3. t[Len(s)] = d /\ \A i \in 1..(Len(s) - 1) : t[i] = s[i]
      BY <2>1, <3>1
    <3> HIDE DEF t
    <3>4. Final(t, o) = After(d) /\ t # <<>>
      BY <2>1, <3>2, <3>3 DEF Final
    <3>5. \A i \in 1..Len(s) : Preceding(t, o, i) = Preceding(s, o, i)
      BY <1>0, <3>3 DEF Preceding
    <3>6. r
      BY <1>2
    <3>7. Deletes(t, o, r)
      BY <2>1, <3>2, <3>3, <3>5, <3>6 DEF Deletes
    <3> QED BY <1>2, <3>2, <3>4, <3>7
  <2> QED BY <2>2, <2>3
<1>3. CASE ~IsDeleted(s) \/ d.type = "Set"
  <2>1. t = Append(s, d)
    BY <1>3 DEF queueAction
  <2>2. /\ t \in Seq(Delta) /\ Len(t) = Len(s) + 1 /\ t[Len(s) + 1] = d
        /\ \A i \in 1..Len(s) : t[i] = s[i]
    BY <2>1
  <2> HIDE DEF t
  <2>3. Final(t, o) = After(d) /\ t # <<>>
    BY <1>0, <2>2 DEF Final
  <2>4. \A i \in 1..Len(s) : Preceding(t, o, i) = Preceding(s, o, i)
    BY <1>0, <2>2 DEF Preceding
  <2>5. Preceding(t, o, Len(s) + 1) = Final(s, o)
    BY <1>0, <2>2 DEF Preceding, Final
  <2>6. d.type = "Deleted" => Final(s, o) # Nil /\ (r \/ d.obj = Final(s, o))
    BY <1>0, <1>3, NilNoObject DEF Final, IsDeleted, Newest, After, Delta
  <2>7. Deletes(t, o, r)
    BY <1>0, <2>2, <2>4, <2>5, <2>6 DEF Deletes
  <2> QED BY <1>3, <2>2, <2>3, <2>7
<1>4. d.type \in {"Set", "Sync", "Deleted"}
  BY DEF Delta
<1> HIDE DEF Good
<1> QED BY <1>1, <1>2, <1>3, <1>4

\* The elements of two sequences, one after the other.
LEMMA ConcatFacts ==
  ASSUME NEW S, NEW p \in Seq(S), NEW q \in Seq(S)
  PROVE  /\ p \o q \in Seq(S) /\ Len(p \o q) = Len(p) + Len(q)
         /\ Len(p) \in Nat /\ Len(q) \in Nat
         /\ \A i \in 1..Len(p) : i \in 1..Len(p \o q) /\ (p \o q)[i] = p[i]
         /\ \A i \in 1..Len(q) :
              Len(p) + i \in 1..Len(p \o q) /\ (p \o q)[Len(p) + i] = q[i]
         /\ \A i \in 1..Len(p \o q) :
              i \in 1..Len(p) \/ \E j \in 1..Len(q) : i = Len(p) + j
<1>1. /\ p \o q \in Seq(S) /\ Len(p \o q) = Len(p) + Len(q)
      /\ \A i \in 1..Len(p) + Len(q) :
           (p \o q)[i] = IF i <= Len(p) THEN p[i] ELSE q[i - Len(p)]
  OBVIOUS
<1> DEFINE t == p \o q
           a == Len(p)
           b == Len(q)
<1>2. a \in Nat /\ b \in Nat
  OBVIOUS
<1> HIDE DEF t, a, b
<1>3. \A i \in 1..(a + b) : t[i] = IF i <= a THEN p[i] ELSE q[i - a]
  BY <1>1 DEF t, a, b
<1>4. \A i \in 1..a : i \in 1..(a + b) /\ t[i] = p[i]
  BY <1>2, <1>3
<1>5. ASSUME NEW i \in 1..b PROVE a + i \in 1..(a + b) /\ t[a + i] = q[i]
  <2> DEFINE j == a + i
  <2>1. j \in 1..(a + b) /\ ~(j <= a) /\ j - a = i
    BY <1>2
  <2> HIDE DEF j
  <2>2. t[j] = q[i]
    BY <1>3, <2>1
  <2> QED BY <2>1, <2>2 DEF j
<1>6. ASSUME NEW i \in 1..(a + b), i \notin 1..a PROVE \E j \in 1..b : i = a + j
  <2>1. i - a \in 1..b /\ i = a + (i - a)
    BY <1>2, <1>6
  <2> QED BY <2>1
<1> QED BY <1>1, <1>2, <1>4, <1>5, <1>6 DEF t, a, b

\* S are the names whose item is new: the items of the other names are kept.
NewItems(S, old, items) ==
  /\ S \in SUBSET Names
  /\ \A n \in Names : /\ old[n] # <<>> => items[n] # <<>>
                      /\ n \in S <=> old[n] = <<>> /\ items[n] # <<>>

\* The queue still has the names with an item, each once, when the names with a
\* new item have come to its end.
LEMMA QueuedConcat ==
  ASSUME NEW q \in Seq(Names), NEW old, NEW items, NEW S,
         Queued(q, old), NewItems(S, old, items), NEW order \in Bijection(1..Cardinality(S), S)
  PROVE  /\ order \in Seq(Names) /\ Queued(q \o order, items)
         /\ Len(order) = Cardinality(S)
<1> USE DEF NewItems
<1> DEFINE t == q \o order
<1>1. Cardinality(S) \in Nat
  BY NamesAssumption
<1>2. /\ order \in Seq(S) /\ Len(order) = Cardinality(S)
      /\ \A n \in S : \E i \in 1..Len(order) : order[i] = n
      /\ \A i, j \in 1..Len(order) : order[i] = order[j] => i = j
  BY <1>1, OrderOfSet
<1>3. order \in Seq(Names) /\ Len(order) \in Nat /\ \A i \in 1..Len(order) : order[i] \in S
  <2>1. S \subseteq Names
    OBVIOUS
  <2>2. order \in Seq(Names)
    BY <1>2, <2>1
  <2> QED BY <1>2, <2>2
<1>4. /\ t \in Seq(Names) /\ Len(t) = Len(q) + Len(order) /\ Len(q) \in Nat
      /\ \A i \in 1..Len(q) : t[i] = q[i] /\ q[i] \in Names
      /\ \A i \in 1..Len(order) : t[Len(q) + i] = order[i]
  BY <1>3, ConcatFacts
<1>5. \A i \in 1..Len(t) : i \in 1..Len(q) \/ \E j \in 1..Len(order) : i = Len(q) + j
  BY <1>3, ConcatFacts
<1> HIDE DEF t
<1>6. ASSUME NEW i \in 1..Len(t) PROVE items[t[i]] # <<>>
  <2>1. CASE i \in 1..Len(q)
    BY <1>4, <2>1 DEF Queued
  <2>2. CASE \E j \in 1..Len(order) : i = Len(q) + j
    BY <1>3, <1>4, <2>2, Zenon
  <2> QED BY <1>5, <2>1, <2>2
<1>7. ASSUME NEW n \in Names, items[n] # <<>> PROVE \E i \in 1..Len(t) : t[i] = n
  <2>1. CASE old[n] # <<>>
    <3>1. PICK i \in 1..Len(q) : q[i] = n
      BY <2>1 DEF Queued
    <3> QED BY <1>3, <1>4, <3>1
  <2>2. CASE old[n] = <<>>
    <3>1. PICK i \in 1..Len(order) : order[i] = n
      BY <1>2, <1>7, <2>2
    <3>2. Len(q) + i \in 1..Len(t)
      BY <1>3, <1>4
    <3> QED BY <1>4, <3>1, <3>2
  <2> QED BY <2>1, <2>2
<1>8. ASSUME NEW i \in 1..Len(t), NEW j \in 1..Len(t), t[i] = t[j] PROVE i = j
  <2>1. \A a \in 1..Len(q), b \in 1..Len(order) : q[a] # order[b]
    BY <1>3, <1>4, Zenon DEF Queued
  <2>2. \A a, b \in 1..Len(q) : q[a] = q[b] => a = b
    BY DEF Queued
  <2>3. CASE i \in 1..Len(q) /\ j \in 1..Len(q)
    BY <1>4, <1>8, <2>2, <2>3
  <2>4. ASSUME NEW a \in 1..Len(q), NEW b \in 1..Len(order)
        PROVE  t[a] # t[Len(q) + b]
    BY <1>4, <2>1
  <2>5. ASSUME NEW a \in 1..Len(order), i = Len(q) + a,
               NEW b \in 1..Len(order), j = Len(q) + b
        PROVE  i = j
    BY <1>2, <1>4, <1>8, <2>5
  <2> QED BY <1>5, <1>8, <2>3, <2>4, <2>5, Zenon
<1>9. Queued(t, items)
  BY <1>6, <1>7, <1>8 DEF Queued
<1> QED BY <1>2, <1>3, <1>9 DEF t

\* What Enqueue makes of the items and the queue.
LEMMA EnqueueFacts ==
  ASSUME TypeInv, NEW k \in Kinds, QueueInv(k), NEW items \in [Names -> Seq(Delta)],
         \A n \in Names : deltas[k][n] # <<>> => items[n] # <<>>,
         Enqueue(k, items)
  PROVE  /\ deltas' \in [Kinds -> [Names -> Seq(Delta)]] /\ queue' \in [Kinds -> Seq(Names)]
         /\ deltas'[k] = items /\ QueueInv(k)'
         /\ \E order \in Seq(Names) :
              /\ queue'[k] = queue[k] \o order
              /\ Len(order) = Cardinality({n \in Names : deltas[k][n] = <<>> /\ items[n] # <<>>})
         /\ \A j \in Kinds \ {k} : deltas'[j] = deltas[j] /\ queue'[j] = queue[j]
<1> DEFINE S == {n \in Names : deltas[k][n] = <<>> /\ items[n] # <<>>}
<1>1. PICK order \in Bijection(1..Cardinality(S), S) : queue' = [queue EXCEPT ![k] = @ \o order]
  BY Zenon DEF Enqueue
<1>2. deltas' = [deltas EXCEPT ![k] = items]
  BY DEF Enqueue
<1>3. queue[k] \in Seq(Names)
  BY DEF TypeInv
<1>4. order \in Seq(Names) /\ Queued(queue[k] \o order, items) /\ Len(order) = Cardinality(S)
  <2>1. Queued(queue[k], deltas[k])
    BY DEF QueueInv
  <2>2. NewItems(S, deltas[k], items)
    BY DEF NewItems
  <2> HIDE DEF S
  <2> QED BY <1>1, <1>3, <2>1, <2>2, QueuedConcat
<1>5. queue[k] \o order \in Seq(Names)
  BY <1>3, <1>4
<1>6. /\ queue' \in [Kinds -> Seq(Names)] /\ queue'[k] = queue[k] \o order
      /\ \A j \in Kinds \ {k} : queue'[j] = queue[j]
  BY <1>1, <1>5, Zenon DEF TypeInv
<1>7. /\ deltas' \in [Kinds -> [Names -> Seq(Delta)]] /\ deltas'[k] = items
      /\ \A j \in Kinds \ {k} : deltas'[j] = deltas[j]
  BY <1>2 DEF TypeInv
<1> HIDE DEF S
<1>8. QueueInv(k)'
  BY <1>4, <1>6, <1>7 DEF QueueInv
<1> QED BY <1>4, <1>6, <1>7, <1>8, Zenon DEF S

\* The elements of a sequence without its first one.
LEMMA TailFacts ==
  ASSUME NEW S, NEW p \in Seq(S), p # <<>>
  PROVE  /\ Tail(p) \in Seq(S) /\ Len(Tail(p)) = Len(p) - 1 /\ Len(p) \in Nat \ {0}
         /\ Head(p) = p[1] /\ p[1] \in S
         /\ \A i \in 1..Len(Tail(p)) : Tail(p)[i] = p[i + 1] /\ i + 1 \in 2..Len(p)
OBVIOUS

\* When the handler has been given the first event, the others lead from what it
\* then has to the cache.
LEMMA ChainTail ==
  ASSUME NEW p \in Seq(Event), p # <<>>, NEW g \in Objects, NEW x \in Objects,
         NEW r \in BOOLEAN, Chain(p, g, x, r)
  PROVE  Chain(Tail(p), [g EXCEPT ![Head(p).name] = Head(p).new], x, r)
<1> DEFINE t == Tail(p)
           h == [g EXCEPT ![Head(p).name] = Head(p).new]
           L == Len(p)
<1>1. /\ t \in Seq(Event) /\ Len(t) = L - 1 /\ L \in Nat \ {0} /\ p[1] \in Event
      /\ \A i \in 1..(L - 1) : t[i] = p[i + 1] /\ i + 1 \in 2..L
      /\ Head(p) = p[1]
  <2>1. /\ t \in Seq(Event) /\ Len(t) = L - 1 /\ L \in Nat \ {0} /\ p[1] \in Event
        /\ \A i \in 1..Len(t) : t[i] = p[i + 1] /\ i + 1 \in 2..L
        /\ Head(p) = p[1]
    BY TailFacts
  <2> HIDE DEF t, L
  <2> QED BY <2>1
<1>2. \A n \in Names : h[n] = IF n = p[1].name THEN p[1].new ELSE g[n]
  BY <1>1 DEF Objects, Event
<1>3. \A i \in 1..L : p[i] \in Event /\ p[i].name \in Names
  <2>1. \A i \in 1..L : p[i] \in Event
    OBVIOUS
  <2> QED BY <2>1 DEF Event
<1> HIDE DEF t, h, L
<1>4. \A i \in 1..L : (\A j \in 1..(i - 1) : p[j].name # p[i].name)
                        => Fits(g[p[i].name], p[i], r)
  BY Zenon DEF Chain, L
<1>5. \A i, j \in 1..L :
        /\ j < i /\ p[j].name = p[i].name
        /\ \A m \in (j + 1)..(i - 1) : p[m].name # p[i].name
        => Fits(p[j].new, p[i], r)
  BY Zenon DEF Chain, L
<1>6. \A n \in Names : (\A i \in 1..L : p[i].name # n) => x[n] = g[n]
  BY Zenon DEF Chain, L
<1>7. \A i \in 1..L : (\A j \in (i + 1)..L : p[j].name # p[i].name)
                        => x[p[i].name] = p[i].new
  BY Zenon DEF Chain, L
<1>8. ASSUME NEW i \in 1..(L - 1), \A j \in 1..(i - 1) : t[j].name # t[i].name
      PROVE  Fits(h[t[i].name], t[i], r)
  <2> DEFINE a == i + 1
  <2>1. a \in 1..L /\ 1 \in 1..L /\ 1 < a /\ t[i] = p[a]
    BY <1>1
  <2>2. \A m \in (1 + 1)..(a - 1) : p[m].name # p[a].name
    <3> SUFFICES ASSUME NEW m \in (1 + 1)..(a - 1) PROVE p[m].name # p[a].name
      OBVIOUS
    <3>1. m - 1 \in 1..(i - 1) /\ m - 1 \in 1..(L - 1) /\ (m - 1) + 1 = m
      BY <1>1
    <3>2. t[m - 1] = p[m]
      BY <1>1, <3>1
    <3> QED BY <1>8, <2>1, <3>1, <3>2
  <2> HIDE DEF a
  <2>3. CASE p[a].name = p[1].name
    BY <1>2, <1>3, <1>5, <2>1, <2>2, <2>3
  <2>4. CASE p[a].name # p[1].name
    <3>1. \A j \in 1..(a - 1) : p[j].name # p[a].name
      BY <1>1, <2>1, <2>2, <2>4
    <3> QED BY <1>2, <1>3, <1>4, <2>1, <2>4, <3>1
  <2> QED BY <2>3, <2>4
<1>9. ASSUME NEW i \in 1..(L - 1), NEW j \in 1..(L - 1), j < i, t[j].name = t[i].name,
             \A m \in (j + 1)..(i - 1) : t[m].name # t[i].name
      PROVE  Fits(t[j].new, t[i], r)
  <2> DEFINE a == i + 1
             b == j + 1
  <2>1. a \in 1..L /\ b \in 1..L /\ b < a /\ t[i] = p[a] /\ t[j] = p[b]
    BY <1>1, <1>9
  <2>2. ASSUME NEW m \in (b + 1)..(a - 1) PROVE p[m].name # p[a].name
    <3>1. m - 1 \in (j + 1)..(i - 1) /\ m - 1 \in 1..(L - 1) /\ (m - 1) + 1 = m
      BY <1>1
    <3>2. t[m - 1] = p[m]
      BY <1>1, <3>1
    <3> QED BY <1>9, <2>1, <3>1, <3>2
  <2> HIDE DEF a, b
  <2> QED BY <1>5, <1>9, <2>1, <2>2
<1>10. ASSUME NEW n \in Names, \A i \in 1..(L - 1) : t[i].name # n
       PROVE  x[n] = h[n]
  <2>1. ASSUME NEW m \in 2..L PROVE p[m].name # n
    <3>1. m - 1 \in 1..(L - 1) /\ (m - 1) + 1 = m
      BY <1>1
    <3> QED BY <1>1, <1>10, <3>1, Zenon
  <2>2. CASE p[1].name = n
    BY <1>1, <1>2, <1>7, <2>1, <2>2
  <2>3. CASE p[1].name # n
    BY <1>1, <1>2, <1>6, <2>1, <2>3
  <2> QED BY <2>2, <2>3
<1>11. ASSUME NEW i \in 1..(L - 1), \A j \in (i + 1)..(L - 1) : t[j].name # t[i].name
       PROVE  x[t[i].name] = t[i].new
  <2> DEFINE a == i + 1
  <2>1. a \in 1..L /\ t[i] = p[a]
    BY <1>1
  <2>2. ASSUME NEW m \in (a + 1)..L PROVE p[m].name # p[a].name
    <3>1. m - 1 \in (i + 1)..(L - 1) /\ m - 1 \in 1..(L - 1) /\ (m - 1) + 1 = m
      BY <1>1
    <3>2. t[m - 1] = p[m]
      BY <1>1, <3>1
    <3> QED BY <1>11, <2>1, <3>1, <3>2
  <2> HIDE DEF a
  <2> QED BY <1>7, <2>1, <2>2
<1>12. Chain(t, h, x, r)
  BY <1>1, <1>8, <1>9, <1>10, <1>11, Zenon DEF Chain
<1> QED BY <1>12 DEF t, h

\* Events about one name that lead from the cache to a new object of it can come
\* after the others.
LEMMA ChainConcat ==
  ASSUME NEW p \in Seq(Event), NEW g \in Objects, NEW x \in Objects, NEW r \in BOOLEAN,
         Chain(p, g, x, r), NEW n \in Names, NEW q \in Seq(Event), q # <<>>,
         Follows(q, n, x[n], r)
  PROVE  Chain(p \o q, g, [x EXCEPT ![n] = q[Len(q)].new], r)
<1> USE DEF Follows
<1> DEFINE t == p \o q
           y == [x EXCEPT ![n] = q[Len(q)].new]
           L == Len(p)
           M == Len(q)
<1>1. /\ t \in Seq(Event) /\ Len(t) = L + M /\ L \in Nat /\ M \in Nat \ {0}
      /\ \A i \in 1..L : t[i] = p[i]
      /\ \A i \in 1..M : t[L + i] = q[i]
      /\ \A i \in 1..(L + M) : i \in 1..L \/ \E j \in 1..M : i = L + j
  <2>1. /\ t \in Seq(Event) /\ Len(t) = L + M /\ L \in Nat /\ M \in Nat
        /\ \A i \in 1..L : t[i] = p[i]
        /\ \A i \in 1..M : t[L + i] = q[i]
        /\ \A i \in 1..Len(t) : i \in 1..L \/ \E j \in 1..M : i = L + j
    BY ConcatFacts
  <2>2. M # 0
    OBVIOUS
  <2> HIDE DEF t, L, M
  <2> QED BY <2>1, <2>2
<1>2. \A m \in Names : y[m] = IF m = n THEN q[M].new ELSE x[m]
  BY DEF Objects
<1>3. \A i \in 1..L : p[i] \in Event /\ p[i].name \in Names
  <2>1. \A i \in 1..L : p[i] \in Event
    OBVIOUS
  <2> QED BY <2>1 DEF Event
<1>4. \A i \in 1..M : q[i].name = n /\ Fits(IF i = 1 THEN x[n] ELSE q[i - 1].new, q[i], r)
  OBVIOUS
<1> HIDE DEF t, y, L, M
<1>5. \A i \in 1..L : (\A j \in 1..(i - 1) : p[j].name # p[i].name)
                        => Fits(g[p[i].name], p[i], r)
  BY Zenon DEF Chain, L
<1>6. \A i, j \in 1..L :
        /\ j < i /\ p[j].name = p[i].name
        /\ \A m \in (j + 1)..(i - 1) : p[m].name # p[i].name
        => Fits(p[j].new, p[i], r)
  BY Zenon DEF Chain, L
<1>7. \A m \in Names : (\A i \in 1..L : p[i].name # m) => x[m] = g[m]
  BY Zenon DEF Chain, L
<1>8. \A i \in 1..L : (\A j \in (i + 1)..L : p[j].name # p[i].name)
                        => x[p[i].name] = p[i].new
  BY Zenon DEF Chain, L
<1>9. ASSUME NEW i \in 1..M PROVE L + i \in 1..(L + M) /\ t[L + i].name = n
  <2>1. t[L + i] = q[i] /\ q[i].name = n
    BY <1>1, <1>4, Zenon
  <2>2. L + i \in 1..(L + M)
    BY <1>1
  <2> QED BY <2>1, <2>2
<1>10. ASSUME NEW i \in 1..(L + M), \A j \in 1..(i - 1) : t[j].name # t[i].name
       PROVE  Fits(g[t[i].name], t[i], r)
  <2>1. CASE i \in 1..L
    <3>1. \A j \in 1..(i - 1) : j \in 1..L
      BY <1>1, <2>1
    <3> QED BY <1>1, <1>5, <1>10, <2>1, <3>1, Zenon
  <2>2. ASSUME NEW j \in 1..M, i = L + j PROVE Fits(g[t[i].name], t[i], r)
    <3>1. j = 1
      <4> SUFFICES ASSUME j # 1 PROVE FALSE
        OBVIOUS
      <4>1. 1 \in 1..M /\ L + 1 \in 1..(i - 1)
        BY <1>1, <2>2
      <4> QED BY <1>9, <1>10, <2>2, <4>1, Zenon
    <3>2. \A m \in 1..L : p[m].name # n
      <4>1. \A m \in 1..L : m \in 1..(i - 1)
        BY <1>1, <2>2
      <4> QED BY <1>1, <1>9, <1>10, <2>2, <4>1, Zenon
    <3>3. t[i] = q[1] /\ t[i].name = n /\ Fits(x[n], q[1], r)
      BY <1>1, <1>4, <1>9, <2>2, <3>1
    <3> QED BY <1>7, <3>2, <3>3
  <2> QED BY <1>1, <2>1, <2>2, Zenon
<1>11. ASSUME NEW i \in 1..(L + M), NEW j \in 1..(L + M), j < i, t[j].name = t[i].name,
              \A m \in (j + 1)..(i - 1) : t[m].name # t[i].name
       PROVE  Fits(t[j].new, t[i], r)
  <2>1. CASE i \in 1..L
    <3>1. j \in 1..L /\ \A m \in (j + 1)..(i - 1) : m \in 1..L
      BY <1>1, <1>11, <2>1, SMTT(30)
    <3>2. t[i] = p[i] /\ t[j] = p[j]
      BY <1>1, <2>1, <3>1
    <3>3. \A m \in (j + 1)..(i - 1) : p[m].name # p[i].name
      BY <1>1, <1>11, <3>1, <3>2, Zenon
    <3> QED BY <1>6, <1>11, <2>1, <3>1, <3>2, <3>3
  <2>2. ASSUME NEW a \in 1..M, i = L + a PROVE Fits(t[j].new, t[i], r)
    <3>1. t[i] = q[a] /\ t[i].name = n
      BY <1>1, <1>9, <2>2, Zenon
    <3>2. CASE a = 1
      <4>1. j \in 1..L /\ \A m \in (j + 1)..L : m \in (j + 1)..(i - 1) /\ m \in 1..L
        BY <1>1, <1>11, <2>2, <3>2, SMTT(30)
      <4>2. \A m \in (j + 1)..L : p[m].name # p[j].name
        BY <1>1, <1>11, <4>1, Zenon
      <4>3. x[n] = p[j].new
        BY <1>1, <1>8, <1>11, <3>1, <4>1, <4>2, Zenon
      <4> QED BY <1>1, <1>4, <3>1, <3>2, <4>1, <4>3, Zenon
    <3>3. CASE a # 1
      <4> DEFINE b == a - 1
      <4>1. b \in 1..M /\ L + b = i - 1 /\ L + b \in 1..(L + M)
        BY <1>1, <2>2, <3>3
      <4>2. t[L + b] = q[b] /\ t[L + b].name = n
        BY <1>1, <1>9, <4>1, Zenon
      <4>3. j = L + b
        <5> SUFFICES ASSUME j # L + b PROVE FALSE
          OBVIOUS
        <5>1. L + b \in (j + 1)..(i - 1)
          BY <1>1, <1>11, <4>1
        <5> QED BY <1>11, <3>1, <4>2, <5>1, Zenon
      <4>4. Fits(q[a - 1].new, q[a], r)
        BY <1>4, <3>3, Zenon
      <4> QED BY <3>1, <4>2, <4>3, <4>4, Zenon
    <3> QED BY <3>2, <3>3
  <2> QED BY <1>1, <2>1, <2>2, Zenon
<1>12. ASSUME NEW m \in Names, \A i \in 1..(L + M) : t[i].name # m
       PROVE  y[m] = g[m]
  <2>1. m # n
    <3>1. 1 \in 1..M
      BY <1>1
    <3> QED BY <1>9, <1>12, <3>1, Zenon
  <2>2. \A i \in 1..L : p[i].name # m
    BY <1>1, <1>12
  <2> QED BY <1>2, <1>7, <2>1, <2>2, Zenon
<1>13. ASSUME NEW i \in 1..(L + M),
              \A j \in (i + 1)..(L + M) : t[j].name # t[i].name
       PROVE  y[t[i].name] = t[i].new
  <2>1. CASE i \in 1..L
    <3>1. t[i] = p[i] /\ p[i].name # n
      <4>1. M \in 1..M /\ L + M \in (i + 1)..(L + M)
        BY <1>1, <2>1
      <4>2. t[L + M].name = n
        BY <1>9, <4>1
      <4>3. t[i] = p[i]
        BY <1>1, <2>1
      <4> QED BY <1>13, <4>1, <4>2, <4>3
    <3>2. \A j \in (i + 1)..L : p[j].name # p[i].name
      <4>1. \A j \in (i + 1)..L : j \in 1..L /\ j \in (i + 1)..(L + M)
        BY <1>1, <2>1
      <4> QED BY <1>1, <1>13, <2>1, <4>1
    <3> QED BY <1>2, <1>3, <1>8, <2>1, <3>1, <3>2, Zenon
  <2>2. ASSUME NEW a \in 1..M, i = L + a PROVE y[t[i].name] = t[i].new
    <3>1. a = M
      <4> SUFFICES ASSUME a # M PROVE FALSE
        OBVIOUS
      <4>1. M \in 1..M /\ L + M \in (i + 1)..(L + M)
        BY <1>1, <2>2
      <4> QED BY <1>9, <1>13, <2>2, <4>1, Zenon
    <3> QED BY <1>1, <1>2, <1>9, <2>2, <3>1, Zenon
  <2> QED BY <1>1, <2>1, <2>2
<1>14. Chain(t, g, y, r)
  BY <1>1, <1>10, <1>11, <1>12, <1>13, Zenon DEF Chain
<1> QED BY <1>14 DEF t, y, M

\* A list that races with the queue asks less of the deltas and the events.
LEMMA RacedAsksLess ==
  ASSUME NEW r \in BOOLEAN
  PROVE  /\ \A s, o : Deletes(s, o, r) => Deletes(s, o, TRUE)
         /\ \A p, g, x : Chain(p, g, x, r) => Chain(p, g, x, TRUE)
<1>1. ASSUME NEW s, NEW o, Deletes(s, o, r) PROVE Deletes(s, o, TRUE)
  BY <1>1 DEF Deletes
<1>2. \A last, e : Fits(last, e, r) => Fits(last, e, TRUE)
  BY DEF Fits
<1>3. ASSUME NEW p, NEW g, NEW x, Chain(p, g, x, r) PROVE Chain(p, g, x, TRUE)
  BY <1>2, <1>3, Zenon DEF Chain
<1> QED BY <1>1, <1>3, Zenon

\* Names that come to the end of the queue do not matter to the first list.
LEMMA ComingConcat ==
  ASSUME NEW S, NEW q \in Seq(Names), NEW c \in Nat, NEW p, Coming(S, q, c, p),
         NEW order \in Seq(Names)
  PROVE  Coming(S, q \o order, c, p)
<1> DEFINE t == q \o order
<1>1. \A i \in 1..Len(q) : i \in 1..Len(t) /\ t[i] = q[i]
  BY ConcatFacts
<1> HIDE DEF t
<1>2. Coming(S, t, c, p)
  BY <1>1, Zenon DEF Coming
<1> QED BY <1>2 DEF t

\* The first name of the queue goes on to the events.
LEMMA ComingPop ==
  ASSUME NEW S, NEW q \in Seq(Names), q # <<>>, NEW c \in Nat,
         NEW p \in Seq(Event), Coming(S, q, c, p),
         NEW e \in Seq(Event), e # <<>>, e[1].name = Head(q)
  PROVE  Coming(S, Tail(q), IF c > 0 THEN c - 1 ELSE 0, p \o e)
<1> DEFINE t == Tail(q)
           u == p \o e
           d == IF c > 0 THEN c - 1 ELSE 0
<1>1. /\ Len(t) = Len(q) - 1 /\ Len(q) \in Nat \ {0} /\ Head(q) = q[1]
      /\ \A i \in 1..Len(t) : t[i] = q[i + 1]
  BY TailFacts
<1>2. /\ \A i \in 1..Len(p) : i \in 1..Len(u) /\ u[i] = p[i]
      /\ Len(p) + 1 \in 1..Len(u) /\ u[Len(p) + 1] = e[1]
  <2>1. 1 \in 1..Len(e)
    OBVIOUS
  <2> QED BY <2>1, ConcatFacts
<1> HIDE DEF t, u, d
<1>3. ASSUME NEW n \in S
      PROVE  \/ \E i \in 1..Len(u) : u[i].name = n
             \/ \E i \in 1..Len(t) : i <= d /\ t[i] = n
  <2>1. CASE \E i \in 1..Len(p) : p[i].name = n
    BY <1>2, <2>1, Zenon
  <2>2. ASSUME NEW i \in 1..Len(q), i <= c, q[i] = n
        PROVE  \/ \E j \in 1..Len(u) : u[j].name = n
               \/ \E j \in 1..Len(t) : j <= d /\ t[j] = n
    <3>1. CASE i = 1
      <4>1. u[Len(p) + 1].name = n
        BY <1>1, <1>2, <2>2, <3>1
      <4> QED BY <1>2, <4>1
    <3>2. CASE i # 1
      <4> DEFINE j == i - 1
      <4>1. j \in 1..Len(t) /\ j <= d /\ i = j + 1
        BY <1>1, <2>2, <3>2 DEF d
      <4> HIDE DEF j
      <4>2. t[j] = n
        BY <1>1, <2>2, <4>1
      <4> QED BY <4>1, <4>2
    <3> QED BY <3>1, <3>2
  <2> QED BY <2>1, <2>2, Zenon DEF Coming
<1>4. Coming(S, t, d, u)
  BY <1>3, Zenon DEF Coming
<1> QED BY <1>4 DEF t, u, d

\* The handler has been given the first event.
LEMMA ComingTail ==
  ASSUME NEW S, NEW q, NEW c, NEW p \in Seq(Event), p # <<>>, Coming(S, q, c, p)
  PROVE  Coming(S \ {Head(p).name}, q, c, Tail(p))
<1> DEFINE t == Tail(p)
<1>1. /\ Len(t) = Len(p) - 1 /\ Len(p) \in Nat \ {0} /\ Head(p) = p[1]
      /\ \A i \in 1..Len(t) : t[i] = p[i + 1]
  BY TailFacts
<1> HIDE DEF t
<1>2. ASSUME NEW n \in S \ {Head(p).name}, NEW i \in 1..Len(p), p[i].name = n
      PROVE  \E j \in 1..Len(t) : t[j].name = n
  <2> DEFINE j == i - 1
  <2>1. j \in 1..Len(t) /\ i = j + 1
    BY <1>1, <1>2
  <2> HIDE DEF j
  <2>2. t[j].name = n
    BY <1>1, <1>2, <2>1
  <2> QED BY <2>1, <2>2
<1>3. Coming(S \ {Head(p).name}, q, c, t)
  BY <1>2 DEF Coming
<1> QED BY <1>3 DEF t

-----------------------------------------------------------------------------
(* The steps of an informer and its config *)

\* A step that does not concern the objects of kind k.
SameKind(k) ==
  /\ api'[k] = api[k] /\ watching'[k] = watching[k] /\ deltas'[k] = deltas[k]
  /\ queue'[k] = queue[k] /\ populated'[k] = populated[k]
  /\ initialCount'[k] = initialCount[k] /\ indexer'[k] = indexer[k]
  /\ pending'[k] = pending[k] /\ run'[k] = run[k] /\ given'[k] = given[k]
  /\ initial'[k] = initial[k] /\ raced'[k] = raced[k]

\* Such a step keeps the invariant of the kind.
LEMMA SameKindInv ==
  ASSUME NEW k \in Kinds, KindInv(k), SameKind(k)
  PROVE  KindInv(k)'
BY Zenon DEF KindInv, SameKind, QueueInv, DeltaInv, ChainInv, FirstListInv, HasSynced

\* The start of Run of a config, its end, and a watch that breaks.
LEMMA SmallSteps ==
  ASSUME TypeInv, NEW k \in Kinds, KindInv(k),
         StartConfig(k) \/ RunConfig(k) \/ WatchBreaks(k)
  PROVE  TypeInv' /\ KindInv(k)' /\ \A j \in Kinds \ {k} : SameKind(j)
<1> USE DEF TypeInv, fifo
<1>1. CASE StartConfig(k)
  <2>1. /\ UNCHANGED <<api, watching, fifo, indexer, pending, given, initial, raced>>
        /\ handlers' = [handlers EXCEPT ![k] = TRUE] /\ run' = [run EXCEPT ![k] = "waiting"]
    BY <1>1 DEF StartConfig
  <2>2. run'[k] = "waiting"
    BY <2>1
  <2>3. TypeInv' /\ \A j \in Kinds \ {k} : SameKind(j)
    BY <2>1 DEF SameKind
  <2>4. KindInv(k)'
    BY <2>1, <2>2, Zenon DEF KindInv, QueueInv, DeltaInv, ChainInv, FirstListInv
  <2> QED BY <2>3, <2>4, Zenon
<1>2. CASE RunConfig(k)
  <2>1. /\ UNCHANGED <<api, watching, fifo, indexer, pending, handlers, given, initial, raced>>
        /\ run' = [run EXCEPT ![k] = "synced"] /\ HasSynced(k)
    BY <1>2 DEF RunConfig
  <2>2. TypeInv' /\ \A j \in Kinds \ {k} : SameKind(j)
    BY <2>1, Zenon DEF SameKind
  <2>3. KindInv(k)'
    BY <2>1, Zenon DEF KindInv, QueueInv, DeltaInv, ChainInv, FirstListInv, HasSynced
  <2> QED BY <2>2, <2>3
<1>3. CASE WatchBreaks(k)
  <2>1. /\ UNCHANGED <<api, fifo, indexer, pending, handlers, run, given, initial, raced>>
        /\ watching' = [watching EXCEPT ![k] = FALSE] /\ watching[k]
    BY <1>3 DEF WatchBreaks
  <2>2. TypeInv' /\ \A j \in Kinds \ {k} : SameKind(j)
    BY <2>1, Zenon DEF SameKind
  <2>3. KindInv(k)'
    BY <2>1, Zenon DEF KindInv, QueueInv, DeltaInv, ChainInv, FirstListInv, HasSynced
  <2> QED BY <2>2, <2>3
<1> QED BY <1>1, <1>2, <1>3, Zenon

\* The handler is given an event.
LEMMA DeliverInv ==
  ASSUME TypeInv, NEW k \in Kinds, KindInv(k), handlers[k], Deliver(k)
  PROVE  TypeInv' /\ KindInv(k)' /\ \A j \in Kinds \ {k} : SameKind(j)
<1> DEFINE p == pending[k]
           e == Head(p)
<1>1. /\ p # <<>> /\ pending' = [pending EXCEPT ![k] = Tail(@)]
      /\ given' = [given EXCEPT ![k][e.name] = e.new]
      /\ initial' = [initial EXCEPT ![k] = @ \ {e.name}]
      /\ UNCHANGED <<api, watching, deltas, queue, populated, initialCount, indexer,
                     handlers, run, raced>>
  BY DEF Deliver, fifo
<1>2. p \in Seq(Event) /\ given[k] \in Objects /\ indexer[k] \in Objects /\ raced[k] \in BOOLEAN
  BY DEF TypeInv
<1>3. Tail(p) \in Seq(Event) /\ e \in Event
  BY <1>1, <1>2, TailFacts
<1>4. e.name \in Names /\ e.new \in AllObjs \cup {Nil}
  BY <1>3 DEF Event
<1>5. /\ pending'[k] = Tail(p) /\ given'[k] = [given[k] EXCEPT ![e.name] = e.new]
      /\ initial'[k] = initial[k] \ {e.name}
  BY <1>1, Zenon DEF TypeInv
<1>6. TypeInv'
  <2>1. pending' \in [Kinds -> Seq(Event)]
    BY <1>1, <1>3 DEF TypeInv
  <2>2. given' \in [Kinds -> Objects]
    BY <1>1, <1>4, Zenon DEF TypeInv, Objects
  <2>3. initial' \in [Kinds -> SUBSET Names]
    BY <1>1, Zenon DEF TypeInv
  <2> QED BY <1>1, <2>1, <2>2, <2>3, Zenon DEF TypeInv
<1>7. \A j \in Kinds \ {k} : SameKind(j)
  BY <1>1, Zenon DEF TypeInv, SameKind
<1>8. QueueInv(k)' /\ DeltaInv(k)'
  BY <1>1, Zenon DEF KindInv, QueueInv, DeltaInv
<1>9. ChainInv(k)'
  <2>1. Chain(p, given[k], indexer[k], raced[k])
    BY Zenon DEF KindInv, ChainInv
  <2>2. Chain(Tail(p), [given[k] EXCEPT ![e.name] = e.new], indexer[k], raced[k])
    BY <1>1, <1>2, <2>1, ChainTail, Zenon
  <2> QED BY <1>1, <1>5, <2>2, Zenon DEF ChainInv
<1>10. FirstListInv(k)'
  <2>1. Coming(initial[k], queue[k], initialCount[k], p)
    BY Zenon DEF KindInv, FirstListInv
  <2>2. Coming(initial[k] \ {e.name}, queue[k], initialCount[k], Tail(p))
    BY <1>1, <1>2, <2>1, ComingTail
  <2> HIDE DEF p, e
  <2>3. initial[k] = {} => initial'[k] = {}
    BY <1>5
  <2> QED BY <1>1, <1>5, <2>2, <2>3, Zenon DEF KindInv, FirstListInv, HasSynced
<1> QED BY <1>6, <1>7, <1>8, <1>9, <1>10 DEF KindInv

\* The events about the item of a name lead from the cached object to the one
\* after the last delta.
LEMMA NotificationFacts ==
  ASSUME TypeInv, NEW k \in Kinds, KindInv(k), NEW n \in Names, deltas[k][n] # <<>>,
         NEW events, events = [i \in 1..Len(deltas[k][n]) |-> Notification(k, n, i)]
  PROVE  /\ events \in Seq(Event) /\ Len(events) = Len(deltas[k][n])
         /\ events # <<>> /\ Len(events) \in Nat \ {0}
         /\ Follows(events, n, indexer[k][n], raced[k]) /\ events[1].name = n
         /\ events[Len(events)].new = After(Newest(deltas[k][n]))
<1> DEFINE d == deltas[k][n]
           o == indexer[k][n]
           L == Len(d)
<1>1. d \in Seq(Delta) /\ o \in AllObjs \cup {Nil} /\ raced[k] \in BOOLEAN
  BY DEF TypeInv, Objects
<1>2. L \in Nat \ {0} /\ \A i \in 1..L : d[i] \in Delta
  <2>1. L \in Nat \ {0}
    BY <1>1
  <2>2. \A i \in 1..L : d[i] \in Delta
    BY <1>1
  <2> QED BY <2>1, <2>2, Zenon
<1>3. \A i \in 1..L : After(d[i]) \in AllObjs \cup {Nil}
  BY <1>2, Zenon DEF After, Delta
<1>4. \A i \in 1..L : Before(k, n, i) = Preceding(d, o, i)
  BY DEF Before, Preceding
<1>5. \A i \in 1..L : Preceding(d, o, i) \in AllObjs \cup {Nil}
  BY <1>1, <1>2, <1>3 DEF Preceding
<1>6. \A i \in 1..L : Notification(k, n, i) =
        [name |-> n, new |-> After(d[i]), tombstone |-> d[i].tombstone,
         old |-> IF d[i].type = "Deleted" THEN d[i].obj ELSE Preceding(d, o, i)]
  BY <1>4, Zenon DEF Notification
<1>7. ASSUME NEW i \in 1..L PROVE Notification(k, n, i) \in Event
  <2>1. /\ d[i] \in Delta /\ After(d[i]) \in AllObjs \cup {Nil}
        /\ Preceding(d, o, i) \in AllObjs \cup {Nil}
    BY <1>2, <1>3, <1>5, Zenon
  <2>2. Notification(k, n, i) =
          [name |-> n, new |-> After(d[i]), tombstone |-> d[i].tombstone,
           old |-> IF d[i].type = "Deleted" THEN d[i].obj ELSE Preceding(d, o, i)]
    BY <1>6, Zenon
  <2> QED BY <2>1, <2>2, SMTT(20) DEF Event, Delta
<1>8. events = [i \in 1..L |-> Notification(k, n, i)]
  OBVIOUS
<1>9. Deletes(d, o, raced[k])
  BY Zenon DEF KindInv, DeltaInv
<1> HIDE DEF d, o, L
<1>10. events \in Seq(Event) /\ Len(events) = L
  BY <1>2, <1>7, <1>8
<1>11. \A i \in 1..L : events[i] = Notification(k, n, i)
  BY <1>8, Zenon
<1>12. ASSUME NEW i \in 1..L
       PROVE  Fits(IF i = 1 THEN o ELSE events[i - 1].new, events[i], raced[k])
  <2>1. (IF i = 1 THEN o ELSE events[i - 1].new) = Preceding(d, o, i)
    <3>1. CASE i = 1
      BY <3>1 DEF Preceding
    <3>2. CASE i # 1
      <4> DEFINE j == i - 1
      <4>1. j \in 1..L /\ Preceding(d, o, i) = After(d[j])
        BY <1>2, <3>2 DEF Preceding
      <4> SUFFICES events[j].new = After(d[j])
        BY <3>2, <4>1, Zenon
      <4> HIDE DEF j
      <4>2. events[j] = Notification(k, n, j)
        BY <1>11, <4>1
      <4>3. Notification(k, n, j).new = After(d[j])
        BY <1>6, <4>1
      <4> QED BY <4>2, <4>3
    <3> QED BY <3>1, <3>2, Zenon
  <2>0. events[i] = [name |-> n, new |-> After(d[i]), tombstone |-> d[i].tombstone,
                     old |-> IF d[i].type = "Deleted" THEN d[i].obj ELSE Preceding(d, o, i)]
    BY <1>6, <1>11, Zenon
  <2>2. CASE d[i].type = "Deleted"
    <3>1. events[i].new = Nil /\ events[i].old = d[i].obj
      BY <2>0, <2>2, SMTT(30) DEF After
    <3>2. /\ Preceding(d, o, i) # Nil
          /\ raced[k] \/ d[i].obj = Preceding(d, o, i)
      BY <1>9, <2>2, Zenon DEF Deletes, L
    <3> QED BY <2>1, <3>1, <3>2, Zenon DEF Fits
  <2>3. CASE d[i].type # "Deleted"
    <3>1. events[i].new # Nil /\ events[i].old = Preceding(d, o, i)
      BY <1>2, <2>0, <2>3, NilNoObject, SMTT(30) DEF After, Delta
    <3> QED BY <2>1, <3>1, Zenon DEF Fits
  <2> QED BY <2>2, <2>3, Zenon
<1>13. ASSUME NEW i \in 1..L PROVE events[i].name = n /\ events[i].new = After(d[i])
  <2>1. events[i] = [name |-> n, new |-> After(d[i]), tombstone |-> d[i].tombstone,
                     old |-> IF d[i].type = "Deleted" THEN d[i].obj ELSE Preceding(d, o, i)]
    BY <1>6, <1>11, Zenon
  <2> QED BY <2>1, SMTT(30)
<1>14. events[L].new = After(Newest(d))
  <2>1. L \in 1..L
    BY <1>2
  <2> QED BY <1>13, <2>1, Zenon DEF Newest, L
<1>15. events # <<>>
  BY <1>2, <1>10
<1>16. Follows(events, n, o, raced[k])
  <2> SUFFICES ASSUME NEW i \in 1..Len(events)
               PROVE  /\ events[i].name = n
                      /\ Fits(IF i = 1 THEN o ELSE events[i - 1].new, events[i], raced[k])
    BY Zenon DEF Follows
  <2>1. i \in 1..L
    BY <1>10
  <2> QED BY <1>12, <1>13, <2>1, Zenon
<1>17. events[1].name = n
  <2>1. 1 \in 1..L
    BY <1>2
  <2> QED BY <1>13, <2>1, Zenon
<1> QED BY <1>2, <1>10, <1>14, <1>15, <1>16, <1>17, Zenon DEF d, o, L

\* The item of the first name in the queue goes to the cache and to the events.
LEMMA HandleDeltasInv ==
  ASSUME TypeInv, NEW k \in Kinds, KindInv(k), HandleDeltas(k)
  PROVE  TypeInv' /\ KindInv(k)' /\ \A j \in Kinds \ {k} : SameKind(j)
<1> DEFINE n == Head(queue[k])
           d == deltas[k][n]
           events == [i \in 1..Len(d) |-> Notification(k, n, i)]
<1>1. /\ queue[k] # <<>>
      /\ indexer' = [indexer EXCEPT ![k][n] = After(Newest(d))]
      /\ pending' = [pending EXCEPT ![k] = @ \o events]
      /\ deltas' = [deltas EXCEPT ![k][n] = <<>>]
      /\ queue' = [queue EXCEPT ![k] = Tail(@)]
      /\ initialCount' = [initialCount EXCEPT ![k] = IF @ > 0 THEN @ - 1 ELSE 0]
      /\ UNCHANGED <<api, watching, populated, handlers, run, given, initial, raced>>
  BY Zenon DEF HandleDeltas
<1>2. queue[k] \in Seq(Names) /\ Queued(queue[k], deltas[k])
  BY DEF TypeInv, KindInv, QueueInv
<1>3. /\ Tail(queue[k]) \in Seq(Names) /\ Len(Tail(queue[k])) = Len(queue[k]) - 1
      /\ Len(queue[k]) \in Nat \ {0} /\ n = queue[k][1] /\ n \in Names
      /\ \A i \in 1..Len(Tail(queue[k])) :
           Tail(queue[k])[i] = queue[k][i + 1] /\ i + 1 \in 2..Len(queue[k])
  BY <1>1, <1>2, TailFacts, Zenon
<1>4. d # <<>>
  BY <1>2, <1>3 DEF Queued
<1>5. /\ events \in Seq(Event) /\ events # <<>> /\ Len(events) \in Nat \ {0}
      /\ Follows(events, n, indexer[k][n], raced[k]) /\ events[1].name = n
      /\ events[Len(events)].new = After(Newest(d))
  <2>1. events = [i \in 1..Len(deltas[k][n]) |-> Notification(k, n, i)]
    OBVIOUS
  <2>2. n \in Names /\ deltas[k][n] # <<>>
    BY <1>3, <1>4, Zenon
  <2> HIDE DEF events, n
  <2> QED BY <2>1, <2>2, NotificationFacts, SMTT(20)
<1> HIDE DEF events
<1>6. After(Newest(d)) \in AllObjs \cup {Nil}
  <2>1. events[Len(events)] \in Event
    BY <1>5
  <2> QED BY <1>5, <2>1, Zenon DEF Event
<1>7. pending[k] \in Seq(Event) /\ pending[k] \o events \in Seq(Event)
  BY <1>5 DEF TypeInv
<1>8. /\ indexer'[k] = [indexer[k] EXCEPT ![n] = After(Newest(d))]
      /\ pending'[k] = pending[k] \o events
      /\ deltas'[k] = [deltas[k] EXCEPT ![n] = <<>>]
      /\ queue'[k] = Tail(queue[k])
      /\ initialCount'[k] = IF initialCount[k] > 0 THEN initialCount[k] - 1 ELSE 0
  BY <1>1, Zenon DEF TypeInv
<1> HIDE DEF n, d
<1>9. TypeInv'
  <2>1. indexer' \in [Kinds -> Objects]
    BY <1>1, <1>3, <1>6, Zenon DEF TypeInv, Objects
  <2>2. pending' \in [Kinds -> Seq(Event)]
    BY <1>1, <1>7, Zenon DEF TypeInv
  <2>3. deltas' \in [Kinds -> [Names -> Seq(Delta)]]
    <3>1. <<>> \in Seq(Delta)
      OBVIOUS
    <3> QED BY <1>1, <3>1, Zenon DEF TypeInv
  <2>4. queue' \in [Kinds -> Seq(Names)]
    BY <1>1, <1>3, Zenon DEF TypeInv
  <2>5. initialCount' \in [Kinds -> Nat]
    BY <1>1 DEF TypeInv
  <2> QED BY <1>1, <2>1, <2>2, <2>3, <2>4, <2>5, Zenon DEF TypeInv
<1>10. \A j \in Kinds \ {k} : SameKind(j)
  BY <1>1, Zenon DEF TypeInv, SameKind
<1>11. \A m \in Names : deltas'[k][m] = IF m = n THEN <<>> ELSE deltas[k][m]
  BY <1>8, Zenon DEF TypeInv
<1>12. \A m \in Names : indexer'[k][m] = IF m = n THEN After(Newest(d)) ELSE indexer[k][m]
  <2>1. indexer[k] \in [Names -> AllObjs \cup {Nil}]
    BY Zenon DEF TypeInv, Objects
  <2>2. indexer'[k] = [indexer[k] EXCEPT ![n] = After(Newest(d))]
    BY <1>8, Zenon
  <2> QED BY <2>1, <2>2, Zenon
<1>13. QueueInv(k)'
  <2> DEFINE q == queue[k]
             t == Tail(queue[k])
  <2>0. \A i \in 1..Len(q) : q[i] \in Names
    BY <1>2
  <2>1. /\ Len(q) \in Nat \ {0} /\ Len(t) = Len(q) - 1 /\ n = q[1]
        /\ \A i \in 1..Len(t) : t[i] = q[i + 1] /\ i + 1 \in 2..Len(q)
    BY <1>3, Zenon
  <2>2. /\ \A i \in 1..Len(q) : deltas[k][q[i]] # <<>>
        /\ \A m \in Names : deltas[k][m] # <<>> => \E i \in 1..Len(q) : q[i] = m
        /\ \A i, j \in 1..Len(q) : q[i] = q[j] => i = j
    BY <1>2, Zenon DEF Queued
  <2> HIDE DEF q, t
  <2>3. ASSUME NEW i \in 1..Len(t) PROVE deltas'[k][t[i]] # <<>>
    <3>1. i + 1 \in 1..Len(q) /\ 1 \in 1..Len(q) /\ i + 1 # 1 /\ t[i] = q[i + 1]
      BY <2>1
    <3>2. q[i + 1] # n /\ q[i + 1] \in Names
      BY <2>0, <2>1, <2>2, <3>1, Zenon
    <3> QED BY <1>11, <2>2, <3>1, <3>2, SMTT(30)
  <2>4. ASSUME NEW m \in Names, deltas'[k][m] # <<>> PROVE \E i \in 1..Len(t) : t[i] = m
    <3>1. m # n /\ deltas[k][m] # <<>>
      BY <1>11, <2>4, Zenon
    <3>2. PICK i \in 1..Len(q) : q[i] = m
      BY <2>2, <3>1, Zenon
    <3>3. i # 1
      BY <2>1, <3>1, <3>2, Zenon
    <3> DEFINE j == i - 1
    <3>4. j \in 1..Len(t) /\ i = j + 1
      BY <2>1, <3>3
    <3> HIDE DEF j
    <3> QED BY <2>1, <3>2, <3>4, Zenon
  <2>5. ASSUME NEW i \in 1..Len(t), NEW j \in 1..Len(t), t[i] = t[j] PROVE i = j
    <3>1. i + 1 \in 1..Len(q) /\ j + 1 \in 1..Len(q) /\ q[i + 1] = q[j + 1]
      BY <2>1, <2>5, SMTT(30)
    <3>2. i + 1 = j + 1
      BY <2>2, <3>1, Zenon
    <3> QED BY <3>2
  <2>6. Queued(t, deltas'[k])
    BY <2>3, <2>4, <2>5, Zenon DEF Queued
  <2> QED BY <1>8, <2>6, Zenon DEF QueueInv, t
<1>14. DeltaInv(k)'
  <2>1. Deletes(<<>>, indexer'[k][n], raced'[k])
    BY DEF Deletes
  <2>2. Final(<<>>, indexer'[k][n]) = After(Newest(d))
    BY <1>3, <1>12, Zenon DEF Final
  <2>3. Final(deltas[k][n], indexer[k][n]) = After(Newest(d))
    BY <1>4, Zenon DEF Final, Newest, d
  <2> QED BY <1>1, <1>11, <1>12, <2>1, <2>2, <2>3, SMTT(20) DEF KindInv, DeltaInv
<1>15. ChainInv(k)'
  <2>1. /\ Chain(pending[k], given[k], indexer[k], raced[k])
        /\ given[k] \in Objects /\ indexer[k] \in Objects /\ raced[k] \in BOOLEAN
    BY DEF KindInv, ChainInv, TypeInv
  <2>2. Chain(pending[k] \o events, given[k],
              [indexer[k] EXCEPT ![n] = events[Len(events)].new], raced[k])
    BY <1>3, <1>5, <1>7, <2>1, ChainConcat, Zenon
  <2> QED BY <1>1, <1>5, <1>8, <2>2, Zenon DEF ChainInv
<1>16. FirstListInv(k)'
  <2>1. /\ Coming(initial[k], queue[k], initialCount[k], pending[k])
        /\ initialCount[k] \in Nat
    BY Zenon DEF KindInv, FirstListInv, TypeInv
  <2>2. events[1].name = Head(queue[k])
    BY <1>5, Zenon DEF n
  <2>3. Coming(initial[k], Tail(queue[k]),
               IF initialCount[k] > 0 THEN initialCount[k] - 1 ELSE 0, pending[k] \o events)
    BY <1>1, <1>2, <1>5, <1>7, <2>1, <2>2, ComingPop, Zenon
  <2>4. populated[k]
    BY <1>1, Zenon DEF KindInv, FirstListInv
  <2>5. HasSynced(k) => HasSynced(k)'
    BY <1>1, <1>8, <2>1 DEF HasSynced
  <2> QED BY <1>1, <1>8, <2>3, <2>4, <2>5, Zenon DEF KindInv, FirstListInv
<1> QED BY <1>9, <1>10, <1>13, <1>14, <1>15, <1>16 DEF KindInv

\* What an informer with a list keeps when names are added to its queue.
LEMMA EnqueuedInv ==
  ASSUME TypeInv, NEW k \in Kinds, KindInv(k), NEW items \in [Names -> Seq(Delta)],
         \A n \in Names : deltas[k][n] # <<>> => items[n] # <<>>,
         Enqueue(k, items), populated[k],
         UNCHANGED <<populated, initialCount, indexer, pending, handlers, run, given,
                     initial, raced>>
  PROVE  /\ deltas' \in [Kinds -> [Names -> Seq(Delta)]] /\ queue' \in [Kinds -> Seq(Names)]
         /\ deltas'[k] = items /\ QueueInv(k)' /\ ChainInv(k)' /\ FirstListInv(k)'
         /\ \A j \in Kinds \ {k} : deltas'[j] = deltas[j] /\ queue'[j] = queue[j]
<1>1. QueueInv(k)
  BY Zenon DEF KindInv
<1>2. /\ deltas' \in [Kinds -> [Names -> Seq(Delta)]] /\ queue' \in [Kinds -> Seq(Names)]
      /\ deltas'[k] = items /\ QueueInv(k)'
      /\ \E order \in Seq(Names) : queue'[k] = queue[k] \o order
      /\ \A j \in Kinds \ {k} : deltas'[j] = deltas[j] /\ queue'[j] = queue[j]
  BY <1>1, EnqueueFacts, Zenon
<1>3. ChainInv(k)'
  BY Zenon DEF KindInv, ChainInv
<1>4. FirstListInv(k)'
  <2>1. /\ Coming(initial[k], queue[k], initialCount[k], pending[k])
        /\ run[k] = "synced" => HasSynced(k)
    BY Zenon DEF KindInv, FirstListInv
  <2>2. queue[k] \in Seq(Names) /\ initialCount[k] \in Nat
    BY DEF TypeInv
  <2>3. Coming(initial[k], queue'[k], initialCount[k], pending[k])
    BY <1>2, <2>1, <2>2, ComingConcat, Zenon
  <2> QED BY <2>1, <2>3, Zenon DEF FirstListInv, HasSynced
<1> QED BY <1>2, <1>3, <1>4, Zenon

\* An object is created, changed or deleted.
LEMMA ChangeInv ==
  ASSUME TypeInv, NEW k \in Kinds, KindInv(k), NEW n \in Names,
         NEW o \in AllObjs \cup {Nil}, Change(k, n, o)
  PROVE  TypeInv' /\ KindInv(k)' /\ \A j \in Kinds \ {k} : SameKind(j)
<1> DEFINE old  == api[k][n]
           d    == IF o = Nil THEN Deleted(old) ELSE Set(o)
           skip == o = Nil /\ indexer[k][n] = Nil /\ deltas[k][n] = <<>>
           s    == deltas[k][n]
           c    == indexer[k][n]
           t    == queueAction(s, d)
<1>1. /\ o # old /\ api' = [api EXCEPT ![k][n] = o]
      /\ IF watching[k] /\ ~skip
         THEN Enqueue(k, [deltas[k] EXCEPT ![n] = queueAction(@, d)])
         ELSE UNCHANGED <<deltas, queue>>
      /\ UNCHANGED <<watching, populated, initialCount, indexer, pending, handlers, run,
                     given, initial, raced>>
  BY Zenon DEF Change
<1>2. /\ api' \in [Kinds -> Objects] /\ \A j \in Kinds \ {k} : api'[j] = api[j]
      /\ \A m \in Names : api'[k][m] = IF m = n THEN o ELSE api[k][m]
  BY <1>1, Zenon DEF TypeInv, Objects
<1>3. /\ s \in Seq(Delta) /\ c \in AllObjs \cup {Nil} /\ old \in AllObjs \cup {Nil}
      /\ raced[k] \in BOOLEAN /\ Deletes(s, c, raced[k])
  BY SMTT(30) DEF TypeInv, Objects, KindInv, DeltaInv
<1>4. d \in Delta /\ After(d) = o /\ d.type # "Sync" /\ (d.type = "Deleted" <=> o = Nil)
  BY <1>1, <1>3, Zenon DEF Deleted, Set, Delta, After
<1>5. CASE watching[k] /\ ~skip
  <2> DEFINE items == [deltas[k] EXCEPT ![n] = t]
  <2>1. ~raced[k] => Final(s, c) = old
    BY <1>5, Zenon DEF KindInv, DeltaInv
  <2>2. o = Nil => old # Nil /\ d.obj = old
    BY <1>1, Zenon DEF Deleted
  <2>3. d.type = "Deleted" =>
          /\ s = <<>> => c # Nil
          /\ raced[k] \/ (~IsDeleted(s) /\ d.obj = Final(s, c))
    <3>1. IsDeleted(s) => Final(s, c) = Nil
      BY Zenon DEF IsDeleted, Final, After, Newest
    <3> HIDE DEF d
    <3> QED BY <1>4, <1>5, <2>1, <2>2, <3>1, Zenon
  <2> HIDE DEF d, c, s, old
  <2>4. /\ t \in Seq(Delta) /\ t # <<>> /\ Deletes(t, c, raced[k]) /\ Final(t, c) = o
    BY <1>3, <1>4, <2>3, queueActionFacts, Zenon
  <2>5. /\ items \in [Names -> Seq(Delta)]
        /\ \A m \in Names : items[m] = IF m = n THEN t ELSE deltas[k][m]
    BY <2>4, Zenon DEF TypeInv
  <2>6. \A m \in Names : deltas[k][m] # <<>> => items[m] # <<>>
    BY <2>4, <2>5, Zenon
  <2>7. Enqueue(k, items)
    BY <1>1, <1>5 DEF s
  <2>8. populated[k]
    BY <1>5, Zenon DEF KindInv, FirstListInv
  <2> HIDE DEF items, t
  <2>9. /\ deltas' \in [Kinds -> [Names -> Seq(Delta)]] /\ queue' \in [Kinds -> Seq(Names)]
        /\ deltas'[k] = items /\ QueueInv(k)' /\ ChainInv(k)' /\ FirstListInv(k)'
        /\ \A j \in Kinds \ {k} : deltas'[j] = deltas[j] /\ queue'[j] = queue[j]
    <3>1. UNCHANGED <<populated, initialCount, indexer, pending, handlers, run, given,
                      initial, raced>>
      BY <1>1
    <3> QED BY <2>5, <2>6, <2>7, <2>8, <3>1, EnqueuedInv, Zenon
  <2>10. DeltaInv(k)'
    <3>0. /\ \A m \in Names : deltas'[k][m] = IF m = n THEN t ELSE deltas[k][m]
          /\ UNCHANGED <<indexer, raced, watching>>
      BY <1>1, <2>5, <2>9, Zenon
    <3>1. ASSUME NEW m \in Names PROVE Deletes(deltas'[k][m], indexer'[k][m], raced'[k])
      <4>1. CASE m = n
        BY <2>4, <3>0, <4>1, Zenon DEF c
      <4>2. CASE m # n
        BY <3>0, <4>2, Zenon DEF KindInv, DeltaInv
      <4> QED BY <4>1, <4>2, Zenon
    <3>2. ASSUME watching'[k], ~raced'[k], NEW m \in Names
          PROVE  Final(deltas'[k][m], indexer'[k][m]) = api'[k][m]
      <4>1. CASE m = n
        BY <1>2, <2>4, <3>0, <4>1, Zenon DEF c
      <4>2. CASE m # n
        BY <1>2, <3>0, <3>2, <4>2, Zenon DEF KindInv, DeltaInv
      <4> QED BY <4>1, <4>2, Zenon
    <3> QED BY <3>1, <3>2, Zenon DEF DeltaInv
  <2>11. TypeInv'
    BY <1>1, <1>2, <2>9, Zenon DEF TypeInv
  <2>12. \A j \in Kinds \ {k} : SameKind(j)
    BY <1>1, <1>2, <2>9, Zenon DEF SameKind
  <2> QED BY <2>9, <2>10, <2>11, <2>12, Zenon DEF KindInv
<1>6. CASE ~(watching[k] /\ ~skip)
  <2>1. UNCHANGED <<deltas, queue>>
    BY <1>1, <1>6, Zenon
  <2>2. TypeInv' /\ \A j \in Kinds \ {k} : SameKind(j)
    BY <1>1, <1>2, <2>1, Zenon DEF TypeInv, SameKind
  <2>3. QueueInv(k)' /\ ChainInv(k)' /\ FirstListInv(k)'
    BY <1>1, <2>1, Zenon DEF KindInv, QueueInv, ChainInv, FirstListInv, HasSynced
  <2>4. DeltaInv(k)'
    <3>1. watching[k] => Final(s, c) = o
      BY <1>6, Zenon DEF Final
    <3> HIDE DEF d, t, skip, old
    <3>2. ASSUME watching'[k], ~raced'[k], NEW m \in Names
          PROVE  Final(deltas'[k][m], indexer'[k][m]) = api'[k][m]
      BY <1>1, <1>2, <2>1, <3>1, <3>2, Zenon DEF KindInv, DeltaInv
    <3> QED BY <1>1, <2>1, <3>2, Zenon DEF KindInv, DeltaInv
  <2> QED BY <2>2, <2>3, <2>4 DEF KindInv
<1> QED BY <1>5, <1>6, Zenon

\* The item that Replace makes of s, when the API server has a and the cache o.
Replaced(s, a, o) ==
  IF a # Nil THEN queueAction(s, Sync(a))
  ELSE IF o # Nil THEN queueAction(s, Tombstone(o)) ELSE s

\* An item t deletes what is there, is there when it has to be, and ends at a when
\* the list did not race.
ItemAfterList(t, s, a, o, r) ==
  /\ t \in Seq(Delta) /\ Deletes(t, o, r)
  /\ s # <<>> \/ a # Nil => t # <<>>
  /\ s = <<>> /\ a = Nil /\ o = Nil => t = <<>>
  /\ r = TRUE \/ Final(t, o) = a

\* Replace makes such an item.
LEMMA ReplacedFacts ==
  ASSUME NEW s \in Seq(Delta), NEW a \in AllObjs \cup {Nil}, NEW o \in AllObjs \cup {Nil},
         NEW r \in BOOLEAN, Deletes(s, o, r), r = TRUE \/ s = <<>>
  PROVE  ItemAfterList(Replaced(s, a, o), s, a, o, r)
<1> DEFINE t == Replaced(s, a, o)
           Good == ItemAfterList(t, s, a, o, r)
<1> SUFFICES Good
  OBVIOUS
<1> USE DEF ItemAfterList
<1>0. s = <<>> => ~IsDeleted(s) /\ Final(s, o) = o
  BY DEF IsDeleted, Final
<1>1. CASE a # Nil
  <2> DEFINE d == Sync(a)
  <2>1. t = queueAction(s, d)
    BY <1>1 DEF Replaced
  <2>2. d \in Delta /\ d.type = "Sync" /\ After(d) = a
    BY <1>1 DEF Sync, Delta, After
  <2> HIDE DEF d, t
  <2>3. d.type = "Deleted" =>
          /\ s = <<>> => o # Nil
          /\ r \/ (~IsDeleted(s) /\ d.obj = Final(s, o))
    BY <2>2
  <2>4. /\ queueAction(s, d) \in Seq(Delta) /\ queueAction(s, d) # <<>>
        /\ Deletes(queueAction(s, d), o, r)
        /\ Final(queueAction(s, d), o) = IF d.type = "Sync" /\ IsDeleted(s) THEN Nil ELSE After(d)
    BY <2>2, <2>3, queueActionFacts, Zenon
  <2> QED BY <1>0, <1>1, <2>1, <2>2, <2>4, Zenon
<1>2. CASE a = Nil /\ o # Nil
  <2> DEFINE d == Tombstone(o)
  <2>1. t = queueAction(s, d)
    BY <1>2 DEF Replaced
  <2>2. d \in Delta /\ d.type = "Deleted" /\ d.obj = o /\ After(d) = Nil
    BY <1>2 DEF Tombstone, Delta, After
  <2> HIDE DEF d, t
  <2>3. /\ s = <<>> => o # Nil
        /\ r \/ (~IsDeleted(s) /\ d.obj = Final(s, o))
    BY <1>0, <1>2, <2>2
  <2>4. /\ queueAction(s, d) \in Seq(Delta) /\ queueAction(s, d) # <<>>
        /\ Deletes(queueAction(s, d), o, r)
        /\ Final(queueAction(s, d), o) = IF d.type = "Sync" /\ IsDeleted(s) THEN Nil ELSE After(d)
    BY <2>2, <2>3, queueActionFacts, Zenon
  <2> QED BY <1>2, <2>1, <2>2, <2>4
<1>3. CASE a = Nil /\ o = Nil
  <2>1. t = s
    BY <1>3 DEF Replaced
  <2> HIDE DEF t
  <2> QED BY <1>0, <1>3, <2>1
<1> QED BY <1>1, <1>2, <1>3, Zenon

\* A list of the objects.
LEMMA ReplaceInv ==
  ASSUME TypeInv, NEW k \in Kinds, KindInv(k), Replace(k)
  PROVE  TypeInv' /\ KindInv(k)' /\ \A j \in Kinds \ {k} : SameKind(j)
<1> DEFINE items == [n \in Names |-> Replaced(deltas[k][n], api[k][n], indexer[k][n])]
           listed == {n \in Names : api[k][n] # Nil}
           fresh == {n \in Names : deltas[k][n] = <<>> /\ items[n] # <<>>}
           r == raced[k] \/ queue[k] # <<>>
<1>1. /\ ~watching[k] /\ watching' = [watching EXCEPT ![k] = TRUE]
      /\ Enqueue(k, items)
      /\ populated' = [populated EXCEPT ![k] = TRUE]
      /\ initialCount' = [initialCount EXCEPT ![k] = IF populated[k] THEN @ ELSE Cardinality(listed)]
      /\ initial' = [initial EXCEPT ![k] = IF populated[k] THEN @ ELSE listed]
      /\ raced' = [raced EXCEPT ![k] = r]
      /\ UNCHANGED <<api, indexer, pending, handlers, run, given>>
  BY Zenon DEF Replace, Replaced
<1>2. Cardinality(listed) \in Nat
  BY NamesAssumption
<1>3. QueueInv(k) /\ DeltaInv(k) /\ ChainInv(k) /\ FirstListInv(k)
  BY DEF KindInv
<1>4. queue[k] = <<>> => \A n \in Names : deltas[k][n] = <<>>
  BY <1>3 DEF QueueInv, Queued
<1>5. r \in BOOLEAN /\ raced[k] \in BOOLEAN /\ queue[k] \in Seq(Names)
  BY DEF TypeInv
<1>6. ASSUME NEW n \in Names
      PROVE  /\ items[n] \in Seq(Delta) /\ Deletes(items[n], indexer[k][n], r)
             /\ deltas[k][n] # <<>> \/ api[k][n] # Nil => items[n] # <<>>
             /\ deltas[k][n] = <<>> /\ api[k][n] = Nil /\ indexer[k][n] = Nil => items[n] = <<>>
             /\ r = TRUE \/ Final(items[n], indexer[k][n]) = api[k][n]
  <2> DEFINE s == deltas[k][n]
             a == api[k][n]
             o == indexer[k][n]
  <2>1. s \in Seq(Delta) /\ a \in AllObjs \cup {Nil} /\ o \in AllObjs \cup {Nil}
    BY DEF TypeInv, Objects
  <2>2. r = TRUE \/ s = <<>>
    BY <1>4, Zenon
  <2>3. Deletes(s, o, r)
    <3>1. Deletes(s, o, raced[k])
      BY <1>3, Zenon DEF DeltaInv
    <3>2. r = raced[k] \/ r = TRUE
      BY <1>5, Zenon
    <3> HIDE DEF r, s, o
    <3> QED BY <1>5, <3>1, <3>2, RacedAsksLess, Zenon
  <2>4. items[n] = Replaced(s, a, o)
    BY Zenon
  <2> HIDE DEF s, a, o, r, items
  <2>5. ItemAfterList(Replaced(s, a, o), s, a, o, r)
    BY <1>5, <2>1, <2>2, <2>3, ReplacedFacts, Zenon
  <2> QED BY <2>4, <2>5, Zenon DEF s, a, o, ItemAfterList
<1>7. items \in [Names -> Seq(Delta)]
  BY <1>6, Zenon
<1> HIDE DEF items, r, listed
<1>8. /\ deltas' \in [Kinds -> [Names -> Seq(Delta)]] /\ queue' \in [Kinds -> Seq(Names)]
      /\ deltas'[k] = items /\ QueueInv(k)'
      /\ \E order \in Seq(Names) : queue'[k] = queue[k] \o order /\ Len(order) = Cardinality(fresh)
      /\ \A j \in Kinds \ {k} : deltas'[j] = deltas[j] /\ queue'[j] = queue[j]
  <2>1. \A n \in Names : deltas[k][n] # <<>> => items[n] # <<>>
    BY <1>6, Zenon
  <2> QED BY <1>1, <1>3, <1>7, <2>1, EnqueueFacts, Zenon
<1>9. /\ raced'[k] = r /\ watching'[k] = TRUE /\ populated'[k] = TRUE
      /\ initialCount'[k] = IF populated[k] THEN initialCount[k] ELSE Cardinality(listed)
      /\ initial'[k] = IF populated[k] THEN initial[k] ELSE listed
  BY <1>1, Zenon DEF TypeInv
<1> HIDE DEF fresh
<1>10. TypeInv'
  <2>1. listed \in SUBSET Names
    BY DEF listed
  <2>2. initial' \in [Kinds -> SUBSET Names]
    BY <1>1, <2>1, Zenon DEF TypeInv
  <2>3. initialCount' \in [Kinds -> Nat]
    BY <1>1, <1>2, Zenon DEF TypeInv
  <2>4. /\ watching' \in [Kinds -> BOOLEAN] /\ populated' \in [Kinds -> BOOLEAN]
        /\ raced' \in [Kinds -> BOOLEAN]
    BY <1>1, <1>5, Zenon DEF TypeInv
  <2> QED BY <1>1, <1>8, <2>2, <2>3, <2>4, Zenon DEF TypeInv
<1>11. \A j \in Kinds \ {k} : SameKind(j)
  BY <1>1, <1>8, Zenon DEF TypeInv, SameKind
<1>12. DeltaInv(k)'
  <2>1. \A n \in Names : Deletes(deltas'[k][n], indexer'[k][n], raced'[k])
    BY <1>1, <1>6, <1>8, <1>9, Zenon
  <2>2. ~raced'[k] => \A n \in Names : Final(deltas'[k][n], indexer'[k][n]) = api'[k][n]
    BY <1>1, <1>6, <1>8, <1>9, Zenon
  <2> QED BY <2>1, <2>2, Zenon DEF DeltaInv
<1>13. ChainInv(k)'
  <2>1. Chain(pending[k], given[k], indexer[k], raced[k])
    BY <1>3, Zenon DEF ChainInv
  <2>2. r = raced[k] \/ r = TRUE
    BY <1>5, Zenon DEF r
  <2>3. Chain(pending[k], given[k], indexer[k], r)
    BY <1>5, <2>1, <2>2, RacedAsksLess, Zenon
  <2> QED BY <1>1, <1>9, <2>3, Zenon DEF ChainInv
<1>14. FirstListInv(k)'
  <2>1. CASE populated[k]
    <3>1. Coming(initial[k], queue[k], initialCount[k], pending[k]) /\ initialCount[k] \in Nat
      BY <1>3, Zenon DEF FirstListInv, TypeInv
    <3>2. Coming(initial[k], queue'[k], initialCount[k], pending[k])
      <4>1. PICK order \in Seq(Names) : queue'[k] = queue[k] \o order
        BY <1>8, Zenon
      <4>2. queue[k] \in Seq(Names)
        BY <1>5
      <4> QED BY <3>1, <4>1, <4>2, ComingConcat, Zenon
    <3>3. run'[k] = "synced" => HasSynced(k)'
      BY <1>1, <1>3, <1>9, <2>1, Zenon DEF FirstListInv, HasSynced
    <3> QED BY <1>1, <1>9, <2>1, <3>2, <3>3, Zenon DEF FirstListInv
  <2>2. CASE ~populated[k]
    <3>1. queue[k] = <<>> /\ \A n \in Names : indexer[k][n] = Nil
      BY <1>3, <2>2, Zenon DEF FirstListInv
    <3>2. fresh = listed
      BY <1>4, <1>6, <3>1, Zenon DEF listed, fresh
    <3>3. PICK order \in Seq(Names) : queue'[k] = <<>> \o order /\ Len(order) = Cardinality(listed)
      BY <1>8, <3>1, <3>2, Zenon
    <3>4. Len(queue'[k]) = Cardinality(listed)
      BY <3>3
    <3>5. ASSUME NEW n \in listed
          PROVE  \E i \in 1..Len(queue'[k]) : i <= Cardinality(listed) /\ queue'[k][i] = n
      <4>1. n \in Names /\ deltas'[k][n] # <<>>
        BY <1>6, <1>8, Zenon DEF listed
      <4>2. PICK i \in 1..Len(queue'[k]) : queue'[k][i] = n
        BY <1>8, <4>1, Zenon DEF QueueInv, Queued
      <4> QED BY <1>2, <3>4, <4>2
    <3>6. Coming(listed, queue'[k], Cardinality(listed), pending'[k])
      BY <3>5, Zenon DEF Coming
    <3>7. run'[k] # "synced"
      BY <1>1, <1>3, <2>2, Zenon DEF FirstListInv, HasSynced
    <3> QED BY <1>9, <2>2, <3>6, <3>7, Zenon DEF FirstListInv
  <2> QED BY <2>1, <2>2
<1> QED BY <1>8, <1>10, <1>11, <1>12, <1>13, <1>14, Zenon DEF KindInv

\* A resync of the objects in the cache.
LEMMA ResyncInv ==
  ASSUME TypeInv, NEW k \in Kinds, KindInv(k), Resync(k)
  PROVE  TypeInv' /\ KindInv(k)' /\ \A j \in Kinds \ {k} : SameKind(j)
<1> DEFINE items == [n \in Names |-> IF indexer[k][n] # Nil /\ deltas[k][n] = <<>>
                                     THEN <<Sync(indexer[k][n])>> ELSE deltas[k][n]]
<1>1. /\ watching[k] /\ Enqueue(k, items)
      /\ UNCHANGED <<api, watching, populated, initialCount, indexer, pending, handlers,
                     run, given, initial, raced>>
  BY Zenon DEF Resync
<1>2. ASSUME NEW n \in Names
      PROVE  /\ items[n] \in Seq(Delta) /\ Deletes(items[n], indexer[k][n], raced[k])
             /\ deltas[k][n] # <<>> => items[n] # <<>>
             /\ Final(items[n], indexer[k][n]) = Final(deltas[k][n], indexer[k][n])
  <2> DEFINE o == indexer[k][n]
             s == deltas[k][n]
  <2>1. s \in Seq(Delta) /\ o \in AllObjs \cup {Nil} /\ Deletes(s, o, raced[k])
    BY DEF TypeInv, Objects, KindInv, DeltaInv
  <2>2. CASE o # Nil /\ s = <<>>
    <3>1. items[n] = <<Sync(o)>>
      BY <2>2, Zenon
    <3>2. Sync(o) \in Delta /\ Sync(o).type = "Sync" /\ After(Sync(o)) = o
      BY <2>1, <2>2, Zenon DEF Sync, Delta, After
    <3> DEFINE t == <<Sync(o)>>
    <3>3. t \in Seq(Delta) /\ Len(t) = 1 /\ t[1] = Sync(o) /\ t # <<>>
      BY <3>2
    <3> HIDE DEF t
    <3>4. Deletes(t, o, raced[k])
      BY <3>2, <3>3 DEF Deletes
    <3>5. Final(t, o) = o
      BY <3>2, <3>3 DEF Final
    <3>6. Final(s, o) = o
      BY <2>2, Zenon DEF Final
    <3>7. items[n] = t
      BY <3>1, Zenon DEF t
    <3> HIDE DEF items
    <3> QED BY <3>3, <3>4, <3>5, <3>6, <3>7, Zenon
  <2>3. CASE ~(o # Nil /\ s = <<>>)
    <3>1. items[n] = s
      BY <2>3, Zenon
    <3> QED BY <2>1, <3>1, Zenon
  <2> QED BY <2>2, <2>3, Zenon
<1>3. items \in [Names -> Seq(Delta)]
  BY <1>2, Zenon
<1>4. populated[k]
  BY <1>1, Zenon DEF KindInv, FirstListInv
<1> HIDE DEF items
<1>5. /\ deltas' \in [Kinds -> [Names -> Seq(Delta)]] /\ queue' \in [Kinds -> Seq(Names)]
      /\ deltas'[k] = items /\ QueueInv(k)' /\ ChainInv(k)' /\ FirstListInv(k)'
      /\ \A j \in Kinds \ {k} : deltas'[j] = deltas[j] /\ queue'[j] = queue[j]
  <2>1. UNCHANGED <<populated, initialCount, indexer, pending, handlers, run, given,
                    initial, raced>>
    BY <1>1
  <2>2. \A n \in Names : deltas[k][n] # <<>> => items[n] # <<>>
    BY <1>2, Zenon
  <2> QED BY <1>1, <1>3, <1>4, <2>1, <2>2, EnqueuedInv, Zenon
<1>6. DeltaInv(k)'
  <2>1. \A n \in Names : Deletes(deltas'[k][n], indexer'[k][n], raced'[k])
    BY <1>1, <1>2, <1>5, Zenon
  <2>2. ~raced[k] => \A n \in Names : Final(deltas[k][n], indexer[k][n]) = api[k][n]
    BY <1>1, Zenon DEF KindInv, DeltaInv
  <2>3. ~raced'[k] => \A n \in Names : Final(deltas'[k][n], indexer'[k][n]) = api'[k][n]
    BY <1>1, <1>2, <1>5, <2>2, Zenon
  <2> QED BY <2>1, <2>3, Zenon DEF DeltaInv
<1>7. TypeInv'
  BY <1>1, <1>5, Zenon DEF TypeInv
<1>8. \A j \in Kinds \ {k} : SameKind(j)
  BY <1>1, <1>5, Zenon DEF SameKind
<1> QED BY <1>5, <1>6, <1>7, <1>8, Zenon DEF KindInv

-----------------------------------------------------------------------------
(* The process *)

\* A step of the informer and the config of one kind keeps the invariant of both.
LEMMA KindSteps ==
  ASSUME TypeInv, NEW k \in Kinds, \A j \in Kinds : KindInv(j),
         TypeInv' /\ KindInv(k)' /\ \A j \in Kinds \ {k} : SameKind(j)
  PROVE  TypeInv' /\ \A j \in Kinds : KindInv(j)'
<1>1. ASSUME NEW j \in Kinds \ {k} PROVE KindInv(j)'
  BY <1>1, SameKindInv
<1> QED BY <1>1

\* The initial state.
LEMMA ServerInit == Init => ServerInv
<1> SUFFICES ASSUME Init PROVE ServerInv
  OBVIOUS
<1> USE DEF Init, ConfigInit, NoObjects
<1>1. TypeInv
  <2>1. api \in [Kinds -> Objects]
    BY Zenon DEF AllObjs, Objects
  <2>2. <<>> \in Seq(Delta) /\ <<>> \in Seq(Names) /\ <<>> \in Seq(Event)
    OBVIOUS
  <2>3. NoObjects \in Objects
    BY Zenon DEF Objects
  <2> QED BY <2>1, <2>2, <2>3, Zenon DEF TypeInv
<1>2. RunInv
  BY Zenon DEF RunInv
<1>3. ASSUME NEW k \in Kinds PROVE KindInv(k)
  <2>1. /\ ~watching[k] /\ queue[k] = <<>> /\ ~populated[k] /\ initial[k] = {}
        /\ pending[k] = <<>> /\ run[k] = "none"
        /\ \A n \in Names : deltas[k][n] = <<>> /\ indexer[k][n] = Nil /\ given[k][n] = Nil
    BY Zenon
  <2> HIDE DEF Init, ConfigInit, NoObjects
  <2>2. QueueInv(k)
    BY <2>1 DEF QueueInv, Queued
  <2>3. DeltaInv(k)
    BY <2>1, SMTT(20) DEF DeltaInv, Deletes
  <2>4. ChainInv(k)
    BY <2>1, SMTT(20) DEF ChainInv, Chain
  <2>5. FirstListInv(k)
    BY <2>1, Zenon DEF FirstListInv, Coming
  <2> QED BY <2>2, <2>3, <2>4, <2>5, Zenon DEF KindInv
<1> QED BY <1>1, <1>2, <1>3, Zenon DEF ServerInv

\* The steps that start Run of a config.
LEMMA ConfigStep ==
  ASSUME ServerInv, RunServiceConfig \/ RunEndpointsConfig
  PROVE  ServerInv'
<1>1. ASSUME NEW k \in Kinds, StartConfig(k)
      PROVE  TypeInv' /\ \A j \in Kinds : KindInv(j)'
  <2>1. TypeInv /\ \A j \in Kinds : KindInv(j)
    BY DEF ServerInv
  <2>2. TypeInv' /\ KindInv(k)' /\ \A j \in Kinds \ {k} : SameKind(j)
    BY <1>1, <2>1, SmallSteps
  <2> QED BY <2>1, <2>2, KindSteps
<1>2. CASE RunServiceConfig
  <2>1. StartConfig("service") /\ main = "serviceConfig" /\ main' = "endpointsConfig"
        /\ UNCHANGED <<started, loop, process>>
    BY <1>2 DEF RunServiceConfig, Config
  <2>2. handlers'["service"] = TRUE
    BY <2>1, KindsAssumption, Zenon DEF StartConfig, ServerInv, TypeInv
  <2>3. RunInv'
    BY <2>1, <2>2 DEF RunInv, ServerInv
  <2>4. "service" \in Kinds
    BY KindsAssumption
  <2> QED BY <1>1, <2>1, <2>3, <2>4 DEF ServerInv
<1>3. CASE RunEndpointsConfig
  <2>1. StartConfig("endpoints") /\ main = "endpointsConfig" /\ main' = "start"
        /\ UNCHANGED <<started, loop, process>>
    BY <1>3 DEF RunEndpointsConfig, Config
  <2>2. handlers'["endpoints"] = TRUE /\ handlers'["service"] = handlers["service"]
    BY <2>1, KindsAssumption, Zenon DEF StartConfig, ServerInv, TypeInv
  <2>3. RunInv'
    BY <2>1, <2>2, Zenon DEF RunInv, ServerInv
  <2>4. "endpoints" \in Kinds
    BY KindsAssumption
  <2> QED BY <1>1, <2>1, <2>3, <2>4 DEF ServerInv
<1> QED BY <1>2, <1>3

\* The steps of the informers, the configs and the API server.
LEMMA InformerStep ==
  ASSUME ServerInv, Informers \/ Environment
  PROVE  ServerInv'
<1>1. TypeInv /\ \A j \in Kinds : KindInv(j)
  BY DEF ServerInv
<1>2. started => \A k \in Kinds : handlers[k]
  BY KindsAssumption DEF ServerInv, RunInv
<1>3. PICK k \in Kinds :
        \/ started /\ (Replace(k) \/ HandleDeltas(k) \/ Deliver(k))
        \/ RunConfig(k)
        \/ \E n \in Names, o \in Objs[k] \cup {Nil} : Change(k, n, o)
        \/ WatchBreaks(k) \/ Resync(k)
  BY Zenon DEF Informers, Environment
<1>4. KindInv(k)
  BY <1>1
<1>5. TypeInv' /\ KindInv(k)' /\ \A j \in Kinds \ {k} : SameKind(j)
  <2>1. CASE Replace(k)
    BY <1>1, <1>4, <2>1, ReplaceInv
  <2>2. CASE HandleDeltas(k)
    BY <1>1, <1>4, <2>2, HandleDeltasInv
  <2>3. CASE started /\ Deliver(k)
    BY <1>1, <1>2, <1>4, <2>3, DeliverInv
  <2>4. CASE RunConfig(k) \/ WatchBreaks(k)
    BY <1>1, <1>4, <2>4, SmallSteps
  <2>5. CASE \E n \in Names, o \in Objs[k] \cup {Nil} : Change(k, n, o)
    <3>1. PICK n \in Names, o \in Objs[k] \cup {Nil} : Change(k, n, o)
      BY <2>5, Zenon
    <3>2. o \in AllObjs \cup {Nil}
      BY Zenon DEF AllObjs
    <3> QED BY <1>1, <1>4, <3>1, <3>2, ChangeInv, Zenon
  <2>6. CASE Resync(k)
    BY <1>1, <1>4, <2>6, ResyncInv
  <2> QED BY <1>3, <2>1, <2>2, <2>3, <2>4, <2>5, <2>6, Zenon
<1>6. TypeInv' /\ \A j \in Kinds : KindInv(j)'
  BY <1>1, <1>5, KindSteps
<1>7. UNCHANGED <<handlers, main, started, loop, process>>
  <2>1. UNCHANGED <<main, started, loop, process>>
    BY Zenon DEF Informers, Environment, svars
  <2>2. UNCHANGED handlers
    BY <1>3, Zenon DEF Replace, HandleDeltas, Deliver, RunConfig, Change, WatchBreaks, Resync
  <2> QED BY <2>1, <2>2
<1>8. RunInv'
  BY <1>7 DEF RunInv, ServerInv
<1> QED BY <1>6, <1>8 DEF ServerInv

\* The invariant of the process is inductive.
LEMMA ServerNext == ServerInv /\ [Next]_vars => ServerInv'
<1> SUFFICES ASSUME ServerInv, [Next]_vars PROVE ServerInv'
  OBVIOUS
<1>1. ASSUME UNCHANGED ivars, RunInv' PROVE ServerInv'
  <2>1. TypeInv'
    BY <1>1, Zenon DEF ServerInv, TypeInv, ivars, fifo
  <2>2. ASSUME NEW k \in Kinds PROVE KindInv(k)'
    <3>1. SameKind(k)
      BY <1>1, Zenon DEF SameKind, ivars, fifo
    <3> QED BY <3>1, SameKindInv DEF ServerInv
  <2> QED BY <1>1, <2>1, <2>2 DEF ServerInv
<1>2. RunInv
  BY DEF ServerInv
<1>3. CASE RunServiceConfig \/ RunEndpointsConfig
  BY <1>3, ConfigStep
<1>4. CASE Informers \/ Environment
  BY <1>4, InformerStep
<1>5. CASE (RunSyncLoop \/ RunNotify) /\ process = "up"
  <2>1. UNCHANGED ivars /\ RunInv'
    BY <1>2, <1>5, Zenon DEF RunSyncLoop, RunNotify, RunInv, ivars
  <2> QED BY <1>1, <2>1
<1>6. CASE StopWatcher
  <2>1. UNCHANGED ivars /\ RunInv'
    BY <1>2, <1>6, Zenon DEF StopWatcher, RunInv, ivars
  <2> QED BY <1>1, <2>1
<1>7. CASE factoryStart
  <2>1. UNCHANGED ivars /\ RunInv'
    BY <1>2, <1>7, Zenon DEF factoryStart, RunInv, ivars
  <2> QED BY <1>1, <2>1
<1>8. CASE LoopStep /\ process = "up"
  <2>1. UNCHANGED ivars /\ RunInv'
    BY <1>2, <1>8 DEF LoopStep, SyncLoopStart, SyncLoopFails, SyncLoopTick, SyncDone,
                      RunInv, ivars
  <2> QED BY <1>1, <2>1
<1>9. CASE StopLoop
  <2>1. UNCHANGED ivars /\ RunInv'
    BY <1>2, <1>9, Zenon DEF StopLoop, RunInv, ivars
  <2> QED BY <1>1, <2>1
<1>10. CASE Signal
  <2>0. UNCHANGED <<ivars, started, loop, handlers>>
    BY <1>10, Zenon DEF Signal, ivars
  <2>1. RunInv'
    <3>1. CASE main = "signal"
      BY <1>2, <1>10, <2>0, <3>1, Zenon DEF Signal, RunInv
    <3>2. CASE main # "signal"
      <4>1. main' = main /\ (process' = process \/ process' = "killed")
        BY <1>10, <3>2 DEF Signal
      <4> QED BY <1>2, <2>0, <4>1 DEF RunInv
    <3> QED BY <3>1, <3>2
  <2> QED BY <1>1, <2>0, <2>1
<1>11. CASE UNCHANGED vars
  <2>1. UNCHANGED ivars /\ RunInv'
    BY <1>2, <1>11, Zenon DEF vars, svars, RunInv, ivars
  <2> QED BY <1>1, <2>1
<1> QED BY <1>3, <1>4, <1>5, <1>6, <1>7, <1>8, <1>9, <1>10, <1>11 DEF Next, Up, RunStep

\* Shutdown does not cut a periodic sync: when StopWatcher ends the process, SyncLoop
\* has taken the stop that Run sent before.
THEOREM SyncsAreNotCut == Spec => []NoSyncCut
<1>1. ServerInv => NoSyncCut
  BY DEF ServerInv, RunInv, NoSyncCut
<1> QED BY <1>1, ServerInit, ServerNext, PTL DEF Spec

\* The callbacks of a config are a chain: an Add comes for an object the handler does
\* not have, an Update with the object it was given last, and a Delete for an object it
\* has, with that object unless a list was read while names were in the queue.
THEOREM EventsAreChained == Spec => []ChainedEvents
<1>1. ServerInv => ChainedEvents
  <2> SUFFICES ASSUME ServerInv, NEW k \in Kinds, pending[k] # <<>>
               PROVE  Fits(given[k][Head(pending[k]).name], Head(pending[k]), raced[k])
    BY Zenon DEF ChainedEvents, Fits
  <2> DEFINE p == pending[k]
  <2>1. p \in Seq(Event) /\ p # <<>>
    BY Zenon DEF ServerInv, TypeInv
  <2>3. Chain(p, given[k], indexer[k], raced[k])
    BY Zenon DEF ServerInv, KindInv, ChainInv
  <2> HIDE DEF p
  <2>2. 1 \in 1..Len(p) /\ Head(p) = p[1]
    BY <2>1
  <2>4. ASSUME NEW j \in 1..(1 - 1) PROVE FALSE
    OBVIOUS
  <2>5. Fits(given[k][p[1].name], p[1], raced[k])
    BY <2>2, <2>3, <2>4, Zenon DEF Chain
  <2> QED BY <2>2, <2>5, Zenon DEF p
<1> QED BY <1>1, ServerInit, ServerNext, PTL DEF Spec

\* When OnServiceSynced or OnEndpointsSynced is called, what the handler was not given
\* yet of the first list is in the buffer of its listener.
THEOREM SyncedIsCached == Spec => []SyncedImpliesCached
<1>1. ServerInv => SyncedImpliesCached
  <2> SUFFICES ASSUME ServerInv, NEW k \in Kinds, run[k] = "synced", NEW n \in initial[k]
               PROVE  \E i \in DOMAIN pending[k] : pending[k][i].name = n
    BY Zenon DEF SyncedImpliesCached
  <2>1. /\ Coming(initial[k], queue[k], initialCount[k], pending[k])
        /\ initialCount[k] = 0
    BY Zenon DEF ServerInv, KindInv, FirstListInv, HasSynced
  <2>2. pending[k] \in Seq(Event) /\ queue[k] \in Seq(Names)
    BY Zenon DEF ServerInv, TypeInv
  <2>3. ~ \E i \in 1..Len(queue[k]) : i <= initialCount[k] /\ queue[k][i] = n
    BY <2>1, <2>2
  <2>4. \E i \in 1..Len(pending[k]) : pending[k][i].name = n
    BY <2>1, <2>3, Zenon DEF Coming
  <2>5. DOMAIN pending[k] = 1..Len(pending[k])
    BY <2>2
  <2> QED BY <2>4, <2>5, Zenon
<1> QED BY <1>1, ServerInit, ServerNext, PTL DEF Spec

=============================================================================

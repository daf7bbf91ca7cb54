-------------------------- MODULE PriceLevelProofs --------------------------
(***************************************************************************)
(* The linked list of a price level is never broken and implements the     *)
(* FIFO queue of FifoLevel, for every set of objects, ids and sizes.       *)
(*                                                                         *)
(* The invariant is that each object holds some level: the nodes of the    *)
(* map are the orders of that level's queue, and every pointer is the id   *)
(* of the neighbour in the queue.  The walk from head_ is then computed,   *)
(* and reads that queue.                                                   *)
(***************************************************************************)
EXTENDS PriceLevel, BookLemmas

\* The id at a position of the queue; nullptr before the first and after the
\* last.
IdAt(level, i) == IF i \in Positions(level) THEN level.queue[i].id ELSE NULL

IsNode(node, order, prev, next) == node = [order |-> order, prev |-> prev, next |-> next]

\* Writing one or both pointers of a node.
WithNext(node, q) == [node EXCEPT !.next = q]

Relinked(node, p, q) == [node EXCEPT !.next = q, !.prev = p]

LEMMA NodeRelinked ==
  ASSUME NEW node, NEW order, NEW prev, NEW next, IsNode(node, order, prev, next),
         NEW p, NEW q
  PROVE  /\ IsNode(WithNext(node, q), order, prev, q)
         /\ IsNode(Relinked(node, p, q), order, p, q)
<1> DEFINE was == [order |-> order, prev |-> prev, next |-> next]
           linked == [order |-> order, prev |-> prev, next |-> q]
<1>1. node = was
  BY DEF IsNode
<1>2. [was EXCEPT !.next = q] = linked
  OBVIOUS
<1>3. [linked EXCEPT !.prev = p] = [order |-> order, prev |-> p, next |-> q]
  OBVIOUS
<1> HIDE DEF was, linked
<1>4. WithNext(node, q) = linked /\ Relinked(node, p, q) = [linked EXCEPT !.prev = p]
  BY <1>1, <1>2 DEF WithNext, Relinked
<1> QED
  BY <1>3, <1>4 DEF IsNode, linked

\* The nodes and the ends of the list are those of the queue.
Links(s, level) ==
  /\ DOMAIN s.nodes = {IdAt(level, i) : i \in Positions(level)}
  /\ \A i \in Positions(level) :
       IsNode(s.nodes[IdAt(level, i)], level.queue[i],
              IdAt(level, i - 1), IdAt(level, i + 1))
  /\ s.head = IdAt(level, 1)
  /\ s.tail = IdAt(level, Len(level.queue))

\* The object s is a record of the class, with the list of this level.
Holds(s, level) ==
  /\ level \in Level
  /\ NoTwins(level)
  /\ Exact(level)
  /\ DOMAIN s = {"price", "total_quantity", "head", "tail", "nodes"}
  /\ s.price = level.price
  /\ s.total_quantity = level.total_quantity
  /\ Links(s, level)

\* Positions have ids of their own, and no other place has an id.
LEMMA IdsApart ==
  ASSUME NEW level \in Level, NoTwins(level)
  PROVE  /\ Len(level.queue) \in Nat
         /\ \A i \in Positions(level) : /\ i \in Nat \ {0}
                                        /\ level.queue[i] \in Order
                                        /\ IdAt(level, i) = level.queue[i].id
                                        /\ IdAt(level, i) \in OrderIds
                                        /\ IdAt(level, i) # NULL
         /\ \A i, j \in Positions(level) : IdAt(level, i) = IdAt(level, j) => i = j
<1>1. /\ Len(level.queue) \in Nat
      /\ \A i \in Positions(level) : level.queue[i] \in Order /\ i \in Nat \ {0}
  BY QueuedSize DEF Positions
<1>2. \A i \in Positions(level) : level.queue[i].id \in OrderIds
  BY <1>1 DEF Order
<1> QED
  BY <1>1, <1>2, NullAssumption DEF IdAt, NoTwins

\* The node of a position.
LEMMA NodeAt ==
  ASSUME NEW s, NEW level, Holds(s, level), NEW i \in Positions(level)
  PROVE  /\ IdAt(level, i) \in DOMAIN s.nodes
         /\ s.nodes[IdAt(level, i)].order = level.queue[i]
         /\ s.nodes[IdAt(level, i)].prev = IdAt(level, i - 1)
         /\ s.nodes[IdAt(level, i)].next = IdAt(level, i + 1)
<1>1. Links(s, level)
  BY DEF Holds
<1>2. IsNode(s.nodes[IdAt(level, i)], level.queue[i], IdAt(level, i - 1), IdAt(level, i + 1))
  BY <1>1 DEF Links
<1>3. IdAt(level, i) \in DOMAIN s.nodes
  BY <1>1 DEF Links
<1> QED
  BY <1>2, <1>3 DEF IsNode

(***************************************************************************)
(* The walk                                                                *)
(***************************************************************************)

\* One step of the walk of snapshot().
WalkStep(s, at) ==
  [n \in Nat |-> IF n = 0 THEN s.head
                 ELSE LET before == at[n - 1]
                      IN IF before \in DOMAIN s.nodes THEN s.nodes[before].next ELSE NULL]

\* The walk visits the positions of the queue one after the other, and stays
\* at nullptr from then on.
LEMMA WalkVisits ==
  ASSUME NEW s, NEW level, Holds(s, level), NEW n \in Nat
  PROVE  Walk(s)[n] = IdAt(level, n + 1)
<1> DEFINE visits == [k \in Nat |-> IdAt(level, k + 1)]
           walk == Walk(s)
<1>1. /\ Len(level.queue) \in Nat
      /\ DOMAIN s.nodes = {IdAt(level, i) : i \in Positions(level)}
      /\ s.head = IdAt(level, 1)
      /\ NULL \notin DOMAIN s.nodes
  BY IdsApart DEF Holds, Links
<1>2. \A k \in Nat \ {0} :
        IF visits[k - 1] \in DOMAIN s.nodes
        THEN visits[k] = s.nodes[visits[k - 1]].next ELSE visits[k] = NULL
  <2> SUFFICES ASSUME NEW k \in Nat \ {0}
               PROVE  IF IdAt(level, k) \in DOMAIN s.nodes
                      THEN IdAt(level, k + 1) = s.nodes[IdAt(level, k)].next
                      ELSE IdAt(level, k + 1) = NULL
    OBVIOUS
  <2>1. CASE k \in Positions(level)
    <3>1. IdAt(level, k) \in DOMAIN s.nodes /\ s.nodes[IdAt(level, k)].next = IdAt(level, k + 1)
      BY <2>1, NodeAt
    <3> QED
      BY <3>1
  <2>2. CASE k \notin Positions(level)
    <3>1. k + 1 \notin Positions(level)
      BY <1>1, <2>2 DEF Positions
    <3> QED
      BY <1>1, <2>2, <3>1 DEF IdAt
  <2> QED
    BY <2>1, <2>2
<1>3. visits = WalkStep(s, visits)
  <2>1. visits[0] = s.head
    BY <1>1
  <2>2. visits = [k \in Nat |-> visits[k]]
    OBVIOUS
  <2> HIDE DEF visits
  <2>3. \A k \in Nat : visits[k] =
          IF k = 0 THEN s.head
          ELSE IF visits[k - 1] \in DOMAIN s.nodes THEN s.nodes[visits[k - 1]].next ELSE NULL
    BY <1>2, <2>1
  <2> QED
    BY <2>2, <2>3 DEF WalkStep
<1>4. walk = CHOOSE at : at = WalkStep(s, at)
  BY DEF Walk, WalkStep
<1> HIDE DEF walk
<1>5. walk = WalkStep(s, walk)
  BY <1>3, <1>4
<1>6. /\ walk[0] = s.head
      /\ \A k \in Nat \ {0} : walk[k] =
           IF walk[k - 1] \in DOMAIN s.nodes THEN s.nodes[walk[k - 1]].next ELSE NULL
  BY <1>5 DEF WalkStep
<1> DEFINE T == {k \in Nat : walk[k] = visits[k]}
<1>7. 0 \in T
  BY <1>1, <1>6
<1>8. ASSUME NEW k \in Nat, k \in T PROVE k + 1 \in T
  <2>1. walk[k] = visits[k]
    BY <1>8
  <2> HIDE DEF visits
  <2>2. k + 1 \in Nat \ {0} /\ (k + 1) - 1 = k
    OBVIOUS
  <2>3. walk[k + 1] = visits[k + 1]
    BY <1>2, <1>6, <2>1, <2>2
  <2> QED
    BY <2>3
<1> HIDE DEF T
<1>9. Nat \subseteq T
  BY <1>7, <1>8, AllNaturals
<1> QED
  BY <1>9 DEF T, walk

\* The map has as many nodes as the queue has orders.
LEMMA NodesCounted ==
  ASSUME NEW s, NEW level, Holds(s, level)
  PROVE  Cardinality(DOMAIN s.nodes) = Len(level.queue)
<1> DEFINE n == Len(level.queue)
           ids == [i \in 1 .. n |-> IdAt(level, i)]
<1>1. /\ n \in Nat
      /\ \A i, j \in 1 .. n : IdAt(level, i) = IdAt(level, j) => i = j
      /\ \A i \in 1 .. n : IdAt(level, i) \in DOMAIN s.nodes
  BY IdsApart, NodeAt DEF Holds, Positions
<1>2. \A id \in DOMAIN s.nodes : \E i \in 1 .. n : IdAt(level, i) = id
  BY DEF Holds, Links, Positions
<1> HIDE DEF n
<1>3. ids \in Bijection(1 .. n, DOMAIN s.nodes)
  <2> HIDE DEF ids
  <2>1. /\ ids \in [1 .. n -> DOMAIN s.nodes]
        /\ \A i, j \in 1 .. n : ids[i] = ids[j] => i = j
        /\ \A id \in DOMAIN s.nodes : \E i \in 1 .. n : ids[i] = id
    BY <1>1, <1>2 DEF ids
  <2> QED
    BY <2>1 DEF Bijection, Injection, Surjection, IsInjective
<1>4. ExistsBijection(1 .. n, DOMAIN s.nodes)
  BY <1>3 DEF ExistsBijection
<1> QED
  BY <1>1, <1>4, FS_CountingElements DEF n

\* snapshot() reads the queue from front to back.
LEMMA SnapshotReads ==
  ASSUME NEW s, NEW level, Holds(s, level)
  PROVE  snapshot(s) = level.queue
<1> DEFINE n == Len(level.queue)
           met == {k \in 0 .. Cardinality(DOMAIN s.nodes) - 1 : Walk(s)[k] \in DOMAIN s.nodes}
<1>1. n \in Nat /\ Cardinality(DOMAIN s.nodes) = n
  BY IdsApart, NodesCounted DEF Holds
<1>2. \A k \in 1 .. n : /\ k \in Positions(level)
                        /\ Walk(s)[k - 1] = IdAt(level, k)
                        /\ s.nodes[IdAt(level, k)].order = level.queue[k]
                        /\ IdAt(level, k) \in DOMAIN s.nodes
  <2> SUFFICES ASSUME NEW k \in 1 .. n
               PROVE  /\ k \in Positions(level)
                      /\ Walk(s)[k - 1] = IdAt(level, k)
                      /\ s.nodes[IdAt(level, k)].order = level.queue[k]
                      /\ IdAt(level, k) \in DOMAIN s.nodes
    OBVIOUS
  <2>1. k \in Positions(level)
    BY DEF Positions
  <2>2. k - 1 \in Nat /\ (k - 1) + 1 = k
    BY <1>1
  <2>3. Walk(s)[k - 1] = IdAt(level, (k - 1) + 1)
    BY <2>2, WalkVisits
  <2> QED
    BY <2>1, <2>2, <2>3, NodeAt
<1> HIDE DEF n
<1>3. met = 0 .. n - 1
  <2>1. \A k \in 0 .. n - 1 : Walk(s)[k] \in DOMAIN s.nodes
    <3> SUFFICES ASSUME NEW k \in 0 .. n - 1 PROVE Walk(s)[k] \in DOMAIN s.nodes
      OBVIOUS
    <3>1. k + 1 \in 1 .. n /\ (k + 1) - 1 = k
      BY <1>1
    <3> QED
      BY <1>2, <3>1
  <2> QED
    BY <1>1, <2>1
<1>4. Cardinality(met) = n
  <2>1. Cardinality(0 .. n - 1) = n
    BY <1>1, FS_Interval
  <2> QED
    BY <1>3, <2>1
<1>5. snapshot(s) = [k \in 1 .. Cardinality(met) |-> s.nodes[Walk(s)[k - 1]].order]
  BY DEF snapshot
<1> HIDE DEF met
<1>6. snapshot(s) = [k \in 1 .. n |-> level.queue[k]]
  BY <1>2, <1>4, <1>5
<1>7. level.queue = [k \in 1 .. n |-> level.queue[k]]
  <2>1. level.queue \in Seq(Order)
    BY DEF Holds, Level
  <2> QED
    BY <2>1, LenProperties DEF n
<1> QED
  BY <1>6, <1>7

(***************************************************************************)
(* The operations                                                          *)
(***************************************************************************)

\* A new object, or one whose contents were moved away, is an empty level.
LEMMA EmptyHolds ==
  ASSUME NEW price \in Prices
  PROVE  Holds(EmptyList(price), EmptyLevel(price))
<1> DEFINE s == EmptyList(price)
           level == EmptyLevel(price)
<1>1. /\ DOMAIN s = {"price", "total_quantity", "head", "tail", "nodes"}
      /\ s.price = price /\ s.total_quantity = 0
      /\ s.head = NULL /\ s.tail = NULL
      /\ DOMAIN s.nodes = {}
  BY DEF EmptyList
<1>2. level.price = price /\ level.total_quantity = 0 /\ level.queue = <<>>
  BY DEF EmptyLevel
<1>3. level \in Level
  <2>1. <<>> \in Seq(Order)
    BY EmptySeq
  <2> QED
    BY <2>1 DEF Level, EmptyLevel
<1>4. Exact(level)
  BY EmptyLevelExact
<1> HIDE DEF s, level
<1>5. Positions(level) = {}
  BY <1>2, EmptySeq DEF Positions
<1>6. NoTwins(level) /\ Links(s, level)
  BY <1>1, <1>5 DEF NoTwins, Links, IdAt
<1> QED
  BY <1>1, <1>2, <1>3, <1>4, <1>6 DEF Holds, s, level

\* The map has a node exactly for the ids of the queue.
LEMMA HeldIsQueued ==
  ASSUME NEW s, NEW level, Holds(s, level), NEW id
  PROVE  id \in DOMAIN s.nodes <=> HasOrder(level, id)
<1>1. DOMAIN s.nodes = {IdAt(level, i) : i \in Positions(level)}
  BY DEF Holds, Links
<1>2. \A i \in Positions(level) : IdAt(level, i) = level.queue[i].id
  BY DEF IdAt
<1> QED
  BY <1>1, <1>2 DEF HasOrder

\* add_order links the new node behind the tail.
LEMMA AddHolds ==
  ASSUME NEW s, NEW level, Holds(s, level), NEW order \in Order,
         ~HasOrder(level, order.id)
  PROVE  Holds(LinkAtBack(s, order), LevelAdd(level, order))
<1> DEFINE n == Len(level.queue)
           new == order.id
           after == LevelAdd(level, order)
           t == LinkAtBack(s, order)
<1>1. level \in Level /\ NoTwins(level) /\ Exact(level) /\ Links(s, level)
  BY DEF Holds
<1>2. /\ n \in Nat
      /\ \A i \in 1 .. n : IdAt(level, i) \in OrderIds /\ IdAt(level, i) # NULL
      /\ \A i, j \in 1 .. n : IdAt(level, i) = IdAt(level, j) => i = j
      /\ \A i : i \notin 1 .. n => IdAt(level, i) = NULL
  BY <1>1, IdsApart DEF Positions, IdAt
<1>3. /\ new \in OrderIds /\ new # NULL /\ new \notin DOMAIN s.nodes
      /\ \A i \in 1 .. n : IdAt(level, i) # new
  <2>1. new \in OrderIds /\ new # NULL
    BY NullAssumption DEF Order
  <2>2. new \notin DOMAIN s.nodes
    BY HeldIsQueued
  <2> QED
    BY <2>1, <2>2, NodeAt DEF Positions
<1>4. /\ after \in Level /\ Exact(after)
      /\ after.price = level.price
      /\ after.total_quantity = level.total_quantity + order.quantity
      /\ Len(after.queue) = n + 1
      /\ after.queue[n + 1] = order
      /\ \A i \in 1 .. n : after.queue[i] = level.queue[i]
  <2>1. after.total_quantity = level.total_quantity + order.quantity
    BY <1>1 DEF LevelAdd, Level
  <2> QED
    BY <1>1, <2>1, LevelAddQueue, LevelAddExact DEF Positions
<1>5. /\ DOMAIN t = {"price", "total_quantity", "head", "tail", "nodes"}
      /\ t.price = s.price
      /\ t.total_quantity = s.total_quantity + order.quantity
      /\ t.head = IF s.tail = NULL THEN new ELSE s.head
      /\ t.tail = new
      /\ t.nodes = [id \in DOMAIN s.nodes \cup {new} |->
                      CASE id = new -> [order |-> order, prev |-> s.tail, next |-> NULL]
                        [] id = s.tail -> [s.nodes[id] EXCEPT !.next = new]
                        [] OTHER -> s.nodes[id]]
  BY DEF LinkAtBack, Holds
<1> HIDE DEF n, new, after, t
<1>6. Positions(after) = 1 .. n + 1
  BY <1>4 DEF Positions
<1>7. \A i \in Int : IdAt(after, i) = IF i = n + 1 THEN new ELSE IdAt(level, i)
  <2>1. \A i \in 1 .. n : IdAt(level, i) = level.queue[i].id
    BY DEF IdAt, Positions, n
  <2> QED
    BY <1>2, <1>4, <1>6, <2>1 DEF IdAt, new
<1>8. NoTwins(after)
  <2>1. \A i \in Positions(after) : after.queue[i].id = IdAt(after, i)
    BY DEF IdAt
  <2>2. \A i, j \in 1 .. n + 1 : IdAt(after, i) = IdAt(after, j) => i = j
    BY <1>2, <1>3, <1>7
  <2> QED
    BY <1>6, <2>1, <2>2 DEF NoTwins
<1>9. s.tail = IdAt(level, n) /\ s.head = IdAt(level, 1) /\ (s.tail = NULL <=> n = 0)
  BY <1>1, <1>2 DEF Links, n
<1>10. t.head = IdAt(after, 1) /\ t.tail = IdAt(after, Len(after.queue))
  BY <1>2, <1>4, <1>5, <1>7, <1>9
<1>11. DOMAIN t.nodes = {IdAt(after, i) : i \in Positions(after)}
  <2>1. DOMAIN t.nodes = DOMAIN s.nodes \cup {new}
    BY <1>5
  <2>2. DOMAIN s.nodes = {IdAt(level, i) : i \in 1 .. n}
    BY <1>1 DEF Links, Positions, n
  <2>3. 1 .. n + 1 = (1 .. n) \cup {n + 1} /\ 1 .. n \subseteq Int /\ n + 1 \notin 1 .. n
    BY <1>2
  <2> QED
    BY <1>2, <1>6, <1>7, <2>1, <2>2, <2>3
<1>12. ASSUME NEW i \in Positions(after)
       PROVE  IsNode(t.nodes[IdAt(after, i)], after.queue[i],
                     IdAt(after, i - 1), IdAt(after, i + 1))
  <2>1. CASE i = n + 1
    <3>1. IdAt(after, i) = new /\ IdAt(after, i - 1) = s.tail /\ IdAt(after, i + 1) = NULL
      BY <1>2, <1>7, <1>9, <2>1
    <3>0. new # s.tail
      BY <1>2, <1>3, <1>9
    <3>2. t.nodes[new] = [order |-> order, prev |-> s.tail, next |-> NULL]
      BY <1>5, <3>0
    <3> QED
      BY <1>4, <2>1, <3>1, <3>2 DEF IsNode
  <2>2. CASE i # n + 1
    <3>1. /\ i \in 1 .. n /\ i \in Positions(level)
          /\ IdAt(after, i) = IdAt(level, i)
          /\ IdAt(after, i - 1) = IdAt(level, i - 1)
          /\ IdAt(after, i + 1) = IF i = n THEN new ELSE IdAt(level, i + 1)
      BY <1>2, <1>6, <1>7, <2>2 DEF Positions, n
    <3>2. IsNode(s.nodes[IdAt(level, i)], level.queue[i],
                 IdAt(level, i - 1), IdAt(level, i + 1))
      BY <1>1, <3>1 DEF Links
    <3>3. IdAt(level, i) \in DOMAIN s.nodes /\ IdAt(level, i) # new
      BY <1>1, <1>3, <3>1 DEF Links
    <3>4. IdAt(level, i) = s.tail <=> i = n
      BY <1>2, <1>9, <3>1
    <3>5. CASE i = n
      <4>1. t.nodes[IdAt(level, i)] = WithNext(s.nodes[IdAt(level, i)], new)
        BY <1>5, <3>3, <3>4, <3>5 DEF WithNext
      <4>2. IsNode(t.nodes[IdAt(level, i)], level.queue[i], IdAt(level, i - 1), new)
        BY <3>2, <4>1, NodeRelinked
      <4> QED
        BY <1>4, <3>1, <3>5, <4>2
    <3>6. CASE i # n
      <4>1. t.nodes[IdAt(level, i)] = s.nodes[IdAt(level, i)]
        BY <1>5, <3>3, <3>4, <3>6
      <4> QED
        BY <1>4, <3>1, <3>2, <3>6, <4>1
    <3> QED
      BY <3>5, <3>6
  <2> QED
    BY <2>1, <2>2
<1>13. Links(t, after)
  BY <1>10, <1>11, <1>12 DEF Links
<1>14. s.price = level.price /\ s.total_quantity = level.total_quantity
  BY DEF Holds
<1> QED
  BY <1>4, <1>5, <1>8, <1>13, <1>14 DEF Holds, t, after

\* cancel_order unlinks the node wherever it stands: its neighbours, or the
\* ends of the list, point past it.
LEMMA CancelHolds ==
  ASSUME NEW s, NEW level, Holds(s, level), NEW id, HasOrder(level, id),
         NEW cut, cut = [s EXCEPT !.total_quantity = @ - s.nodes[id].order.quantity]
  PROVE  Holds(Erase(Unlink(cut, id), id), LevelCancel(level, id))
<1> DEFINE m == Len(level.queue)
           n == PositionOf(level, id)
           gone == s.nodes[id]
           size == FindInLevel(level, id).quantity
           after == LevelCancel(level, id)
           t == Erase(Unlink(cut, id), id)
           Prev(i) == IF i = gone.next THEN gone.prev ELSE s.nodes[i].prev
           Next_(i) == IF i = gone.prev THEN gone.next ELSE s.nodes[i].next
<1>1. level \in Level /\ NoTwins(level) /\ Exact(level) /\ Links(s, level)
  BY DEF Holds
<1>2. /\ m \in Nat
      /\ \A i \in 1 .. m : IdAt(level, i) # NULL
      /\ \A i, j \in 1 .. m : IdAt(level, i) = IdAt(level, j) => i = j
      /\ \A i : i \notin 1 .. m => IdAt(level, i) = NULL
  BY <1>1, IdsApart DEF Positions, IdAt
<1>3. n \in 1 .. m /\ n \in Positions(level) /\ IdAt(level, n) = id
  BY <1>1, PositionOfHeld DEF Positions, IdAt
<1>4. /\ gone.order = level.queue[n]
      /\ gone.prev = IdAt(level, n - 1)
      /\ gone.next = IdAt(level, n + 1)
  BY <1>3, NodeAt
<1>5. gone.order.quantity = size
  BY <1>4 DEF FindInLevel
<1>6. /\ after \in Level /\ Exact(after)
      /\ after.price = level.price
      /\ Len(after.queue) = m - 1
      /\ \A i \in 1 .. m - 1 : /\ Before(n, i) \in 1 .. m
                               /\ Before(n, i) # n
                               /\ after.queue[i] = level.queue[Before(n, i)]
  BY <1>1, LevelCancelQueue, LevelCancelExact DEF Positions
<1>7. after.total_quantity = level.total_quantity - size
  BY <1>1 DEF LevelCancel, Level
<1>8. /\ DOMAIN t = {"price", "total_quantity", "head", "tail", "nodes"}
      /\ t.price = s.price
      /\ t.total_quantity = s.total_quantity - gone.order.quantity
      /\ t.head = IF gone.prev = NULL THEN gone.next ELSE s.head
      /\ t.tail = IF gone.next = NULL THEN gone.prev ELSE s.tail
      /\ DOMAIN t.nodes = DOMAIN s.nodes \ {id}
      /\ \A i \in DOMAIN s.nodes \ {id} :
           t.nodes[i] = Relinked(s.nodes[i], Prev(i), Next_(i))
  <2> DEFINE u == Unlink(cut, id)
             kept == [i \in DOMAIN s.nodes |-> Relinked(s.nodes[i], Prev(i), Next_(i))]
  <2>1. DOMAIN s = {"price", "total_quantity", "head", "tail", "nodes"}
    BY DEF Holds
  <2>2. /\ DOMAIN cut = DOMAIN s
        /\ cut.price = s.price /\ cut.head = s.head /\ cut.tail = s.tail
        /\ cut.nodes = s.nodes
        /\ cut.total_quantity = s.total_quantity - gone.order.quantity
    BY <2>1
  <2>3. u = [cut EXCEPT !.head = IF gone.prev = NULL THEN gone.next ELSE @,
                        !.tail = IF gone.next = NULL THEN gone.prev ELSE @,
                        !.nodes = kept]
    BY <2>2 DEF Unlink, Relinked
  <2> HIDE DEF u, kept, gone
  <2>4. /\ DOMAIN u = DOMAIN s
        /\ u.price = cut.price /\ u.total_quantity = cut.total_quantity
        /\ u.head = IF gone.prev = NULL THEN gone.next ELSE cut.head
        /\ u.tail = IF gone.next = NULL THEN gone.prev ELSE cut.tail
        /\ u.nodes = kept
    BY <2>1, <2>2, <2>3
  <2>5. DOMAIN kept = DOMAIN s.nodes
    BY DEF kept
  <2>6. /\ DOMAIN t = DOMAIN u
        /\ t.price = u.price /\ t.total_quantity = u.total_quantity
        /\ t.head = u.head /\ t.tail = u.tail
        /\ t.nodes = [i \in DOMAIN s.nodes \ {id} |-> kept[i]]
    BY <2>1, <2>4, <2>5 DEF Erase, u
  <2>7. \A i \in DOMAIN s.nodes : kept[i] = Relinked(s.nodes[i], Prev(i), Next_(i))
    BY DEF kept
  <2> QED
    BY <2>1, <2>2, <2>4, <2>6, <2>7
<1> HIDE DEF m, n, gone, size, after, t, Prev, Next_
<1>9. Positions(after) = 1 .. m - 1
  BY <1>6 DEF Positions
<1>10. \A i \in Int : IdAt(after, i) = IdAt(level, Before(n, i))
  <2> SUFFICES ASSUME NEW i \in Int PROVE IdAt(after, i) = IdAt(level, Before(n, i))
    OBVIOUS
  <2>1. CASE i \in 1 .. m - 1
    <3>1. IdAt(level, Before(n, i)) = level.queue[Before(n, i)].id
      BY <1>6, <2>1 DEF IdAt, Positions, m
    <3>2. IdAt(after, i) = after.queue[i].id
      BY <1>9, <2>1 DEF IdAt
    <3> QED
      BY <1>6, <2>1, <3>1, <3>2
  <2>2. CASE i \notin 1 .. m - 1
    <3>1. Before(n, i) \notin 1 .. m
      BY <1>2, <1>3, <2>2 DEF Before
    <3>2. IdAt(after, i) = NULL
      BY <1>9, <2>2 DEF IdAt
    <3> QED
      BY <1>2, <3>1, <3>2
  <2> QED
    BY <2>1, <2>2
<1>11. NoTwins(after)
  <2>1. \A i \in Positions(after) : after.queue[i].id = IdAt(after, i)
    BY DEF IdAt
  <2>2. \A i, j \in 1 .. m - 1 : IdAt(after, i) = IdAt(after, j) => i = j
    <3> SUFFICES ASSUME NEW i \in 1 .. m - 1, NEW j \in 1 .. m - 1,
                        IdAt(after, i) = IdAt(after, j)
                 PROVE  i = j
      OBVIOUS
    <3>1. IdAt(level, Before(n, i)) = IdAt(level, Before(n, j))
      BY <1>2, <1>10
    <3>2. Before(n, i) = Before(n, j)
      BY <1>2, <1>6, <3>1
    <3> QED
      BY <1>2, <1>3, <3>2 DEF Before
  <2> QED
    BY <1>9, <2>1, <2>2 DEF NoTwins
<1>12. \A k \in 1 .. m : /\ IdAt(level, k) = gone.prev <=> k = n - 1
                         /\ IdAt(level, k) = gone.next <=> k = n + 1
                         /\ IdAt(level, k) = id <=> k = n
  <2> SUFFICES ASSUME NEW k \in 1 .. m
               PROVE  /\ IdAt(level, k) = IdAt(level, n - 1) <=> k = n - 1
                      /\ IdAt(level, k) = IdAt(level, n + 1) <=> k = n + 1
                      /\ IdAt(level, k) = IdAt(level, n) <=> k = n
    BY <1>3, <1>4
  <2>1. \A j \in Int : IdAt(level, k) = IdAt(level, j) <=> k = j
    BY <1>2
  <2> QED
    BY <1>2, <1>3, <2>1
<1>13. t.head = IdAt(after, 1)
  <2>1. IdAt(after, 1) = IF n = 1 THEN IdAt(level, 2) ELSE IdAt(level, 1)
    BY <1>2, <1>3, <1>10 DEF Before
  <2>2. gone.prev = NULL <=> n = 1
    BY <1>2, <1>3, <1>4
  <2>3. s.head = IdAt(level, 1)
    BY <1>1 DEF Links
  <2> QED
    BY <1>2, <1>3, <1>4, <1>8, <2>1, <2>2, <2>3
<1>14. t.tail = IdAt(after, Len(after.queue))
  <2>1. IdAt(after, m - 1) = IF n = m THEN IdAt(level, m - 1) ELSE IdAt(level, m)
    BY <1>2, <1>3, <1>10 DEF Before
  <2>2. gone.next = NULL <=> n = m
    BY <1>2, <1>3, <1>4
  <2>3. s.tail = IdAt(level, m)
    BY <1>1 DEF Links, m
  <2> QED
    BY <1>2, <1>3, <1>4, <1>6, <1>8, <2>1, <2>2, <2>3
<1>15. DOMAIN t.nodes = {IdAt(after, i) : i \in Positions(after)}
  <2>1. DOMAIN s.nodes = {IdAt(level, k) : k \in 1 .. m}
    BY <1>1 DEF Links, Positions, m
  <2>2. \A i \in 1 .. m - 1 : IdAt(after, i) \in DOMAIN s.nodes \ {id}
    BY <1>2, <1>6, <1>10, <1>12, <2>1
  <2>3. ASSUME NEW k \in 1 .. m, k # n
        PROVE  \E i \in 1 .. m - 1 : IdAt(after, i) = IdAt(level, k)
    <3> DEFINE i == IF k < n THEN k ELSE k - 1
    <3>1. i \in 1 .. m - 1 /\ i \in Int /\ Before(n, i) = k
      BY <1>2, <1>3, <2>3 DEF Before
    <3>2. IdAt(after, i) = IdAt(level, k)
      BY <1>10, <3>1
    <3> QED
      BY <3>1, <3>2
  <2>4. \A o \in DOMAIN s.nodes \ {id} : \E i \in 1 .. m - 1 : IdAt(after, i) = o
    BY <1>12, <2>1, <2>3
  <2> QED
    BY <1>8, <1>9, <2>2, <2>4
<1>16. ASSUME NEW i \in Positions(after)
       PROVE  IsNode(t.nodes[IdAt(after, i)], after.queue[i],
                     IdAt(after, i - 1), IdAt(after, i + 1))
  <2> DEFINE k == Before(n, i)
             o == IdAt(level, k)
  <2>1. i \in 1 .. m - 1 /\ k \in 1 .. m /\ k # n /\ after.queue[i] = level.queue[k]
    BY <1>6, <1>9
  <2>2. IdAt(after, i) = o
    BY <1>2, <1>10, <2>1
  <2>3. k \in Positions(level)
    BY <2>1 DEF Positions, m
  <2>4. IsNode(s.nodes[o], level.queue[k], IdAt(level, k - 1), IdAt(level, k + 1))
    BY <1>1, <2>3 DEF Links
  <2>5. o \in DOMAIN s.nodes /\ o # id
    BY <1>1, <1>12, <2>1, <2>3 DEF Links
  <2>6. t.nodes[o] = Relinked(s.nodes[o], Prev(o), Next_(o))
    BY <1>8, <2>5
  <2>7. /\ Prev(o) = IF k = n + 1 THEN IdAt(level, n - 1) ELSE IdAt(level, k - 1)
        /\ Next_(o) = IF k = n - 1 THEN IdAt(level, n + 1) ELSE IdAt(level, k + 1)
    BY <1>4, <1>12, <2>1, <2>3, NodeAt DEF Prev, Next_
  <2>8. /\ Before(n, i - 1) = IF k = n + 1 THEN n - 1 ELSE k - 1
        /\ Before(n, i + 1) = IF k = n - 1 THEN n + 1 ELSE k + 1
    BY <1>2, <1>3, <2>1 DEF Before
  <2>9. i - 1 \in Int /\ i + 1 \in Int
    BY <1>2, <2>1
  <2>10. Prev(o) = IdAt(after, i - 1) /\ Next_(o) = IdAt(after, i + 1)
    BY <1>10, <2>7, <2>8, <2>9
  <2>11. IsNode(t.nodes[o], level.queue[k], Prev(o), Next_(o))
    BY <2>4, <2>6, NodeRelinked
  <2> QED
    BY <2>1, <2>2, <2>10, <2>11
<1>17. Links(t, after)
  BY <1>13, <1>14, <1>15, <1>16 DEF Links
<1>18. s.price = level.price /\ s.total_quantity = level.total_quantity
  BY DEF Holds
<1> QED
  BY <1>5, <1>6, <1>7, <1>8, <1>11, <1>17, <1>18 DEF Holds, t, after

\* Writing the size of a node's order.
WithSize(node, q) == [node EXCEPT !.order.quantity = q]

LEMMA NodeShrunk ==
  ASSUME NEW node, NEW order, NEW prev, NEW next, IsNode(node, order, prev, next), NEW q
  PROVE  IsNode(WithSize(node, q), [order EXCEPT !.quantity = q], prev, next)
<1> DEFINE was == [order |-> order, prev |-> prev, next |-> next]
<1>1. node = was
  BY DEF IsNode
<1>2. [was EXCEPT !.order.quantity = q]
        = [order |-> [order EXCEPT !.quantity = q], prev |-> prev, next |-> next]
  OBVIOUS
<1> HIDE DEF was
<1>3. WithSize(node, q) = [was EXCEPT !.order.quantity = q]
  BY <1>1 DEF WithSize
<1> QED
  BY <1>2, <1>3 DEF IsNode

\* reduce_order writes one size and the total, and no pointer.
LEMMA ReduceHolds ==
  ASSUME NEW s, NEW level, Holds(s, level), NEW id, NEW new_quantity \in Int,
         Reduces(s, id, new_quantity), NEW t,
         DOMAIN t = DOMAIN s, t.price = s.price, t.head = s.head, t.tail = s.tail,
         t.total_quantity = s.total_quantity - (s.nodes[id].order.quantity - new_quantity),
         DOMAIN t.nodes = DOMAIN s.nodes,
         \A o \in DOMAIN s.nodes :
           t.nodes[o] = IF o = id THEN WithSize(s.nodes[o], new_quantity) ELSE s.nodes[o]
  PROVE  /\ CanReduce(level, id, new_quantity)
         /\ Holds(t, LevelReduce(level, id, new_quantity))
<1> DEFINE m == Len(level.queue)
           n == PositionOf(level, id)
           after == LevelReduce(level, id, new_quantity)
<1>1. level \in Level /\ NoTwins(level) /\ Exact(level) /\ Links(s, level)
  BY DEF Holds
<1>2. HasOrder(level, id) /\ 0 < new_quantity /\ new_quantity <= s.nodes[id].order.quantity
  BY HeldIsQueued DEF Reduces
<1>3. n \in Positions(level) /\ level.queue[n].id = id /\ IdAt(level, n) = id
  BY <1>1, <1>2, PositionOfHeld DEF IdAt
<1>4. s.nodes[id].order = level.queue[n]
  BY <1>3, NodeAt
<1>5. CanReduce(level, id, new_quantity)
  BY <1>2, <1>4 DEF CanReduce, FindInLevel
<1>6. /\ after \in Level /\ Exact(after)
      /\ after.price = level.price
      /\ Len(after.queue) = m
      /\ \A i \in Positions(level) : after.queue[i].id = level.queue[i].id
  BY <1>1, LevelReduceQueue, LevelReduceExact
<1>7. /\ after.total_quantity = level.total_quantity - (level.queue[n].quantity - new_quantity)
      /\ after.queue = [level.queue EXCEPT ![n].quantity = new_quantity]
  BY <1>1, <1>5 DEF LevelReduce, FindInLevel, Level
<1>8. \A i \in Positions(level) :
        after.queue[i] = IF i = n THEN [level.queue[i] EXCEPT !.quantity = new_quantity]
                         ELSE level.queue[i]
  <2>1. DOMAIN level.queue = Positions(level)
    BY <1>1, QueuedSize DEF Positions
  <2> QED
    BY <1>7, <2>1
<1>9. Positions(after) = Positions(level)
  BY <1>6 DEF Positions
<1>10. \A i \in Int : IdAt(after, i) = IdAt(level, i)
  BY <1>6, <1>9 DEF IdAt
<1>11. m \in Nat /\ Positions(level) \subseteq Int /\ Positions(level) = 1 .. m
  BY <1>1, IdsApart DEF Positions
<1> HIDE DEF m, n, after
<1>12. NoTwins(after)
  BY <1>1, <1>6, <1>9 DEF NoTwins
<1>13. DOMAIN t.nodes = {IdAt(after, i) : i \in Positions(after)}
  <2>1. DOMAIN s.nodes = {IdAt(level, i) : i \in Positions(level)}
    BY <1>1 DEF Links
  <2> QED
    BY <1>9, <1>10, <1>11, <2>1
<1>14. ASSUME NEW i \in Positions(after)
       PROVE  IsNode(t.nodes[IdAt(after, i)], after.queue[i],
                     IdAt(after, i - 1), IdAt(after, i + 1))
  <2> DEFINE o == IdAt(level, i)
  <2>1. i \in Positions(level) /\ i \in Int /\ i - 1 \in Int /\ i + 1 \in Int
    BY <1>9, <1>11
  <2>2. /\ IdAt(after, i) = o
        /\ IdAt(after, i - 1) = IdAt(level, i - 1)
        /\ IdAt(after, i + 1) = IdAt(level, i + 1)
    BY <1>10, <2>1
  <2>3. IsNode(s.nodes[o], level.queue[i], IdAt(level, i - 1), IdAt(level, i + 1))
    BY <1>1, <2>1 DEF Links
  <2>4. o \in DOMAIN s.nodes
    BY <2>1, NodeAt
  <2>5. o = id <=> i = n
    BY <1>1, <1>3, <2>1, IdsApart
  <2> HIDE DEF o
  <2>6. t.nodes[o] = IF i = n THEN WithSize(s.nodes[o], new_quantity) ELSE s.nodes[o]
    BY <2>4, <2>5
  <2>7. CASE i = n
    <3>1. t.nodes[o] = WithSize(s.nodes[o], new_quantity)
      BY <2>6, <2>7
    <3>2. after.queue[i] = [level.queue[i] EXCEPT !.quantity = new_quantity]
      BY <1>8, <2>1, <2>7
    <3> QED
      BY <2>2, <2>3, <3>1, <3>2, NodeShrunk
  <2>8. CASE i # n
    <3>1. t.nodes[o] = s.nodes[o] /\ after.queue[i] = level.queue[i]
      BY <1>8, <2>1, <2>6, <2>8
    <3> QED
      BY <2>2, <2>3, <3>1
  <2> QED
    BY <2>7, <2>8
<1>15. t.head = IdAt(after, 1) /\ t.tail = IdAt(after, Len(after.queue))
  <2>1. s.head = IdAt(level, 1) /\ s.tail = IdAt(level, m)
    BY <1>1 DEF Links, m
  <2> QED
    BY <1>6, <1>10, <1>11, <2>1
<1>16. Links(t, after)
  BY <1>13, <1>14, <1>15 DEF Links
<1>17. /\ DOMAIN s = {"price", "total_quantity", "head", "tail", "nodes"}
       /\ s.price = level.price /\ s.total_quantity = level.total_quantity
  BY DEF Holds
<1>18. t.total_quantity = after.total_quantity
  BY <1>4, <1>7, <1>17
<1>19. t.price = after.price /\ DOMAIN t = {"price", "total_quantity", "head", "tail", "nodes"}
  BY <1>6, <1>17
<1>20. Holds(t, after)
  BY <1>6, <1>12, <1>16, <1>18, <1>19 DEF Holds
<1> QED
  BY <1>5, <1>20 DEF after

(***************************************************************************)
(* Every object holds a level                                              *)
(***************************************************************************)

\* What a caller reads of an object: the level that FifoLevel is told about.
Reading(s) ==
  [price |-> s.price, total_quantity |-> s.total_quantity, queue |-> snapshot(s)]

Readings == [l \in Objects |-> Reading(list[l])]

\* The inductive invariant.
AllHold ==
  /\ list = [l \in Objects |-> list[l]]
  /\ \A l \in Objects : Holds(list[l], Reading(list[l]))

LEMMA ReadingIsHeld ==
  ASSUME NEW s, NEW level, Holds(s, level)
  PROVE  Reading(s) = level
<1>1. snapshot(s) = level.queue
  BY SnapshotReads
<1>2. level = [price |-> level.price, total_quantity |-> level.total_quantity,
               queue |-> level.queue]
  BY DEF Holds, Level
<1> QED
  BY <1>1, <1>2 DEF Holds, Reading

\* A call on one object changes the reading of that object only.
LEMMA OneObjectChanges ==
  ASSUME AllHold, NEW l \in Objects, NEW t, NEW level,
         list' = [list EXCEPT ![l] = t], Holds(t, level)
  PROVE  /\ AllHold'
         /\ Readings' = [Readings EXCEPT ![l] = level]
<1>1. /\ list' = [k \in Objects |-> list'[k]]
      /\ list'[l] = t
      /\ \A k \in Objects \ {l} : list'[k] = list[k]
  BY DEF AllHold
<1>2. Reading(t) = level
  BY ReadingIsHeld
<1>3. \A k \in Objects : Holds(list'[k], Reading(list'[k]))
  BY <1>1, <1>2 DEF AllHold
<1>4. Readings' = [k \in Objects |-> Reading(list'[k])]
  BY DEF Readings
<1>5. Readings' = [Readings EXCEPT ![l] = level]
  BY <1>1, <1>2, <1>4 DEF Readings
<1> QED
  BY <1>1, <1>3, <1>5 DEF AllHold

LEMMA InitHolds ==
  ASSUME NEW price \in [Objects -> Prices],
         list = [l \in Objects |-> EmptyList(price[l])]
  PROVE  /\ AllHold
         /\ Readings = [l \in Objects |-> EmptyLevel(price[l])]
<1>1. \A l \in Objects : Holds(list[l], EmptyLevel(price[l]))
  BY EmptyHolds
<1>2. \A l \in Objects : Reading(list[l]) = EmptyLevel(price[l])
  BY <1>1, ReadingIsHeld
<1> QED
  BY <1>1, <1>2 DEF AllHold, Readings

LEMMA AddReads ==
  ASSUME AllHold, NEW l \in Objects, NEW id \in OrderIds, NEW quantity \in Quantities,
         add_order(l, id, quantity),
         NEW order, order = [id |-> id, side |-> LevelSide,
                             price |-> Readings[l].price, quantity |-> quantity]
  PROVE  /\ AllHold'
         /\ ~HasOrder(Readings[l], id)
         /\ Readings' = [Readings EXCEPT ![l] = LevelAdd(Readings[l], order)]
<1> DEFINE level == Readings[l]
<1>1. level = Reading(list[l]) /\ Holds(list[l], level)
  BY DEF AllHold, Readings
<1>2. list[l].price = level.price /\ level.price \in Prices
  BY <1>1 DEF Holds, Level
<1>3. order \in Order
  BY <1>2, QuantitiesAssumption DEF Order, LevelSide, Sides
<1>4. order.id = id
  OBVIOUS
<1>5. id \notin DOMAIN list[l].nodes /\ list' = [list EXCEPT ![l] = LinkAtBack(list[l], order)]
  BY <1>2 DEF add_order, Held
<1> HIDE DEF level
<1>6. ~HasOrder(level, id)
  BY <1>1, <1>5, HeldIsQueued
<1>7. Holds(LinkAtBack(list[l], order), LevelAdd(level, order))
  BY <1>1, <1>3, <1>4, <1>6, AddHolds
<1> QED
  BY <1>5, <1>6, <1>7, OneObjectChanges DEF level

LEMMA CancelReads ==
  ASSUME AllHold, NEW l \in Objects, NEW id \in OrderIds, level_cancel_order(l, id)
  PROVE  /\ AllHold'
         /\ Readings' = [Readings EXCEPT ![l] = LevelCancel(Readings[l], id)]
<1> DEFINE level == Readings[l]
           cut == [list[l] EXCEPT !.total_quantity = @ - list[l].nodes[id].order.quantity]
           t == Erase(Unlink(cut, id), id)
<1>1. Holds(list[l], level)
  BY DEF AllHold, Readings
<1>2. id \in DOMAIN list[l].nodes /\ list' = [list EXCEPT ![l] = t]
  BY DEF level_cancel_order, Held
<1>3. HasOrder(level, id)
  BY <1>1, <1>2, HeldIsQueued
<1>4. Holds(t, LevelCancel(level, id))
  <2> DEFINE s == list[l]
  <2>1. Holds(s, level)
    BY <1>1
  <2>2. cut = [s EXCEPT !.total_quantity = @ - s.nodes[id].order.quantity]
    OBVIOUS
  <2> HIDE DEF s, level, cut
  <2> QED
    BY <1>3, <2>1, <2>2, CancelHolds
<1> HIDE DEF t
<1> QED
  BY <1>2, <1>4, OneObjectChanges

LEMMA ReduceReads ==
  ASSUME AllHold, NEW l \in Objects, NEW id \in OrderIds, NEW new_quantity \in ModifySizes,
         reduce_order(l, id, new_quantity)
  PROVE  /\ AllHold'
         /\ Readings' = [Readings EXCEPT ![l] = LevelReduce(Readings[l], id, new_quantity)]
<1> DEFINE level == Readings[l]
           s == list[l]
           t == list'[l]
<1>1. Holds(s, level) /\ list = [k \in Objects |-> list[k]]
  BY DEF AllHold, Readings
<1>2. Reduces(s, id, new_quantity) /\ new_quantity \in Int
  BY QuantitiesAssumption DEF reduce_order, ModifySizes
<1>3. DOMAIN s = {"price", "total_quantity", "head", "tail", "nodes"} /\ id \in DOMAIN s.nodes
  BY <1>1, <1>2 DEF Holds, Reduces
<1>4. /\ list' = [list EXCEPT ![l] = t]
      /\ DOMAIN t = DOMAIN s
      /\ t.price = s.price /\ t.head = s.head /\ t.tail = s.tail
      /\ t.total_quantity = s.total_quantity - (s.nodes[id].order.quantity - new_quantity)
      /\ t.nodes = [s.nodes EXCEPT ![id].order.quantity = new_quantity]
  BY <1>1, <1>3 DEF reduce_order
<1>5. /\ DOMAIN t.nodes = DOMAIN s.nodes
      /\ \A o \in DOMAIN s.nodes :
           t.nodes[o] = IF o = id THEN WithSize(s.nodes[o], new_quantity) ELSE s.nodes[o]
  BY <1>3, <1>4 DEF WithSize
<1> HIDE DEF level, s, t
<1>6. Holds(t, LevelReduce(level, id, new_quantity))
  BY <1>1, <1>2, <1>4, <1>5, ReduceHolds
<1>7. list' = [list EXCEPT ![l] = t]
  BY <1>4
<1>8. /\ AllHold'
      /\ Readings' = [Readings EXCEPT ![l] = LevelReduce(level, id, new_quantity)]
  BY <1>6, <1>7, OneObjectChanges
<1> QED
  BY <1>8 DEF level

LEMMA MoveReads ==
  ASSUME AllHold, NEW to \in Objects, NEW from \in Objects, move_from(to, from)
  PROVE  /\ AllHold'
         /\ Readings' = [Readings EXCEPT ![to] = Readings[from],
                                         ![from] = EmptyLevel(Readings[from].price)]
<1> DEFINE emptied == EmptyList(list[from].price)
<1>1. to # from /\ list = [k \in Objects |-> list[k]]
  BY DEF move_from, AllHold
<1>2. /\ list' = [k \in Objects |-> list'[k]]
      /\ list'[to] = list[from] /\ list'[from] = emptied
      /\ \A k \in Objects \ {to, from} : list'[k] = list[k]
  BY <1>1 DEF move_from
<1>3. \A k \in Objects : Holds(list[k], Readings[k]) /\ Readings[k] = Reading(list[k])
  BY DEF AllHold, Readings
<1>4. Readings[from].price = list[from].price /\ list[from].price \in Prices
  BY <1>3 DEF Holds, Level
<1>5. Holds(emptied, EmptyLevel(Readings[from].price))
  BY <1>4, EmptyHolds
<1> HIDE DEF emptied
<1>6. Reading(emptied) = EmptyLevel(Readings[from].price)
  BY <1>5, ReadingIsHeld
<1>7. \A k \in Objects : Holds(list'[k], Reading(list'[k]))
  BY <1>2, <1>3, <1>5, <1>6
<1>8. Readings' = [k \in Objects |-> Reading(list'[k])]
      /\ Readings = [k \in Objects |-> Reading(list[k])]
  BY DEF Readings
<1>9. Readings' = [Readings EXCEPT ![to] = Readings[from],
                                   ![from] = EmptyLevel(Readings[from].price)]
  BY <1>1, <1>2, <1>6, <1>8
<1> QED
  BY <1>2, <1>7, <1>9 DEF AllHold

(***************************************************************************)
(* The invariant, and what follows from it                                 *)
(***************************************************************************)

LEMMA AllHoldStep ==
  ASSUME AllHold, [Next]_list
  PROVE  AllHold'
<1>1. ASSUME NEW l \in Objects, NEW id \in OrderIds, NEW quantity \in Quantities,
             add_order(l, id, quantity)
      PROVE  AllHold'
  BY <1>1, AddReads
<1>2. ASSUME NEW l \in Objects, NEW id \in OrderIds, level_cancel_order(l, id)
      PROVE  AllHold'
  BY <1>2, CancelReads
<1>3. ASSUME NEW l \in Objects, NEW id \in OrderIds, NEW new_quantity \in ModifySizes,
             reduce_order(l, id, new_quantity)
      PROVE  AllHold'
  BY <1>3, ReduceReads
<1>4. ASSUME NEW to \in Objects, NEW from \in Objects, move_from(to, from)
      PROVE  AllHold'
  BY <1>4, MoveReads
<1>5. CASE UNCHANGED list
  BY <1>5 DEF AllHold
<1> QED
  BY <1>1, <1>2, <1>3, <1>4, <1>5 DEF Next

\* Every object always holds a level: its nodes are those of a queue of
\* distinct ids, linked in the order of the queue.
THEOREM ObjectsHoldLevels == Spec => []AllHold
<1>1. Init => AllHold
  BY InitHolds DEF Init
<1>2. AllHold /\ [Next]_list => AllHold'
  BY AllHoldStep
<1> QED
  BY <1>1, <1>2, PTL DEF Spec

LEMMA HeldIsTyped ==
  ASSUME NEW s, NEW level, Holds(s, level)
  PROVE  /\ s.price \in Prices
         /\ s.total_quantity \in Nat
         /\ {s.head, s.tail} \subseteq Pointer
         /\ DOMAIN s.nodes \subseteq OrderIds
         /\ \A id \in DOMAIN s.nodes : s.nodes[id] \in Node
<1>1. level \in Level /\ NoTwins(level) /\ Links(s, level) /\ Exact(level)
  BY DEF Holds
<1>2. \A i : IdAt(level, i) \in Pointer
  BY <1>1, IdsApart DEF Pointer, IdAt
<1>3. \A i \in Positions(level) : IdAt(level, i) \in OrderIds /\ level.queue[i] \in Order
  BY <1>1, IdsApart
<1>4. s.total_quantity \in Nat
  BY <1>1, SharesNat DEF Holds, Exact, Level
<1>5. ASSUME NEW id \in DOMAIN s.nodes PROVE s.nodes[id] \in Node
  <2>1. PICK i \in Positions(level) : id = IdAt(level, i)
    BY <1>1 DEF Links
  <2>2. s.nodes[id] = [order |-> level.queue[i], prev |-> IdAt(level, i - 1),
                       next |-> IdAt(level, i + 1)]
    BY <1>1, <2>1 DEF Links, IsNode
  <2> QED
    BY <1>2, <1>3, <2>2 DEF Node
<1> QED
  BY <1>1, <1>2, <1>3, <1>4, <1>5 DEF Holds, Level, Links

LEMMA HeldIsLinked ==
  ASSUME NEW s, NEW level, Holds(s, level),
         NEW ids, ids = DOMAIN s.nodes
  PROVE  /\ ids \subseteq {Walk(s)[n] : n \in 0 .. Cardinality(ids)}
         /\ Walk(s)[Cardinality(ids)] = NULL
         /\ s.tail = IF ids = {} THEN NULL ELSE Walk(s)[Cardinality(ids) - 1]
         /\ \A id \in ids : /\ s.nodes[id].prev = NULL <=> id = s.head
                            /\ s.nodes[id].next \in ids =>
                                 s.nodes[s.nodes[id].next].prev = id
<1> DEFINE m == Len(level.queue)
<1>1. /\ m \in Nat /\ Positions(level) = 1 .. m
      /\ Cardinality(ids) = m
      /\ ids = {IdAt(level, i) : i \in Positions(level)}
      /\ s.head = IdAt(level, 1) /\ s.tail = IdAt(level, m)
  BY IdsApart, NodesCounted DEF Holds, Links, Positions
<1>2. \A i, j \in Positions(level) : IdAt(level, i) = IdAt(level, j) => i = j
  BY IdsApart DEF Holds
<1>3. \A i : IdAt(level, i) = NULL <=> i \notin Positions(level)
  BY IdsApart DEF Holds, IdAt
<1>4. \A n \in Nat : Walk(s)[n] = IdAt(level, n + 1)
  BY WalkVisits
<1>5. \A i \in Positions(level) : /\ s.nodes[IdAt(level, i)].prev = IdAt(level, i - 1)
                                  /\ s.nodes[IdAt(level, i)].next = IdAt(level, i + 1)
  BY NodeAt
<1> HIDE DEF m
<1>6. \A id \in ids : \E n \in 0 .. m : id = Walk(s)[n]
  <2> SUFFICES ASSUME NEW id \in ids PROVE \E n \in 0 .. m : id = Walk(s)[n]
    OBVIOUS
  <2>1. PICK i \in 1 .. m : id = IdAt(level, i)
    BY <1>1
  <2>2. i - 1 \in 0 .. m /\ i - 1 \in Nat /\ (i - 1) + 1 = i
    BY <1>1
  <2> QED
    BY <1>4, <2>1, <2>2
<1>7. Walk(s)[m] = NULL
  BY <1>1, <1>3, <1>4
<1>8. s.tail = IF ids = {} THEN NULL ELSE Walk(s)[m - 1]
  <2>1. CASE m = 0
    BY <1>1, <1>3, <2>1
  <2>2. CASE m # 0
    <3>1. m - 1 \in Nat /\ (m - 1) + 1 = m /\ m \in Positions(level)
      BY <1>1, <2>2
    <3>2. ids # {}
      BY <1>1, <3>1
    <3>3. Walk(s)[m - 1] = IdAt(level, m)
      BY <1>4, <3>1
    <3> QED
      BY <1>1, <3>2, <3>3
  <2> QED
    BY <2>1, <2>2
<1>9. ASSUME NEW id \in ids
      PROVE  /\ s.nodes[id].prev = NULL <=> id = s.head
             /\ s.nodes[id].next \in ids => s.nodes[s.nodes[id].next].prev = id
  <2>1. PICK i \in Positions(level) : id = IdAt(level, i)
    BY <1>1
  <2>2. s.nodes[id].prev = IdAt(level, i - 1) /\ s.nodes[id].next = IdAt(level, i + 1)
    BY <1>5, <2>1
  <2>3. i \in 1 .. m /\ i \in Int /\ 1 \in Positions(level)
    BY <1>1, <2>1
  <2>4. s.nodes[id].prev = NULL <=> id = s.head
    BY <1>1, <1>2, <1>3, <2>1, <2>2, <2>3
  <2>5. ASSUME IdAt(level, i + 1) \in ids
        PROVE  s.nodes[IdAt(level, i + 1)].prev = id
    <3>1. IdAt(level, i + 1) # NULL
      BY <1>1, <1>3, <2>5
    <3>2. i + 1 \in Positions(level) /\ (i + 1) - 1 = i
      BY <1>3, <2>3, <3>1
    <3> QED
      BY <1>5, <2>1, <3>2
  <2> QED
    BY <2>2, <2>4, <2>5
<1> QED
  BY <1>1, <1>6, <1>7, <1>8, <1>9

\* The list and the map never disagree: the walk from head_ visits every node
\* once and ends at tail_, prev undoes next, and no pointer dangles.
THEOREM LevelsStayLinked == Spec => []WellLinked
<1>1. ASSUME AllHold, NEW l \in Objects
      PROVE  LET s == list[l]
                 ids == DOMAIN s.nodes
                 reached == {Walk(s)[n] : n \in 0 .. Cardinality(ids)}
             IN /\ ids \subseteq reached
                /\ Walk(s)[Cardinality(ids)] = NULL
                /\ s.tail = IF ids = {} THEN NULL ELSE Walk(s)[Cardinality(ids) - 1]
                /\ \A id \in ids :
                     /\ s.nodes[id].prev = NULL <=> id = s.head
                     /\ s.nodes[id].next \in ids =>
                          s.nodes[s.nodes[id].next].prev = id
  <2>1. Holds(list[l], Reading(list[l]))
    BY <1>1 DEF AllHold
  <2> QED
    BY <2>1, HeldIsLinked
<1>2. ASSUME AllHold PROVE TypeOK
  <2>1. DOMAIN list = Objects
    BY <1>2 DEF AllHold
  <2>2. \A l \in Objects : Holds(list[l], Reading(list[l]))
    BY <1>2 DEF AllHold
  <2> QED
    BY <2>1, <2>2, HeldIsTyped DEF TypeOK, Held
<1>3. AllHold => WellLinked
  BY <1>1, <1>2 DEF WellLinked
<1> QED
  BY <1>3, ObjectsHoldLevels, PTL

(***************************************************************************)
(* The refinement                                                          *)
(***************************************************************************)

\* FifoLevel instantiates LevelOps of its own; its operators are these.
LEMMA FifoPositions ==
  ASSUME NEW level, NEW id
  PROVE  /\ Fifo!HasOrder(level, id) <=> HasOrder(level, id)
         /\ Fifo!PositionOf(level, id) = PositionOf(level, id)
         /\ Fifo!FindInLevel(level, id) = FindInLevel(level, id)
<1>1. Fifo!Positions(level) = Positions(level)
  BY DEF Fifo!Positions, Positions
<1>2. /\ Fifo!HasOrder(level, id) <=> HasOrder(level, id)
      /\ Fifo!PositionOf(level, id) = PositionOf(level, id)
  BY <1>1 DEF Fifo!HasOrder, HasOrder, Fifo!PositionOf, PositionOf
<1> QED
  BY <1>2 DEF Fifo!FindInLevel, FindInLevel

LEMMA FifoOperators ==
  ASSUME NEW level, NEW order, NEW id, NEW new_quantity, NEW price
  PROVE  /\ Fifo!EmptyLevel(price) = EmptyLevel(price)
         /\ Fifo!LevelAdd(level, order) = LevelAdd(level, order)
         /\ Fifo!LevelCancel(level, id) = LevelCancel(level, id)
         /\ Fifo!LevelReduce(level, id, new_quantity) = LevelReduce(level, id, new_quantity)
<1>1. Fifo!EmptyLevel(price) = EmptyLevel(price)
  BY DEF Fifo!EmptyLevel, EmptyLevel
<1>2. Fifo!LevelAdd(level, order) = LevelAdd(level, order)
  BY DEF Fifo!LevelAdd, LevelAdd
<1>3. Fifo!LevelCancel(level, id) = LevelCancel(level, id)
  <2>1. \A s, n : Fifo!RemoveAt(s, n) = RemoveAt(s, n)
    BY DEF Fifo!RemoveAt, RemoveAt
  <2> QED
    BY <2>1, FifoPositions DEF Fifo!LevelCancel, LevelCancel
<1>4. Fifo!CanReduce(level, id, new_quantity) <=> CanReduce(level, id, new_quantity)
  BY FifoPositions DEF Fifo!CanReduce, CanReduce
<1>5. Fifo!LevelReduce(level, id, new_quantity) = LevelReduce(level, id, new_quantity)
  BY <1>4, FifoPositions DEF Fifo!LevelReduce, LevelReduce
<1> QED
  BY <1>1, <1>2, <1>3, <1>5

LEMMA InitRefines ==
  ASSUME Init
  PROVE  Fifo!Init
<1>1. PICK price \in [Objects -> Prices] : list = [l \in Objects |-> EmptyList(price[l])]
  BY DEF Init
<1>2. Readings = [l \in Objects |-> EmptyLevel(price[l])]
  BY <1>1, InitHolds
<1>3. Readings = [l \in Objects |-> Fifo!EmptyLevel(price[l])]
  BY <1>2, FifoOperators
<1> QED
  BY <1>3 DEF Fifo!Init, Readings, Reading

LEMMA StepRefines ==
  ASSUME AllHold, [Next]_list
  PROVE  [Fifo!Next]_Readings
<1>1. ASSUME NEW l \in Objects, NEW id \in OrderIds, NEW quantity \in Quantities,
             add_order(l, id, quantity)
      PROVE  Fifo!Add(l, id, quantity)
  <2> DEFINE order == [id |-> id, side |-> LevelSide, price |-> Readings[l].price,
                       quantity |-> quantity]
             fifo == [id |-> id, side |-> Fifo!LevelSide, price |-> Readings[l].price,
                      quantity |-> quantity]
  <2>1. /\ ~HasOrder(Readings[l], id)
        /\ Readings' = [Readings EXCEPT ![l] = LevelAdd(Readings[l], order)]
    BY <1>1, AddReads
  <2>2. fifo = order
    BY DEF Fifo!LevelSide, LevelSide
  <2> HIDE DEF order, fifo
  <2>3. /\ ~Fifo!HasOrder(Readings[l], id)
        /\ Readings' = [Readings EXCEPT ![l] = Fifo!LevelAdd(Readings[l], fifo)]
    BY <2>1, <2>2, FifoPositions, FifoOperators
  <2> QED
    BY <2>3 DEF Fifo!Add, Readings, Reading, fifo
<1>2. ASSUME NEW l \in Objects, NEW id \in OrderIds, level_cancel_order(l, id)
      PROVE  Fifo!Cancel(l, id)
  <2>1. Readings' = [Readings EXCEPT ![l] = Fifo!LevelCancel(Readings[l], id)]
    <3>1. Readings' = [Readings EXCEPT ![l] = LevelCancel(Readings[l], id)]
      BY <1>2, CancelReads
    <3>2. Fifo!LevelCancel(Readings[l], id) = LevelCancel(Readings[l], id)
      BY FifoOperators
    <3> QED
      BY <3>1, <3>2
  <2> QED
    BY <2>1 DEF Fifo!Cancel, Readings, Reading
<1>3. ASSUME NEW l \in Objects, NEW id \in OrderIds, NEW new_quantity \in ModifySizes,
             reduce_order(l, id, new_quantity)
      PROVE  Fifo!Reduce(l, id, new_quantity)
  <2>1. Readings' = [Readings EXCEPT ![l] = Fifo!LevelReduce(Readings[l], id, new_quantity)]
    <3>1. Readings' = [Readings EXCEPT ![l] = LevelReduce(Readings[l], id, new_quantity)]
      BY <1>3, ReduceReads
    <3>2. Fifo!LevelReduce(Readings[l], id, new_quantity)
            = LevelReduce(Readings[l], id, new_quantity)
      BY FifoOperators
    <3> QED
      BY <3>1, <3>2
  <2> QED
    BY <2>1 DEF Fifo!Reduce, Readings, Reading
<1>4. ASSUME NEW to \in Objects, NEW from \in Objects, move_from(to, from)
      PROVE  Fifo!Move(from, to)
  <2>1. Readings' = [Readings EXCEPT ![to] = Readings[from],
                                     ![from] = EmptyLevel(Readings[from].price)]
    BY <1>4, MoveReads
  <2>2. Fifo!EmptyLevel(Readings[from].price) = EmptyLevel(Readings[from].price)
    BY FifoOperators
  <2>3. Readings' = [Readings EXCEPT ![to] = Readings[from],
                                     ![from] = Fifo!EmptyLevel(Readings[from].price)]
    BY <2>1, <2>2
  <2>4. from # to
    BY <1>4 DEF move_from
  <2> QED
    BY <2>3, <2>4 DEF Fifo!Move, Readings, Reading
<1>5. CASE UNCHANGED list
  BY <1>5 DEF Readings, Reading
<1>6. CASE Next
  <2>1. Fifo!ModifySizes = ModifySizes
    BY DEF Fifo!ModifySizes, ModifySizes
  <2>2. Fifo!Next
    BY <1>1, <1>2, <1>3, <1>4, <1>6, <2>1 DEF Next, Fifo!Next
  <2> QED
    BY <2>2
<1> QED
  BY <1>5, <1>6

\* The linked list implements the FIFO queue: every behaviour of the level
\* objects, read through snapshot(), is one of FifoLevel.
THEOREM ListImplementsFifo == Spec => ImplementsFifo
<1>1. Init => Fifo!Init
  BY InitRefines
<1>2. AllHold /\ [Next]_list => [Fifo!Next]_Readings
  BY StepRefines
<1> QED
  BY <1>1, <1>2, ObjectsHoldLevels, PTL
     DEF Spec, ImplementsFifo, Fifo!Spec, Readings, Reading
=============================================================================

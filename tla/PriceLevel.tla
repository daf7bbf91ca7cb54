----------------------------- MODULE PriceLevel -----------------------------
(***************************************************************************)
(* The price level as it is built: an intrusive doubly linked list of      *)
(* nodes plus the id -> node map that owns them (include/obme/             *)
(* PriceLevel.hpp, src/PriceLevel.cpp).  A node lives exactly as long as   *)
(* its entry in nodes_, and an id has at most one node per level, so a     *)
(* node pointer is modelled by the id of its order; NULL is nullptr.  A    *)
(* pointer that is not NULL and not in nodes_ dangles.                     *)
(***************************************************************************)
EXTENDS LevelOps

CONSTANTS
  Objects,   \* the level objects
  NULL       \* nullptr

ASSUME NullAssumption == NULL \notin OrderIds

\* One PriceLevel object: price_, total_quantity_, head_, tail_ and nodes_
\* of each object.
VARIABLE list

Pointer == OrderIds \cup {NULL}

Node == [order : Order, prev : Pointer, next : Pointer]

EmptyList(price) ==
  [price |-> price, total_quantity |-> 0, head |-> NULL, tail |-> NULL,
   nodes |-> [id \in {} |-> NULL]]

Held(l) == DOMAIN list[l].nodes

\* empty() looks at the list, size() at the map.
IsEmpty(l) == list[l].head = NULL

Init ==
  \E price \in [Objects -> Prices] :
    list = [l \in Objects |-> EmptyList(price[l])]

(***************************************************************************)
(* Appending                                                               *)
(***************************************************************************)

LinkAtBack(s, order) ==
  [s EXCEPT
     !.nodes = [id \in DOMAIN s.nodes \cup {order.id} |->
                  CASE id = order.id -> [order |-> order, prev |-> s.tail,
                                         next |-> NULL]
                    [] id = s.tail   -> [s.nodes[id] EXCEPT !.next = order.id]
                    [] OTHER         -> s.nodes[id]],
     !.head = IF s.tail = NULL THEN order.id ELSE @,
     !.tail = order.id,
     !.total_quantity = @ + order.quantity]

add_order(l, id, quantity) ==
  /\ id \notin Held(l)
  /\ LET order == [id |-> id, side |-> LevelSide, price |-> list[l].price,
                   quantity |-> quantity]
     IN list' = [list EXCEPT ![l] = LinkAtBack(@, order)]

(***************************************************************************)
(* Removing                                                                *)
(***************************************************************************)

\* Faulty variant: removing the newest node leaves tail_ behind.
UnlinkKeepTail(s, id) ==
  LET gone == s.nodes[id]
      Bypass(i) ==
        [s.nodes[i] EXCEPT !.next = IF i = gone.prev THEN gone.next ELSE @,
                           !.prev = IF i = gone.next THEN gone.prev ELSE @]
  IN [s EXCEPT
        !.head = IF gone.prev = NULL THEN gone.next ELSE @,
        !.nodes = [i \in DOMAIN s.nodes |-> Bypass(i)]]

\* unlink: the neighbours, or the ends of the list, bypass the node.
Unlink(s, id) ==
  LET gone == s.nodes[id]
      Bypass(i) ==
        [s.nodes[i] EXCEPT !.next = IF i = gone.prev THEN gone.next ELSE @,
                           !.prev = IF i = gone.next THEN gone.prev ELSE @]
  IN [s EXCEPT
        !.head = IF gone.prev = NULL THEN gone.next ELSE @,
        !.tail = IF gone.next = NULL THEN gone.prev ELSE @,
        !.nodes = [i \in DOMAIN s.nodes |-> Bypass(i)]]

\* nodes_.erase: the node is freed.
Erase(s, id) ==
  [s EXCEPT !.nodes = [i \in DOMAIN s.nodes \ {id} |-> s.nodes[i]]]

\* PriceLevel::cancel_order; the book's own has that name.
level_cancel_order(l, id) ==
  /\ id \in Held(l)
  /\ LET s == [list[l] EXCEPT
                 !.total_quantity = @ - list[l].nodes[id].order.quantity]
     IN list' = [list EXCEPT ![l] = Erase(Unlink(s, id), id)]

(***************************************************************************)
(* Reducing in place, and moving the contents to another object            *)
(***************************************************************************)

Reduces(s, id, new_quantity) ==
  /\ id \in DOMAIN s.nodes
  /\ 0 < new_quantity
  /\ new_quantity <= s.nodes[id].order.quantity

\* Faulty variant: the order shrinks and the cached total does not.
reduce_order_stale_total(l, id, new_quantity) ==
  /\ Reduces(list[l], id, new_quantity)
  /\ list' = [list EXCEPT ![l].nodes[id].order.quantity = new_quantity]

reduce_order(l, id, new_quantity) ==
  /\ Reduces(list[l], id, new_quantity)
  /\ list' = [list EXCEPT
       ![l].total_quantity =
          @ - (list[l].nodes[id].order.quantity - new_quantity),
       ![l].nodes[id].order.quantity = new_quantity]

\* The move constructor and the move assignment. The target's own nodes are
\* freed, the source keeps its price and is left empty.
move_from(to, from) ==
  /\ to # from
  /\ list' = [list EXCEPT ![to] = list[from],
                          ![from] = EmptyList(@.price)]

Next ==
  \/ \E l \in Objects, id \in OrderIds :
       \/ \E quantity \in Quantities : add_order(l, id, quantity)
       \/ level_cancel_order(l, id)
       \/ \E new_quantity \in ModifySizes : reduce_order(l, id, new_quantity)
  \/ \E to, from \in Objects : move_from(to, from)

Spec == Init /\ [][Next]_list

(***************************************************************************)
(* What snapshot() and front() read: the walk along next from head_.       *)
(***************************************************************************)

\* The pointer reached after n steps along next from head_.
Walk(s) ==
  LET at[n \in Nat] ==
        IF n = 0 THEN s.head
        ELSE LET before == at[n - 1]
             IN IF before \in DOMAIN s.nodes THEN s.nodes[before].next ELSE NULL
  IN at

\* snapshot(): the orders met until nullptr; a walk that meets more nodes than
\* the map owns has entered a cycle and is cut there.
snapshot(s) ==
  LET met == {n \in 0 .. Cardinality(DOMAIN s.nodes) - 1 :
                Walk(s)[n] \in DOMAIN s.nodes}
  IN [k \in 1 .. Cardinality(met) |-> s.nodes[Walk(s)[k - 1]].order]

(***************************************************************************)
(* Properties                                                              *)
(***************************************************************************)

\* Every object of every state has the fields of the class with their types:
\* node sizes stay positive, the cached total never goes negative, and a
\* pointer is nullptr or names an id.
TypeOK ==
  /\ DOMAIN list = Objects
  /\ \A l \in Objects :
       /\ list[l].price \in Prices
       /\ list[l].total_quantity \in Nat
       /\ {list[l].head, list[l].tail} \subseteq Pointer
       /\ Held(l) \subseteq OrderIds
       /\ \A id \in Held(l) : list[l].nodes[id] \in Node

\* The list and the map agree, in both directions, after any sequence of
\* insertions, removals from the front, the middle and the back, reductions
\* and moves: the forward walk from head_ visits every node of the map once
\* and ends at tail_, prev undoes next, no pointer dangles, and empty(),
\* which reads head_, agrees with size(), which reads the map.
WellLinked ==
  /\ TypeOK
  /\ \A l \in Objects :
       LET s == list[l]
           ids == DOMAIN s.nodes
           reached == {Walk(s)[n] : n \in 0 .. Cardinality(ids)}
       IN /\ ids \subseteq reached
          /\ Walk(s)[Cardinality(ids)] = NULL
          /\ s.tail = IF ids = {} THEN NULL ELSE Walk(s)[Cardinality(ids) - 1]
          /\ \A id \in ids :
               /\ s.nodes[id].prev = NULL <=> id = s.head
               /\ s.nodes[id].next \in ids =>
                    s.nodes[s.nodes[id].next].prev = id

\* The linked list implements the FIFO queue of FifoLevel: reading the list
\* from head_ gives the queue, whatever the order of the calls, and the
\* cached total moves with it.
Fifo == INSTANCE FifoLevel WITH
  levels <- [l \in Objects |->
               [price |-> list[l].price,
                total_quantity |-> list[l].total_quantity,
                queue |-> snapshot(list[l])]]

ImplementsFifo == Fifo!Spec
=============================================================================

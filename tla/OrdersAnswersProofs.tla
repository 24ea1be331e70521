------------------------- MODULE OrdersAnswersProofs -------------------------
(* Proofs about what the order service's clients see, for any number of    *)
(* clients and requests: a change answered 200 or 201 is stored as the     *)
(* answer shows it; the handlers implement OrderStore; and none of them    *)
(* keeps on for ever or waits for one that waits.                          *)
EXTENDS OrdersProofs

(* A handler at work has answered nothing yet.                             *)
StillWaits(c) == pc[c] # "idle" => answer[c] = 0

(* The rows a handler loaded of an order that is still there are still its *)
(* rows: rows go only with their order.                                    *)
KnowsStoredRows(c) ==
    loaded[c].id \in DOMAIN orders
    => \A i \in DOMAIN loaded[c].items :
          i > 0 /\ i \notin loaded[c].inserted
          => i \in DOMAIN items /\ items[i].order = loaded[c].id

(* A handler that creates an order holds new items only.                   *)
CreatesNewRows(c) ==
    req[c].op = "create"
    => \A i \in DOMAIN loaded[c].items : i <= 0 \/ i \in loaded[c].inserted

(* The ids of rows a transaction inserted are no other's, and no           *)
(* committed row has them.                                                 *)
OwnsItsIds(c) ==
    \A i \in loaded[c].inserted :
        /\ i \in Int /\ i < nextItem
        /\ i \notin DOMAIN items
        /\ \A d \in Clients \ {c} : i \notin loaded[d].inserted

RowsInv ==
    \A c \in Clients :
        StillWaits(c) /\ KnowsStoredRows(c) /\ CreatesNewRows(c) /\ OwnsItsIds(c)

-----------------------------------------------------------------------------
(* A step of one handler that leaves the tables alone and inserts under    *)
(* the next ids, if at all.                                                *)
Stays(c) ==
    /\ UNCHANGED <<orders, items>>
    /\ nextItem' \in Nat /\ nextItem <= nextItem'
    /\ loaded'[c].inserted \subseteq loaded[c].inserted \cup nextItem .. (nextItem' - 1)
    /\ \A d \in Clients \ {c} :
          /\ pc'[d] = pc[d] /\ req'[d] = req[d]
          /\ loaded'[d] = loaded[d] /\ answer'[d] = answer[d]

LEMMA StayKeepsRows ==
    ASSUME IInv, RowsInv, NEW c \in Clients, Stays(c),
           StillWaits(c)', KnowsStoredRows(c)', CreatesNewRows(c)'
    PROVE  RowsInv'
<1>1. /\ nextItem \in Int /\ nextItem > 0 /\ nextItem' \in Int
      /\ nextItem <= nextItem'
  BY DEF IInv, TypeOK, Stays
<1>2. \A i \in DOMAIN items : i \in 1 .. (nextItem - 1)
  BY DEF IInv, TypeOK
<1>3. \A d \in Clients : \A i \in loaded[d].inserted :
         /\ i \in Int /\ i < nextItem /\ i \notin DOMAIN items
         /\ \A e \in Clients \ {d} : i \notin loaded[e].inserted
  BY DEF RowsInv, OwnsItsIds
<1>4. ASSUME NEW d \in Clients
      PROVE  OwnsItsIds(d)'
  <2> SUFFICES ASSUME NEW i \in loaded'[d].inserted
               PROVE  /\ i \in Int /\ i < nextItem' /\ i \notin DOMAIN items
                      /\ \A e \in Clients \ {d} : i \notin loaded'[e].inserted
    BY DEF OwnsItsIds, Stays
  <2>1. CASE d = c
    <3>1. i \in loaded[c].inserted \/ i \in nextItem .. (nextItem' - 1)
      BY <2>1 DEF Stays
    <3>2. \A e \in Clients \ {c} : loaded'[e] = loaded[e]
      BY DEF Stays
    <3>3. CASE i \in loaded[c].inserted
      BY <1>1, <1>3, <2>1, <3>2, <3>3
    <3>4. CASE i \in nextItem .. (nextItem' - 1)
      <4>1. i \in Int /\ nextItem <= i /\ i < nextItem' /\ i \notin DOMAIN items
        BY <1>1, <1>2, <3>4
      <4>2. \A e \in Clients : i \notin loaded[e].inserted
        BY <1>1, <1>3, <3>4
      <4> QED BY <2>1, <3>2, <4>1, <4>2
    <3> QED BY <3>1, <3>3, <3>4
  <2>2. CASE d # c
    <3>1. i \in loaded[d].inserted
      BY <2>2 DEF Stays
    <3>2. i \in Int /\ i < nextItem /\ i \notin DOMAIN items
      BY <1>3, <3>1
    <3>3. ASSUME NEW e \in Clients \ {d}
          PROVE  i \notin loaded'[e].inserted
      <4>1. i \notin loaded[e].inserted
        BY <1>3, <3>1
      <4>2. CASE e = c
        BY <1>1, <3>2, <4>1, <4>2 DEF Stays
      <4>3. CASE e # c
        BY <4>1, <4>3 DEF Stays
      <4> QED BY <4>2, <4>3
    <3> QED BY <1>1, <3>2, <3>3
  <2> QED BY <2>1, <2>2
<1>5. ASSUME NEW d \in Clients \ {c}
      PROVE  StillWaits(d)' /\ KnowsStoredRows(d)' /\ CreatesNewRows(d)'
  <2>1. /\ pc'[d] = pc[d] /\ req'[d] = req[d] /\ loaded'[d] = loaded[d]
        /\ answer'[d] = answer[d] /\ orders' = orders /\ items' = items
    BY DEF Stays
  <2>2. StillWaits(d) /\ KnowsStoredRows(d) /\ CreatesNewRows(d)
    BY DEF RowsInv
  <2> QED BY <2>1, <2>2 DEF StillWaits, KnowsStoredRows, CreatesNewRows
<1> QED BY <1>4, <1>5 DEF RowsInv

LEMMA LeaveKeepsRows ==
    ASSUME IInv, RowsInv, NEW c \in Clients, NEW code, Leave(c, code)
    PROVE  RowsInv'
<1>1. DOMAIN EmptyOrder.items = {} /\ EmptyOrder.inserted = {}
  BY DEF EmptyOrder
<1>2. /\ pc'[c] = "idle" /\ loaded'[c] = EmptyOrder
      /\ UNCHANGED <<orders, items, nextItem>>
      /\ \A d \in Clients \ {c} :
            /\ pc'[d] = pc[d] /\ req'[d] = req[d]
            /\ loaded'[d] = loaded[d] /\ answer'[d] = answer[d]
  BY DEF Leave, Answer, Goto, IInv, TypeOK
<1>3. Stays(c)
  BY <1>1, <1>2 DEF Stays, IInv, TypeOK
<1>4. StillWaits(c)' /\ KnowsStoredRows(c)' /\ CreatesNewRows(c)'
  BY <1>1, <1>2 DEF StillWaits, KnowsStoredRows, CreatesNewRows
<1> QED BY <1>3, <1>4, StayKeepsRows

LEMMA SubmitKeepsRows ==
    ASSUME IInv, RowsInv, NEW c \in Clients, NEW r, Submit(c, r)
    PROVE  RowsInv'
<1>1. DOMAIN EmptyOrder.items = {} /\ EmptyOrder.inserted = {}
  BY DEF EmptyOrder
<1>2. /\ loaded[c] = EmptyOrder /\ loaded' = loaded
      /\ UNCHANGED <<orders, items, nextItem>>
      /\ pc'[c] # "idle" => answer'[c] = 0
      /\ \A d \in Clients \ {c} :
            /\ pc'[d] = pc[d] /\ req'[d] = req[d] /\ answer'[d] = answer[d]
  BY DEF Submit, Goto, IInv, TypeOK, MemoryMatchesStep
<1>3. Stays(c)
  BY <1>1, <1>2 DEF Stays, IInv, TypeOK
<1>4. StillWaits(c)' /\ KnowsStoredRows(c)' /\ CreatesNewRows(c)'
  BY <1>1, <1>2 DEF StillWaits, KnowsStoredRows, CreatesNewRows
<1> QED BY <1>3, <1>4, StayKeepsRows

(* A handler that goes on to its next statement.                           *)
Proceeds(c) ==
    /\ UNCHANGED <<orders, items, req, answer>>
    /\ nextItem' \in Nat /\ nextItem <= nextItem'
    /\ pc[c] # "idle"
    /\ \A d \in Clients \ {c} : pc'[d] = pc[d] /\ loaded'[d] = loaded[d]

LEMMA ProceedKeepsRows ==
    ASSUME IInv, RowsInv, NEW c \in Clients, Proceeds(c),
           loaded'[c].inserted
              \subseteq loaded[c].inserted \cup nextItem .. (nextItem' - 1),
           KnowsStoredRows(c)', CreatesNewRows(c)'
    PROVE  RowsInv'
<1>1. Stays(c)
  BY DEF Proceeds, Stays
<1>2. StillWaits(c)'
  BY DEF Proceeds, RowsInv, StillWaits
<1> QED BY <1>1, <1>2, StayKeepsRows

LEMMA BuildLineKeepsRows ==
    ASSUME IInv, RowsInv, NEW c \in Clients, BuildLine(c)
    PROVE  RowsInv'
<1> DEFINE lines == req[c].cart.lines
           line  == lines[loaded[c].fresh + 1]
           new   == WithItem(loaded[c], line)
<1>1. CASE Leave(c, 400)
  BY <1>1, LeaveKeepsRows
<1>2. CASE /\ loaded' = [loaded EXCEPT ![c] = new]
           /\ Goto(c, IF loaded[c].fresh + 1 = Len(lines) THEN "inserting" ELSE "building")
           /\ UNCHANGED <<orders, items, nextOrder, nextItem, req, locks,
                          answer, sent, overtaken>>
  <2>1. /\ pc[c] = "building" /\ IsOrder(loaded[c]) /\ loaded[c].id = 0
        /\ loaded[c].inserted = {} /\ nextItem \in Nat
        /\ \A i \in DOMAIN loaded[c].items : i <= 0
    BY DEF BuildLine, IInv, TypeOK, MemoryMatchesStep
  <2> DEFINE item == [order    |-> 0,
                      quantity |-> line.quantity,
                      price    |-> line.price,
                      subtotal |-> Subtotal(line.quantity, line.price)]
  <2>2. /\ new.id = 0 /\ new.inserted = {}
        /\ new.items = Put(loaded[c].items, -loaded[c].fresh, item)
    BY <2>1 DEF WithItem, IsOrder
  <2> HIDE DEF item, new
  <2>3. DOMAIN new.items = DOMAIN loaded[c].items \cup {-loaded[c].fresh}
    <3> DEFINE id == -loaded[c].fresh
    <3>1. new.items = Put(loaded[c].items, id, item)
      BY <2>2
    <3> HIDE DEF id
    <3>2. DOMAIN new.items = DOMAIN loaded[c].items \cup {id}
      BY <3>1, PutDomain
    <3> QED BY <3>2 DEF id
  <2>4. loaded[c].fresh \in Nat
    BY <2>1 DEF IsOrder
  <2>5. \A i \in DOMAIN new.items : i <= 0
    BY <2>1, <2>3, <2>4
  <2>6. /\ loaded'[c] = new /\ Proceeds(c)
    BY <1>2, <2>1 DEF Proceeds, Goto, IInv, TypeOK
  <2>7. 0 \notin DOMAIN orders
    BY DEF IInv, TypeOK
  <2>8. KnowsStoredRows(c)' /\ CreatesNewRows(c)'
    BY <1>2, <2>2, <2>5, <2>6, <2>7 DEF KnowsStoredRows, CreatesNewRows
  <2> QED BY <2>2, <2>6, <2>8, ProceedKeepsRows
<1> QED BY <1>1, <1>2 DEF BuildLine

LEMMA InsertOrderKeepsRows ==
    ASSUME IInv, RowsInv, NEW c \in Clients, InsertOrder(c)
    PROVE  RowsInv'
<1>1. /\ pc[c] = "inserting" /\ IsOrder(loaded[c])
      /\ loaded[c].inserted = {} /\ nextItem \in Nat
      /\ \A i \in DOMAIN loaded[c].items : i <= 0
  BY DEF InsertOrder, IInv, TypeOK, MemoryMatchesStep
<1>2. /\ loaded'[c].id = nextOrder /\ loaded'[c].inserted = {}
      /\ loaded'[c].items = loaded[c].items /\ Proceeds(c)
      /\ orders' = orders
  BY <1>1 DEF InsertOrder, Proceeds, Goto, IInv, TypeOK, IsOrder
<1>3. nextOrder \notin DOMAIN orders
  BY DEF IInv, TypeOK
<1>4. KnowsStoredRows(c)' /\ CreatesNewRows(c)'
  BY <1>1, <1>2, <1>3 DEF KnowsStoredRows, CreatesNewRows
<1> QED BY <1>2, <1>4, ProceedKeepsRows

(* What Saved leaves in the handler's memory.                              *)
LEMMA SavedRows ==
    ASSUME NEW order, IsOrder(order)
    PROVE  /\ Saved(order).id = order.id
           /\ Saved(order).inserted = nextItem .. (nextItem + order.fresh - 1)
           /\ \A i \in DOMAIN Saved(order).items :
                 \/ i \in Saved(order).inserted
                 \/ i \in DOMAIN order.items /\ i > 0
<1>1. /\ Saved(order).id = order.id
      /\ Saved(order).inserted = nextItem .. (nextItem + order.fresh - 1)
      /\ Saved(order).items = SavedItems(order)
  BY DEF Saved, IsOrder
<1>2. DOMAIN SavedItems(order) =
         {i \in DOMAIN order.items : i > 0} \cup nextItem .. (nextItem + order.fresh - 1)
  BY DEF SavedItems
<1> QED BY <1>1, <1>2

LEMMA SavesItemsKeepsRows ==
    ASSUME IInv, RowsInv, NEW c \in Clients, pc[c] \in {"storing", "writing"},
           SavesItems(c)
    PROVE  RowsInv'
<1> DEFINE new == Saved(loaded[c])
<1>1. /\ IsOrder(loaded[c]) /\ loaded[c].inserted = {} /\ nextItem \in Nat \ {0}
      /\ loaded[c].fresh \in Nat /\ nextItem' = nextItem + loaded[c].fresh
      /\ KnowsStoredRows(c) /\ CreatesNewRows(c)
  <2>1. IsOrder(loaded[c]) /\ nextItem \in Nat \ {0}
    BY DEF IInv, TypeOK
  <2>2. loaded[c].inserted = {}
    BY DEF IInv, MemoryMatchesStep
  <2>3. KnowsStoredRows(c) /\ CreatesNewRows(c)
    BY DEF RowsInv
  <2> QED BY <2>1, <2>2, <2>3 DEF IsOrder, SavesItems
<1>2. /\ new.id = loaded[c].id
      /\ new.inserted = nextItem .. (nextItem' - 1)
      /\ \A i \in DOMAIN new.items :
            i \in new.inserted \/ (i \in DOMAIN loaded[c].items /\ i > 0)
  BY <1>1, SavedRows
<1>3. loaded'[c] = new /\ orders' = orders /\ items' = items /\ req' = req
  BY DEF SavesItems, IInv, TypeOK
<1> HIDE DEF new
<1>4. Proceeds(c)
  BY <1>1 DEF SavesItems, Proceeds, IInv, TypeOK
<1>5. KnowsStoredRows(c)'
  BY <1>1, <1>2, <1>3 DEF KnowsStoredRows
<1>6. CreatesNewRows(c)'
  BY <1>1, <1>2, <1>3 DEF CreatesNewRows, IsOrder
<1> QED BY <1>2, <1>3, <1>4, <1>5, <1>6, ProceedKeepsRows

LEMMA InsertItemsKeepsRows ==
    ASSUME IInv, RowsInv, NEW c \in Clients, InsertItems(c)
    PROVE  RowsInv'
<1>1. pc[c] = "storing" /\ (Leave(c, 500) \/ SavesItems(c))
  BY DEF InsertItems, SavesItems, Goto
<1> QED BY <1>1, LeaveKeepsRows, SavesItemsKeepsRows

LEMMA WriteItemsKeepsRows ==
    ASSUME IInv, RowsInv, NEW c \in Clients, WriteItems(c)
    PROVE  RowsInv'
<1>1. pc[c] = "writing" /\ (Leave(c, 500) \/ SavesItems(c))
  BY DEF WriteItems, SavesItems, Goto
<1> QED BY <1>1, LeaveKeepsRows, SavesItemsKeepsRows

LEMMA ReadOrderKeepsRows ==
    ASSUME IInv, RowsInv, NEW c \in Clients, ReadOrder(c)
    PROVE  RowsInv'
<1>1. pc[c] = "reading" /\ loaded[c] = EmptyOrder /\ nextItem \in Nat
  BY DEF ReadOrder, IInv, TypeOK, MemoryMatchesStep
<1>2. CASE Leave(c, 404)
  BY <1>2, LeaveKeepsRows
<1>3. CASE ~Leave(c, 404)
  <2>1. loaded' = [loaded EXCEPT ![c].id = req[c].order,
                                 ![c].status = orders[req[c].order].status,
                                 ![c].total = orders[req[c].order].total]
        /\ Goto(c, "loading")
        /\ UNCHANGED <<orders, items, nextOrder, nextItem, req, locks, answer,
                       sent, overtaken>>
    BY <1>3 DEF ReadOrder
  <2>2. DOMAIN loaded'[c].items = {} /\ loaded'[c].inserted = {}
    BY <1>1, <2>1 DEF EmptyOrder, IInv, TypeOK
  <2>3. Proceeds(c)
    BY <1>1, <2>1 DEF Proceeds, Goto, IInv, TypeOK
  <2>4. KnowsStoredRows(c)' /\ CreatesNewRows(c)'
    BY <2>2 DEF KnowsStoredRows, CreatesNewRows
  <2> QED BY <2>2, <2>3, <2>4, ProceedKeepsRows
<1> QED BY <1>2, <1>3

LEMMA ReadItemsKeepsRows ==
    ASSUME IInv, RowsInv, NEW c \in Clients, ReadItems(c)
    PROVE  RowsInv'
<1> DEFINE r     == req[c]
           rows  == Restrict(items, ItemsOf(r.order))
           order == [loaded[c] EXCEPT !.items = rows]
           new   == Applied(order, r)
<1>1. CASE Leave(c, 200) \/ Leave(c, DomainError(order, r))
  BY <1>1, LeaveKeepsRows
<1>2. CASE /\ DomainError(order, r) = 0
           /\ loaded' = [loaded EXCEPT ![c] = new]
           /\ Goto(c, IF r.op = "delete" THEN "deleting" ELSE "updating")
           /\ UNCHANGED <<orders, items, nextOrder, nextItem, req, locks, answer,
                          sent, overtaken>>
  <2>1. /\ pc[c] = "loading" /\ r.op \in Routes \ {"create"}
        /\ loaded[c].id = r.order /\ loaded[c].fresh = 0 /\ loaded[c].inserted = {}
        /\ IsOrder(loaded[c]) /\ nextItem \in Nat
    BY DEF ReadItems, IInv, TypeOK, MemoryMatchesStep, LockMatchesStep
  <2>2. r \in Request
    BY <2>1 DEF IInv, TypeOK, NoRequest, Routes
  <2>3. /\ DOMAIN rows = ItemsOf(r.order)
        /\ \A i \in ItemsOf(r.order) : rows[i] = items[i]
    BY RestrictIds, RestrictRow
  <2>4. \A i \in ItemsOf(r.order) :
           /\ i \in Int /\ i \in DOMAIN items /\ items[i].order = r.order
           /\ items[i] \in ItemRow /\ GoodItem(items[i])
    BY DEF IInv, TypeOK, ItemRowsConsistent, ItemsOf
  <2> HIDE DEF rows
  <2>5. /\ DOMAIN order = DOMAIN loaded[c] /\ order.items = rows
        /\ order.id = loaded[c].id /\ order.total = loaded[c].total
        /\ order.fresh = 0 /\ order.inserted = {}
    BY <2>1 DEF IsOrder
  <2> HIDE DEF order
  <2>6. IsOrder(order) /\ GoodItems(order)
    BY <2>1, <2>3, <2>4, <2>5 DEF IsOrder, GoodItems
  <2> HIDE DEF r
  <2>7. /\ new.id = order.id /\ new.inserted = {}
        /\ \A i \in DOMAIN new.items : i > 0 => i \in DOMAIN order.items
    BY <1>2, <2>2, <2>5, <2>6, AppliedGood
  <2> HIDE DEF new
  <2>8. loaded'[c] = new /\ req'[c] = r /\ Proceeds(c)
    BY <1>2, <2>1 DEF Proceeds, Goto, IInv, TypeOK, r
  <2>9. KnowsStoredRows(c)'
    BY <1>2, <2>1, <2>3, <2>4, <2>5, <2>7, <2>8 DEF KnowsStoredRows
  <2>10. CreatesNewRows(c)'
    BY <2>1, <2>8 DEF CreatesNewRows
  <2> QED BY <2>7, <2>8, <2>9, <2>10, ProceedKeepsRows
<1> QED BY <1>1, <1>2 DEF ReadItems

LEMMA LockKeepsRows ==
    ASSUME IInv, RowsInv, NEW c \in Clients, UpdateOrder(c) \/ DeleteOrder(c)
    PROVE  RowsInv'
<1>1. CASE Leave(c, 500)
  BY <1>1, LeaveKeepsRows
<1>2. CASE \E next : LockOrder(c, next)
  <2>1. /\ pc[c] # "idle" /\ loaded' = loaded /\ nextItem \in Nat
        /\ UNCHANGED <<orders, items, req>>
    BY <1>2 DEF LockOrder, UpdateOrder, DeleteOrder, IInv, TypeOK
  <2>2. Proceeds(c)
    BY <1>2, <2>1 DEF LockOrder, Proceeds, Goto, IInv, TypeOK
  <2>3. KnowsStoredRows(c) /\ CreatesNewRows(c)
    BY DEF RowsInv
  <2>4. KnowsStoredRows(c)' /\ CreatesNewRows(c)'
    BY <2>1, <2>3 DEF KnowsStoredRows, CreatesNewRows
  <2> QED BY <2>1, <2>2, <2>4, ProceedKeepsRows
<1> QED BY <1>1, <1>2 DEF UpdateOrder, DeleteOrder

-----------------------------------------------------------------------------
(* The tables a COMMIT of c leaves: an item row goes only with its order,  *)
(* keeps its order, and is new only under an id c inserted.                *)
RowsFollow(c) ==
    /\ \A o \in DOMAIN orders' :
          o \in DOMAIN orders \/ (req[c].op = "create" /\ o = loaded[c].id)
    /\ \A i \in DOMAIN items' : i \in DOMAIN items \cup loaded[c].inserted
    /\ \A i \in DOMAIN items :
          items[i].order \in DOMAIN orders'
          => i \in DOMAIN items' /\ items'[i].order = items[i].order

LEMMA CommitFollows ==
    ASSUME IInv, RowsInv, NEW c \in Clients, pc[c] = "committing", InstallRows(c)
    PROVE  RowsFollow(c)
<1> DEFINE order == loaded[c]
<1>1. /\ order.inserted \subseteq DOMAIN order.items
      /\ \A i \in order.inserted : i \notin DOMAIN items
      /\ \A i \in DOMAIN order.items : i > 0 => order.items[i].order = order.id
      /\ \A i \in DOMAIN items : i \in Nat \ {0}
      /\ nextItem \in Nat
  BY DEF IInv, TypeOK, IsOrder, MemoryMatchesStep, RowsInv, OwnsItsIds
<1>2. CASE items' = ItemsWritten(order)
  <2>1. DOMAIN items' = DOMAIN items \cup order.inserted
    BY <1>1, <1>2, ItemsWrittenRows
  <2>2. ASSUME NEW i \in DOMAIN items
        PROVE  i \in DOMAIN items' /\ items'[i].order = items[i].order
    <3>1. \/ items'[i] = items[i]
          \/ /\ i \in DOMAIN order.items /\ items'[i] = order.items[i]
             /\ i \in order.inserted \/ items[i].order = order.id
      BY <1>1, <1>2, <2>1, ItemsWrittenRows
    <3> QED BY <1>1, <2>1, <3>1
  <2>3. \A o \in DOMAIN orders' :
           o \in DOMAIN orders \/ (req[c].op = "create" /\ o = order.id)
    BY CommitWritesGoodRows DEF RowsAfterCommit
  <2> QED BY <2>1, <2>2, <2>3 DEF RowsFollow
<1>3. CASE req[c].op = "delete"
  <2> DEFINE others == DOMAIN orders \ {order.id}
             kept   == DOMAIN items \ ItemsOf(order.id)
  <2>1. orders' = Restrict(orders, others) /\ items' = Restrict(items, kept)
    BY <1>3 DEF InstallRows, DeleteRows
  <2>2. /\ DOMAIN orders' = others /\ DOMAIN items' = kept
        /\ \A i \in kept : items'[i] = items[i]
    BY <2>1, RestrictIds, RestrictRow
  <2>3. \A i \in DOMAIN items : items[i].order # order.id => i \in kept
    BY DEF ItemsOf
  <2> QED BY <2>2, <2>3 DEF RowsFollow
<1> QED BY <1>2, <1>3 DEF InstallRows, CreateRows, UpdateRows

LEMMA InstallKeepsRows ==
    ASSUME IInv, RowsInv, NEW c \in Clients, NEW code,
           pc[c] = "committing", Install(c, code)
    PROVE  RowsInv'
<1>1. RowsFollow(c)
  BY CommitFollows DEF Install
<1>2. /\ pc'[c] = "idle" /\ loaded'[c] = EmptyOrder /\ nextItem' = nextItem
      /\ \A d \in Clients \ {c} :
            /\ pc'[d] = pc[d] /\ req'[d] = req[d]
            /\ loaded'[d] = loaded[d] /\ answer'[d] = answer[d]
  BY DEF Install, Answer, Goto, IInv, TypeOK
<1>3. DOMAIN EmptyOrder.items = {} /\ EmptyOrder.inserted = {}
  BY DEF EmptyOrder
<1>4. StillWaits(c)' /\ KnowsStoredRows(c)' /\ CreatesNewRows(c)' /\ OwnsItsIds(c)'
  BY <1>2, <1>3 DEF StillWaits, KnowsStoredRows, CreatesNewRows, OwnsItsIds
<1>5. ASSUME NEW d \in Clients \ {c}
      PROVE  StillWaits(d)' /\ KnowsStoredRows(d)' /\ CreatesNewRows(d)' /\ OwnsItsIds(d)'
  <2>1. StillWaits(d) /\ KnowsStoredRows(d) /\ CreatesNewRows(d) /\ OwnsItsIds(d)
    BY DEF RowsInv
  <2>2. StillWaits(d)' /\ CreatesNewRows(d)'
    BY <1>2, <2>1 DEF StillWaits, CreatesNewRows
  <2>3. KnowsStoredRows(d)'
    <3> SUFFICES ASSUME loaded[d].id \in DOMAIN orders',
                        NEW i \in DOMAIN loaded[d].items,
                        i > 0, i \notin loaded[d].inserted
                 PROVE  i \in DOMAIN items' /\ items'[i].order = loaded[d].id
      BY <1>2 DEF KnowsStoredRows
    <3>1. req[c].op = "create" => loaded[d].id # loaded[c].id
      BY DEF IInv, NewIdIsUnused
    <3>2. loaded[d].id \in DOMAIN orders
      BY <1>1, <3>1 DEF RowsFollow
    <3>3. i \in DOMAIN items /\ items[i].order = loaded[d].id
      BY <2>1, <3>2 DEF KnowsStoredRows
    <3> QED BY <1>1, <3>3 DEF RowsFollow
  <2>4. OwnsItsIds(d)'
    <3> SUFFICES ASSUME NEW i \in loaded[d].inserted
                 PROVE  /\ i \in Int /\ i < nextItem /\ i \notin DOMAIN items'
                        /\ \A e \in Clients \ {d} : i \notin loaded'[e].inserted
      BY <1>2 DEF OwnsItsIds
    <3>1. /\ i \in Int /\ i < nextItem /\ i \notin DOMAIN items
          /\ \A e \in Clients \ {d} : i \notin loaded[e].inserted
      BY <2>1 DEF OwnsItsIds
    <3>2. i \notin DOMAIN items'
      BY <1>1, <3>1 DEF RowsFollow
    <3> QED BY <1>2, <1>3, <3>1, <3>2
  <2> QED BY <2>2, <2>3, <2>4
<1> QED BY <1>4, <1>5 DEF RowsInv

-----------------------------------------------------------------------------
LEMMA InitEstablishesRows == Init => RowsInv
<1> SUFFICES ASSUME Init, NEW c \in Clients
             PROVE  /\ StillWaits(c) /\ KnowsStoredRows(c)
                    /\ CreatesNewRows(c) /\ OwnsItsIds(c)
  BY DEF RowsInv
<1>1. DOMAIN EmptyOrder.items = {} /\ EmptyOrder.inserted = {}
  BY DEF EmptyOrder
<1>2. pc[c] = "idle" /\ loaded[c] = EmptyOrder
  BY DEF Init
<1> QED BY <1>1, <1>2 DEF StillWaits, KnowsStoredRows, CreatesNewRows, OwnsItsIds

LEMMA NextKeepsRows == IInv /\ RowsInv /\ [Next]_vars => RowsInv'
<1> SUFFICES ASSUME IInv, RowsInv, [Next]_vars PROVE RowsInv'
  OBVIOUS
<1>1. ASSUME NEW c \in Clients, NEW op \in Commands, NEW r \in Requests(op), Submit(c, r)
      PROVE  RowsInv'
  BY <1>1, SubmitKeepsRows
<1>2. ASSUME NEW c \in Clients, Serve(c) PROVE RowsInv'
  <2>1. CASE Commit(c)
    BY <2>1, InstallKeepsRows DEF Commit
  <2>2. CASE BuildLine(c) \/ InsertOrder(c) \/ InsertItems(c) \/ WriteItems(c)
    BY <2>2, BuildLineKeepsRows, InsertOrderKeepsRows, InsertItemsKeepsRows,
       WriteItemsKeepsRows
  <2>3. CASE ReadOrder(c) \/ ReadItems(c) \/ UpdateOrder(c) \/ DeleteOrder(c)
    BY <2>3, ReadOrderKeepsRows, ReadItemsKeepsRows, LockKeepsRows
  <2> QED BY <1>2, <2>1, <2>2, <2>3 DEF Serve
<1>3. ASSUME NEW c \in Clients, Fail(c) PROVE RowsInv'
  BY <1>3, LeaveKeepsRows, InstallKeepsRows DEF Fail
<1>4. CASE UNCHANGED vars
  BY <1>4 DEF vars, RowsInv, StillWaits, KnowsStoredRows, CreatesNewRows, OwnsItsIds
<1> QED BY <1>1, <1>2, <1>3, <1>4 DEF Next, Done

LEMMA RowsInvariance == Spec => []RowsInv
BY Invariance, InitEstablishesRows, NextKeepsRows, PTL DEF Spec

(* What one handler's change looks like in the tables.                     *)
ShownIsStored(c) ==
    /\ orders'[loaded[c].id] = Row(loaded[c])
    /\ \A i \in DOMAIN loaded[c].items :
          i \in DOMAIN items' /\ items'[i] = loaded[c].items[i]
    /\ \A i \in DOMAIN items : i \in DOMAIN items'

LEMMA CommitStores ==
    ASSUME IInv, RowsInv, NEW c \in Clients, pc[c] = "committing",
           InstallRows(c), req[c].op # "delete", loaded[c].id \in DOMAIN orders'
    PROVE  ShownIsStored(c)
<1> DEFINE order   == loaded[c]
           updated == {i \in DOMAIN order.items \cap DOMAIN items :
                          items[i].order = order.id}
<1>1. /\ order.inserted \subseteq DOMAIN order.items
      /\ \A i \in DOMAIN order.items : i > 0
      /\ KnowsStoredRows(c) /\ CreatesNewRows(c)
      /\ \A i \in DOMAIN order.items : i \in Int
  BY DEF IInv, TypeOK, IsOrder, MemoryMatchesStep, RowsInv
<1>2. items' = ItemsWritten(order)
  BY DEF InstallRows, CreateRows, UpdateRows
<1>3. DOMAIN items' = DOMAIN items \cup order.inserted
  BY <1>1, <1>2, ItemsWrittenRows
<1>4. orders' = Put(orders, order.id, Row(order))
      /\ (req[c].op = "create" \/ order.id \in DOMAIN orders)
  BY DEF InstallRows, CreateRows, UpdateRows
<1>5. orders'[order.id] = Row(order)
  BY <1>4, PutNew
<1>6. ASSUME NEW i \in DOMAIN order.items
      PROVE  i \in DOMAIN items' /\ items'[i] = order.items[i]
  <2>1. i \in order.inserted \cup updated
    BY <1>1, <1>4 DEF KnowsStoredRows, CreatesNewRows
  <2>2. items' = [k \in DOMAIN items \cup order.inserted |->
                    IF k \in updated \cup order.inserted
                    THEN order.items[k] ELSE items[k]]
    BY <1>2 DEF ItemsWritten
  <2> QED BY <2>1, <2>2
<1> QED BY <1>3, <1>5, <1>6 DEF ShownIsStored

(* What an answer 200 or 201 shows of a change is in the tables when the   *)
(* answer is sent, whatever other handlers committed since the order was   *)
(* read: no row of the handler's is lost and none of another's undone.     *)
THEOREM ShownAnswersAreStored == Spec => AnswerIsStored
<1> DEFINE Stored ==
      \A c \in Clients :
          /\ pc[c] = "committing"
          /\ answer'[c] \in {200, 201}
          /\ loaded[c].id \in DOMAIN orders'
          => /\ orders'[loaded[c].id] = Row(loaded[c])
             /\ \A i \in DOMAIN loaded[c].items :
                    i \in DOMAIN items' /\ items'[i] = loaded[c].items[i]
             /\ \A i \in DOMAIN items : i \in DOMAIN items'
<1>1. IInv /\ RowsInv /\ [Next]_vars => [Stored]_vars
  <2> SUFFICES ASSUME IInv, RowsInv, Next, NEW c \in Clients, pc[c] = "committing",
                      answer'[c] \in {200, 201}, loaded[c].id \in DOMAIN orders'
               PROVE  ShownIsStored(c)
    BY DEF ShownIsStored, vars
  <2>1. answer[c] = 0 /\ c \in DOMAIN answer
    BY DEF RowsInv, StillWaits, IInv, TypeOK
  <2>2. ASSUME NEW d \in Clients, d # c,
               Serve(d) \/ Fail(d) \/ \E r : Submit(d, r)
        PROVE  FALSE
    <3>1. answer'[c] = answer[c]
      BY <2>1, <2>2 DEF Serve, BuildLine, InsertOrder, InsertItems, ReadOrder, ReadItems,
         UpdateOrder, WriteItems, DeleteOrder, LockOrder, Leave, Answer, Commit, Install,
         Fail, Submit
    <3> QED BY <2>1, <3>1
  <2>3. CASE Commit(c)
    <3>1. InstallRows(c) /\ answer'[c] = Success(req[c].op)
      BY <2>1, <2>3 DEF Commit, Install, Answer
    <3>2. req[c].op # "delete"
      BY <3>1 DEF Success
    <3> QED BY <3>1, <3>2, CommitStores
  <2>4. CASE Fail(c)
    <3>1. answer'[c] \in {404, 500}
      BY <2>1, <2>4 DEF Fail, Leave, Install, Answer
    <3> QED BY <3>1
  <2>5. CASE Serve(c) /\ ~Commit(c)
    BY <2>5 DEF Serve, BuildLine, InsertOrder, InsertItems, ReadOrder, ReadItems,
       UpdateOrder, WriteItems, DeleteOrder
  <2>6. CASE \E r : Submit(c, r)
    BY <2>6 DEF Submit
  <2>7. CASE Done
    BY <2>1, <2>7 DEF Done, vars
  <2> QED BY <2>2, <2>3, <2>4, <2>5, <2>6, <2>7 DEF Next
<1> QED BY RowsInvariance, Invariance, <1>1, PTL DEF Spec, AnswerIsStored

-----------------------------------------------------------------------------
(* Of the other orders a COMMIT changes neither the row nor an item.       *)
LEMMA OtherOrdersUntouched ==
    ASSUME IInv, RowsInv, NEW c \in Clients, pc[c] = "committing", InstallRows(c),
           NEW o, o # loaded[c].id
    PROVE  /\ o \in DOMAIN orders' <=> o \in DOMAIN orders
           /\ o \in DOMAIN orders => orders'[o] = orders[o]
           /\ ItemsOf(o)' = ItemsOf(o)
           /\ \A i \in ItemsOf(o) : items'[i] = items[i]
<1> DEFINE order == loaded[c]
<1>1. /\ order.inserted \subseteq DOMAIN order.items
      /\ \A i \in order.inserted : i \notin DOMAIN items
      /\ \A i \in DOMAIN order.items : i > 0 => order.items[i].order = order.id
  BY DEF IInv, TypeOK, IsOrder, MemoryMatchesStep, RowsInv, OwnsItsIds
<1>2. CASE req[c].op = "delete"
  <2> DEFINE others == DOMAIN orders \ {order.id}
             kept   == DOMAIN items \ ItemsOf(order.id)
  <2>1. orders' = Restrict(orders, others) /\ items' = Restrict(items, kept)
    BY <1>2 DEF InstallRows, DeleteRows
  <2>2. /\ DOMAIN orders' = others /\ DOMAIN items' = kept
        /\ \A p \in others : orders'[p] = orders[p]
        /\ \A i \in kept : items'[i] = items[i]
    BY <2>1, RestrictIds, RestrictRow
  <2>3. ItemsOf(o) \subseteq kept
    BY DEF ItemsOf
  <2>4. ItemsOf(o)' = {i \in DOMAIN items' : items'[i].order = o}
    BY DEF ItemsOf
  <2>5. ItemsOf(o)' = ItemsOf(o)
    BY <2>2, <2>3, <2>4 DEF ItemsOf
  <2> QED BY <2>2, <2>3, <2>5
<1>3. CASE req[c].op # "delete"
  <2>1. /\ items' = ItemsWritten(order)
        /\ orders' = Put(orders, order.id, Row(order)) \/ orders' = orders
    BY <1>3 DEF InstallRows, CreateRows, UpdateRows
  <2>2. /\ o \in DOMAIN orders' <=> o \in DOMAIN orders
        /\ o \in DOMAIN orders => orders'[o] = orders[o]
    BY <2>1 DEF Put
  <2>3. DOMAIN items' = DOMAIN items \cup order.inserted
    BY <1>1, <2>1, ItemsWrittenRows
  <2>4. \A i \in DOMAIN order.items : i > 0
    BY <1>3 DEF IInv, MemoryMatchesStep
  <2>5. ASSUME NEW i \in DOMAIN items'
        PROVE  \/ i \in DOMAIN items /\ items'[i] = items[i]
               \/ /\ items'[i].order = order.id
                  /\ i \in DOMAIN items => items[i].order = order.id
    <3>1. \/ i \in DOMAIN items /\ items'[i] = items[i]
          \/ /\ i \in DOMAIN order.items /\ items'[i] = order.items[i]
             /\ \/ i \in order.inserted
                \/ i \in DOMAIN items /\ items[i].order = order.id
      BY <1>1, <2>1, ItemsWrittenRows
    <3> QED BY <1>1, <2>4, <3>1
  <2>6. ItemsOf(o)' = {i \in DOMAIN items' : items'[i].order = o}
    BY DEF ItemsOf
  <2>7. \A i \in ItemsOf(o) : i \in DOMAIN items' /\ items'[i] = items[i]
    BY <2>3, <2>5 DEF ItemsOf
  <2>8. ItemsOf(o)' = ItemsOf(o)
    BY <2>5, <2>6, <2>7 DEF ItemsOf
  <2> QED BY <2>2, <2>7, <2>8
<1> QED BY <1>2, <1>3

-----------------------------------------------------------------------------
(* That the handlers implement OrderStore.                                 *)

(* The tables are functions, whose rows say all there is to them.          *)
Tables ==
    /\ orders = [o \in DOMAIN orders |-> orders[o]]
    /\ items = [i \in DOMAIN items |-> items[i]]

LEMMA NextKeepsTables == Tables /\ [Next]_vars => Tables'
<1> SUFFICES ASSUME Tables, [Next]_vars PROVE Tables'
  OBVIOUS
<1>1. ASSUME NEW c \in Clients, NEW code, Install(c, code)
      PROVE  Tables'
  <2>1. InstallRows(c)
    BY <1>1 DEF Install
  <2>2. CASE UpdateRows(loaded[c])
    BY <2>2 DEF UpdateRows, ItemsWritten, Put, Tables
  <2>3. CASE CreateRows(loaded[c])
    BY <2>3 DEF CreateRows, ItemsWritten, Put, Tables
  <2>4. CASE DeleteRows(loaded[c])
    BY <2>4 DEF DeleteRows, Restrict, Tables
  <2> QED BY <2>1, <2>2, <2>3, <2>4 DEF InstallRows
<1>2. CASE UNCHANGED <<orders, items>>
  BY <1>2 DEF Tables
<1>3. ASSUME NEW c \in Clients, Serve(c) PROVE Tables'
  <2>1. CASE Commit(c)
    BY <1>1, <2>1 DEF Commit
  <2>2. CASE ~Commit(c)
    BY <1>2, <1>3, <2>2 DEF Serve, BuildLine, InsertOrder, InsertItems, ReadOrder,
       ReadItems, UpdateOrder, WriteItems, DeleteOrder, LockOrder, Leave
  <2> QED BY <2>1, <2>2
<1>4. ASSUME NEW c \in Clients, Fail(c) PROVE Tables'
  BY <1>1, <1>2, <1>4 DEF Fail, Leave
<1> QED BY <1>2, <1>3, <1>4 DEF Next, Submit, Done, vars

LEMMA TablesInvariance == Spec => []Tables
<1>1. Init => Tables
  BY DEF Init, Tables
<1> QED BY <1>1, NextKeepsTables, PTL DEF Spec

(* The ids OrderStore calls pending.                                       *)
Pending == {loaded[c].id : c \in Creators}

(* Most steps leave the tables alone and reserve no id.                    *)
LEMMA QuietStepStutters ==
    ASSUME UNCHANGED <<orders, items, nextOrder>>, Creators' = Creators,
           \A d \in Creators : loaded'[d].id = loaded[d].id
    PROVE  UNCHANGED Store!vars
<1>1. Pending' = Pending
  BY DEF Pending
<1> QED BY <1>1 DEF Pending, Store!vars

(* The order of a handler that leaves is pending no more.                  *)
LEMMA GonePending ==
    ASSUME IInv, NEW c \in Clients, pc'[c] = "idle",
           \A d \in Clients \ {c} :
              pc'[d] = pc[d] /\ req'[d] = req[d] /\ loaded'[d] = loaded[d]
    PROVE  IF c \in Creators THEN /\ loaded[c].id \in Pending
                                  /\ Pending' = Pending \ {loaded[c].id}
                             ELSE Pending' = Pending
<1>1. Creators' = Creators \ {c}
  BY DEF Creators, Creating
<1>2. Pending' = {loaded[d].id : d \in Creators \ {c}}
  <2>1. \A d \in Creators \ {c} : loaded'[d] = loaded[d]
    BY DEF Creators, Creating
  <2> QED BY <1>1, <2>1 DEF Pending
<1>3. c \in Creators => \A d \in Creators \ {c} : loaded[d].id # loaded[c].id
  BY DEF IInv, NewIdIsUnused, Creators, Creating
<1>4. CASE c \in Creators
  BY <1>2, <1>3, <1>4 DEF Pending
<1>5. CASE c \notin Creators
  <2>1. Creators \ {c} = Creators
    BY <1>5
  <2> QED BY <1>2, <1>5, <2>1 DEF Pending
<1> QED BY <1>4, <1>5

LEMMA LeaveAbandons ==
    ASSUME IInv, NEW c \in Clients, NEW code, Leave(c, code)
    PROVE  [Store!Next]_(Store!vars)
<1>1. /\ pc'[c] = "idle" /\ UNCHANGED <<orders, items, nextOrder>>
      /\ \A d \in Clients \ {c} :
            pc'[d] = pc[d] /\ req'[d] = req[d] /\ loaded'[d] = loaded[d]
  BY DEF Leave, Answer, Goto, IInv, TypeOK
<1>2. CASE c \in Creators
  <2> PICK o : o = loaded[c].id
    OBVIOUS
  <2>1. o \in Pending /\ Pending' = Pending \ {o}
    BY <1>1, <1>2, GonePending
  <2>2. Store!Abandon(o)
    BY <1>1, <2>1 DEF Store!Abandon, Pending
  <2> QED BY <2>1, <2>2 DEF Store!Next, Pending
<1>3. CASE c \notin Creators
  <2>1. Pending' = Pending
    BY <1>1, <1>3, GonePending
  <2> QED BY <1>1, <2>1 DEF Store!vars, Pending
<1> QED BY <1>2, <1>3

LEMMA InsertOrderReserves ==
    ASSUME IInv, NEW c \in Clients, InsertOrder(c)
    PROVE  Store!Reserve
<1>1. /\ pc[c] = "inserting" /\ req[c].op = "create"
      /\ nextOrder' = nextOrder + 1 /\ UNCHANGED <<orders, items>>
      /\ pc'[c] = "storing" /\ req' = req /\ loaded'[c].id = nextOrder
      /\ \A d \in Clients \ {c} : pc'[d] = pc[d] /\ loaded'[d] = loaded[d]
  BY DEF InsertOrder, Goto, IInv, TypeOK, IsOrder, MemoryMatchesStep
<1>2. Creators' = Creators \cup {c} /\ c \notin Creators
  BY <1>1 DEF Creators, Creating
<1>3. Pending' = Pending \cup {nextOrder}
  <2>1. \A d \in Creators : loaded'[d] = loaded[d]
    BY <1>1, <1>2 DEF Creators
  <2> QED BY <1>1, <1>2, <2>1 DEF Pending
<1> QED BY <1>1, <1>3 DEF Store!Reserve, Pending

LEMMA SavingIsQuiet ==
    ASSUME IInv, NEW c \in Clients, pc[c] \in {"storing", "writing"}, SavesItems(c)
    PROVE  UNCHANGED Store!vars
<1>1. /\ UNCHANGED <<orders, items, nextOrder>>
      /\ pc'[c] = "committing" /\ req' = req /\ loaded'[c].id = loaded[c].id
      /\ \A d \in Clients \ {c} : pc'[d] = pc[d] /\ loaded'[d] = loaded[d]
  BY DEF SavesItems, Saved, Goto, IInv, TypeOK, IsOrder
<1>2. pc[c] = "writing" => req[c].op # "create"
  BY DEF IInv, MemoryMatchesStep
<1>3. Creators' = Creators
  BY <1>1, <1>2 DEF Creators, Creating
<1> QED BY <1>1, <1>3, QuietStepStutters DEF Creators

(* A step of a handler that has no id of a new order, neither before nor   *)
(* after it.                                                               *)
LEMMA OtherStepIsQuiet ==
    ASSUME IInv, NEW c \in Clients, c \notin Creators, c \notin Creators',
           UNCHANGED <<orders, items, nextOrder>>,
           \A d \in Clients \ {c} :
              pc'[d] = pc[d] /\ req'[d] = req[d] /\ loaded'[d] = loaded[d]
    PROVE  UNCHANGED Store!vars
<1>1. Creators' = Creators
  BY DEF Creators, Creating
<1>2. \A d \in Creators : loaded'[d] = loaded[d]
  BY DEF Creators
<1> QED BY <1>1, <1>2, QuietStepStutters

LEMMA CommitTouchesItsOrder ==
    ASSUME IInv, RowsInv, NEW c \in Clients, pc[c] = "committing", InstallRows(c)
    PROVE  Store!OthersKept(loaded[c].id)
<1> DEFINE id == loaded[c].id
<1>1. ASSUME NEW o, o # id
      PROVE  /\ o \in DOMAIN orders' <=> o \in DOMAIN orders
             /\ o \in DOMAIN orders => orders'[o] = orders[o]
             /\ ItemsOf(o)' = ItemsOf(o)
             /\ \A i \in ItemsOf(o) : items'[i] = items[i]
  BY <1>1, OtherOrdersUntouched
<1>2. \A o : ItemsOf(o)' = {i \in DOMAIN items' : items'[i].order = o}
  BY DEF ItemsOf
<1>3. ASSUME NEW i \in DOMAIN items, items[i].order # id
      PROVE  i \in DOMAIN items' /\ items'[i] = items[i]
  <2>1. i \in ItemsOf(items[i].order)
    BY DEF ItemsOf
  <2> QED BY <1>1, <1>2, <1>3, <2>1
<1>4. ASSUME NEW i \in DOMAIN items', items'[i].order # id
      PROVE  i \in DOMAIN items /\ items[i].order # id
  <2> PICK p : p = items'[i].order
    OBVIOUS
  <2>1. i \in ItemsOf(p)'
    BY <1>2
  <2>2. i \in ItemsOf(p)
    BY <1>1, <1>4, <2>1
  <2> QED BY <1>4, <2>2 DEF ItemsOf
<1>5. /\ DOMAIN orders' \ {id} = DOMAIN orders \ {id}
      /\ \A p \in DOMAIN orders \ {id} : orders'[p] = orders[p]
  BY <1>1
<1>6. {i \in DOMAIN items' : items'[i].order # id} = {i \in DOMAIN items : items[i].order # id}
  BY <1>3, <1>4
<1> QED BY <1>3, <1>5, <1>6 DEF Store!OthersKept

(* The COMMIT of a change or a deletion of an order that is gone.          *)
LEMMA LateCommitChangesNothing ==
    ASSUME IInv, RowsInv, Tables, NEW c \in Clients, pc[c] = "committing",
           InstallRows(c), req[c].op # "create", loaded[c].id \notin DOMAIN orders
    PROVE  orders' = orders /\ items' = items
<1> DEFINE order == loaded[c]
<1>1. ItemsOf(order.id) = {}
  BY DEF IInv, NoOrphanItems, ItemsOf
<1>2. CASE req[c].op = "delete"
  <2>1. /\ orders' = Restrict(orders, DOMAIN orders)
        /\ items' = Restrict(items, DOMAIN items)
    <3>1. DOMAIN orders \ {order.id} = DOMAIN orders
      OBVIOUS
    <3>2. DOMAIN items \ ItemsOf(order.id) = DOMAIN items
      BY <1>1
    <3> QED BY <1>2, <3>1, <3>2 DEF InstallRows, DeleteRows
  <2> QED BY <2>1 DEF Restrict, Tables
<1>3. CASE req[c].op # "delete"
  <2>1. orders' = orders /\ items' = ItemsWritten(order)
    BY <1>3 DEF InstallRows, UpdateRows
  <2>2. order.inserted = {}
    <3>1. order.id # 0
      BY DEF IInv, TypeOK, MemoryMatchesStep
    <3> QED BY <3>1 DEF IInv, LockMatchesStep
  <2>3. {i \in DOMAIN order.items \cap DOMAIN items : items[i].order = order.id} = {}
    BY <1>1 DEF ItemsOf
  <2>4. items' = [i \in DOMAIN items |-> items[i]]
    BY <2>1, <2>2, <2>3 DEF ItemsWritten
  <2> QED BY <2>1, <2>4 DEF Tables
<1> QED BY <1>2, <1>3

LEMMA CommitIsOneChange ==
    ASSUME IInv, RowsInv, Tables, NEW c \in Clients, NEW code,
           pc[c] = "committing", Install(c, code)
    PROVE  [Store!Next]_(Store!vars)
<1> PICK id : id = loaded[c].id
  OBVIOUS
<1>1. /\ pc'[c] = "idle" /\ InstallRows(c) /\ nextOrder' = nextOrder
      /\ \A d \in Clients \ {c} :
            pc'[d] = pc[d] /\ req'[d] = req[d] /\ loaded'[d] = loaded[d]
  BY DEF Install, Answer, Goto, IInv, TypeOK
<1>2. Store!OthersKept(id)
  BY <1>1, CommitTouchesItsOrder
<1>3. CASE req[c].op = "create"
  <2>1. id \in Pending /\ Pending' = Pending \ {id}
    <3>1. c \in Creators
      BY <1>3 DEF Creators, Creating
    <3> QED BY <1>1, <3>1, GonePending
  <2>2. id \notin DOMAIN orders
    BY <1>3 DEF IInv, NewIdIsUnused
  <2>3. id \in DOMAIN orders'
    <3>1. orders' = Put(orders, id, Row(loaded[c]))
      BY <1>1, <1>3 DEF InstallRows, CreateRows
    <3>2. DOMAIN Put(orders, id, Row(loaded[c])) = DOMAIN orders \cup {id}
      BY PutDomain
    <3> QED BY <3>1, <3>2
  <2>4. Store!Create(id)
    BY <1>1, <1>2, <2>1, <2>2, <2>3 DEF Store!Create, Pending
  <2> QED BY <2>1, <2>4 DEF Store!Next, Pending
<1>4. CASE req[c].op # "create"
  <2>1. Pending' = Pending
    <3>1. c \notin Creators
      BY <1>4 DEF Creators, Creating
    <3> QED BY <1>1, <3>1, GonePending
  <2>2. CASE id \notin DOMAIN orders
    <3>1. orders' = orders /\ items' = items
      BY <1>1, <1>4, <2>2, LateCommitChangesNothing
    <3> QED BY <1>1, <2>1, <3>1 DEF Store!vars, Pending
  <2>3. CASE id \in DOMAIN orders /\ req[c].op # "delete"
    <3>1. id \in DOMAIN orders'
      <4>1. orders' = Put(orders, id, Row(loaded[c]))
        BY <1>1, <1>4, <2>3 DEF InstallRows, UpdateRows
      <4>2. DOMAIN Put(orders, id, Row(loaded[c])) = DOMAIN orders \cup {id}
        BY PutDomain
      <4> QED BY <4>1, <4>2
    <3>2. Store!Change(id)
      BY <1>1, <1>2, <2>1, <3>1 DEF Store!Change, Pending
    <3> QED BY <2>3, <3>2 DEF Store!Next
  <2>4. CASE id \in DOMAIN orders /\ req[c].op = "delete"
    <3>1. /\ orders' = Restrict(orders, DOMAIN orders \ {id})
          /\ items' = Restrict(items, DOMAIN items \ ItemsOf(id))
      BY <1>1, <2>4 DEF InstallRows, DeleteRows
    <3>2. id \notin DOMAIN orders'
      BY <3>1, RestrictIds
    <3>3. \A i \in DOMAIN items' : items'[i].order # id
      <4>1. DOMAIN items' = DOMAIN items \ ItemsOf(id)
        BY <3>1, RestrictIds
      <4>2. \A i \in DOMAIN items \ ItemsOf(id) : items'[i] = items[i]
        BY <3>1, RestrictRow
      <4> QED BY <4>1, <4>2 DEF ItemsOf
    <3>4. Store!Delete(id)
      BY <1>1, <1>2, <2>1, <3>2, <3>3 DEF Store!Delete, Pending
    <3> QED BY <2>4, <3>4 DEF Store!Next
  <2> QED BY <2>2, <2>3, <2>4
<1> QED BY <1>3, <1>4

LEMMA NextIsAStoreStep ==
    IInv /\ RowsInv /\ Tables /\ [Next]_vars => [Store!Next]_(Store!vars)
<1> SUFFICES ASSUME IInv, RowsInv, Tables, [Next]_vars
             PROVE  [Store!Next]_(Store!vars)
  OBVIOUS
<1>1. ASSUME NEW c \in Clients, NEW r, Submit(c, r)
      PROVE  UNCHANGED Store!vars
  <2>1. c \notin Creators /\ c \notin Creators'
    BY <1>1 DEF Submit, Goto, Creators, Creating, IInv, TypeOK
  <2>2. /\ UNCHANGED <<orders, items, nextOrder, loaded>>
        /\ \A d \in Clients \ {c} : pc'[d] = pc[d] /\ req'[d] = req[d]
    BY <1>1 DEF Submit, Goto, IInv, TypeOK
  <2> QED BY <2>1, <2>2, OtherStepIsQuiet
<1>2. ASSUME NEW c \in Clients, NEW code, Leave(c, code)
      PROVE  [Store!Next]_(Store!vars)
  BY <1>2, LeaveAbandons
<1>3. ASSUME NEW c \in Clients, InsertItems(c) \/ WriteItems(c)
      PROVE  [Store!Next]_(Store!vars)
  <2>1. /\ pc[c] \in {"storing", "writing"}
        /\ Leave(c, 500) \/ SavesItems(c)
    BY <1>3 DEF InsertItems, WriteItems, SavesItems, Goto
  <2> QED BY <1>2, <2>1, SavingIsQuiet
<1>4. ASSUME NEW c \in Clients, BuildLine(c) \/ ReadOrder(c) \/ ReadItems(c),
             \A code : ~Leave(c, code)
      PROVE  UNCHANGED Store!vars
  <2>1. /\ pc[c] \in {"building", "reading", "loading"}
        /\ pc'[c] \in {"building", "inserting", "loading", "deleting", "updating"}
        /\ UNCHANGED <<orders, items, nextOrder>>
        /\ \A d \in Clients \ {c} :
              pc'[d] = pc[d] /\ req'[d] = req[d] /\ loaded'[d] = loaded[d]
    BY <1>4 DEF BuildLine, ReadOrder, ReadItems, Goto, IInv, TypeOK
  <2>2. c \notin Creators /\ c \notin Creators'
    BY <2>1 DEF Creators, Creating
  <2> QED BY <2>1, <2>2, OtherStepIsQuiet
<1>5. ASSUME NEW c \in Clients, UpdateOrder(c) \/ DeleteOrder(c),
             \A code : ~Leave(c, code)
      PROVE  UNCHANGED Store!vars
  <2>1. /\ pc[c] \in {"updating", "deleting"}
        /\ UNCHANGED <<orders, items, nextOrder, req, loaded>>
        /\ \A d \in Clients \ {c} : pc'[d] = pc[d]
    BY <1>5 DEF UpdateOrder, DeleteOrder, LockOrder, Goto, IInv, TypeOK
  <2>2. req[c].op # "create"
    BY <2>1 DEF IInv, MemoryMatchesStep
  <2>3. c \notin Creators /\ c \notin Creators'
    BY <2>1, <2>2 DEF Creators, Creating
  <2> QED BY <2>1, <2>3, OtherStepIsQuiet
<1>6. ASSUME NEW c \in Clients, Serve(c) PROVE [Store!Next]_(Store!vars)
  <2>1. CASE \E code : Leave(c, code)
    BY <1>2, <2>1
  <2>2. CASE InsertOrder(c)
    BY <2>2, InsertOrderReserves DEF Store!Next
  <2>3. CASE Commit(c)
    BY <2>3, CommitIsOneChange DEF Commit
  <2>4. CASE InsertItems(c) \/ WriteItems(c)
    BY <1>3, <2>4
  <2>5. CASE (\A code : ~Leave(c, code))
             /\ (BuildLine(c) \/ ReadOrder(c) \/ ReadItems(c))
    BY <1>4, <2>5
  <2>6. CASE (\A code : ~Leave(c, code)) /\ (UpdateOrder(c) \/ DeleteOrder(c))
    BY <1>5, <2>6
  <2> QED BY <1>6, <2>1, <2>2, <2>3, <2>4, <2>5, <2>6 DEF Serve
<1>7. ASSUME NEW c \in Clients, Fail(c) PROVE [Store!Next]_(Store!vars)
  BY <1>2, <1>7, CommitIsOneChange DEF Fail
<1>8. CASE UNCHANGED vars
  <2>1. Creators' = Creators
    BY <1>8 DEF vars, Creators, Creating
  <2> QED BY <1>8, <2>1, QuietStepStutters DEF vars
<1> QED BY <1>1, <1>6, <1>7, <1>8 DEF Next, Done

(* The handlers' statements, in any interleaving and with any of them      *)
(* failing, amount to whole changes of one order at a time, and every id   *)
(* becomes an order at most once.                                          *)
THEOREM HandlersImplementOrderStore == Spec => ImplementsOrderStore
<1>1. Init => Store!Init
  BY DEF Init, Store!Init, Creators, Creating
<1> QED BY <1>1, Invariance, RowsInvariance, TablesInvariance, NextIsAStoreStep, PTL
        DEF Spec, ImplementsOrderStore, Store!Spec

-----------------------------------------------------------------------------
(* Why handlers end: the safety half of EveryRequestAnswered.              *)

Statements ==
    [idle |-> 0, committing |-> 1, writing |-> 2, deleting |-> 2, storing |-> 2,
     updating |-> 3, inserting |-> 3, loading |-> 4, reading |-> 5]

(* A bound on the steps a handler takes until it answers.                  *)
StepsLeft(c) ==
    IF pc[c] = "building"
    THEN 3 + (Len(req[c].cart.lines) - loaded[c].fresh)
    ELSE Statements[pc[c]]

LEMMA LinesLeft ==
    ASSUME IInv, NEW c \in Clients, pc[c] = "building"
    PROVE  /\ Len(req[c].cart.lines) \in Nat /\ loaded[c].fresh \in Nat
           /\ loaded[c].fresh < Len(req[c].cart.lines)
<1>1. req[c].op = "create" /\ loaded[c].fresh < Len(req[c].cart.lines)
  BY DEF IInv, MemoryMatchesStep
<1>2. req[c] \in Request
  BY <1>1 DEF IInv, TypeOK, NoRequest
<1>3. req[c].cart.lines \in Seq(Line)
  BY <1>1, <1>2, CartsAssumption DEF Request
<1>4. IsOrder(loaded[c])
  BY DEF IInv, TypeOK
<1> QED BY <1>1, <1>3, <1>4 DEF IsOrder

LEMMA StepsLeftIsNat ==
    ASSUME IInv, NEW c \in Clients
    PROVE  StepsLeft(c) \in Nat /\ (pc[c] # "idle" => StepsLeft(c) > 0)
<1>1. pc[c] \in Labels /\ IsOrder(loaded[c])
  BY DEF IInv, TypeOK
<1>2. CASE pc[c] = "building"
  <2> DEFINE lines == Len(req[c].cart.lines)
             fresh == loaded[c].fresh
  <2>1. lines \in Nat /\ fresh \in Nat /\ fresh < lines
    BY <1>2, LinesLeft
  <2>2. StepsLeft(c) = 3 + (lines - fresh)
    BY <1>2 DEF StepsLeft
  <2> HIDE DEF lines, fresh
  <2> QED BY <2>1, <2>2
<1>3. CASE pc[c] # "building"
  <2>1. StepsLeft(c) = Statements[pc[c]]
    BY <1>3 DEF StepsLeft
  <2> QED BY <1>1, <1>3, <2>1 DEF Statements, Labels
<1> QED BY <1>2, <1>3

LEMMA StepsBringTheAnswer ==
    ASSUME IInv, NEW c \in Clients, Serve(c) \/ Fail(c)
    PROVE  pc[c] # "idle" /\ StepsLeft(c)' < StepsLeft(c)
<1>1. StepsLeft(c) \in Nat /\ (pc[c] # "idle" => StepsLeft(c) > 0)
  BY StepsLeftIsNat
<1>2. pc[c] \in Labels /\ IsOrder(loaded[c])
  BY DEF IInv, TypeOK
<1>3. ASSUME NEW code, Answer(c, code)
      PROVE  StepsLeft(c)' = 0
  <2>1. pc'[c] = "idle"
    BY <1>3 DEF Answer, Goto, IInv, TypeOK
  <2> QED BY <2>1 DEF StepsLeft, Statements
<1>4. CASE \E code : Answer(c, code)
  <2>1. pc[c] # "idle"
    BY DEF Serve, BuildLine, InsertOrder, InsertItems, ReadOrder, ReadItems,
           UpdateOrder, WriteItems, DeleteOrder, Commit, Fail
  <2> QED BY <1>1, <1>3, <1>4, <2>1
<1>5. CASE BuildLine(c) /\ ~\E code : Answer(c, code)
  <2> DEFINE lines == req[c].cart.lines
  <2>1. /\ pc[c] = "building" /\ req' = req
        /\ loaded'[c] = WithItem(loaded[c], lines[loaded[c].fresh + 1])
        /\ pc'[c] = IF loaded[c].fresh + 1 = Len(lines) THEN "inserting" ELSE "building"
    BY <1>5 DEF BuildLine, Leave, Goto, IInv, TypeOK
  <2>2. loaded'[c].fresh = loaded[c].fresh + 1
    BY <1>2, <2>1 DEF WithItem, IsOrder
  <2>3. StepsLeft(c) = 3 + (Len(lines) - loaded[c].fresh)
    BY <2>1 DEF StepsLeft, Statements
  <2>4. Len(lines) \in Nat /\ loaded[c].fresh \in Nat
    BY <2>1, LinesLeft
  <2> HIDE DEF lines
  <2>5. CASE loaded[c].fresh + 1 = Len(lines)
    <3>1. StepsLeft(c)' = 3
      BY <2>1, <2>5 DEF StepsLeft, Statements
    <3> QED BY <2>1, <2>3, <2>4, <2>5, <3>1
  <2>6. CASE loaded[c].fresh + 1 # Len(lines)
    <3>1. StepsLeft(c)' = 3 + (Len(lines') - loaded'[c].fresh)
      BY <2>1, <2>6 DEF StepsLeft, Statements, lines
    <3>2. lines' = lines
      BY <2>1 DEF lines
    <3> QED BY <2>1, <2>2, <2>3, <2>4, <3>1, <3>2
  <2> QED BY <2>5, <2>6
<1>6. CASE /\ InsertOrder(c) \/ InsertItems(c) \/ WriteItems(c) \/ ReadOrder(c)
              \/ UpdateOrder(c) \/ DeleteOrder(c) \/ ReadItems(c)
           /\ ~\E code : Answer(c, code)
  <2>1. \/ pc[c] = "inserting" /\ pc'[c] = "storing"
        \/ pc[c] \in {"storing", "writing", "deleting"} /\ pc'[c] = "committing"
        \/ pc[c] = "reading" /\ pc'[c] = "loading"
        \/ pc[c] = "loading" /\ pc'[c] \in {"deleting", "updating"}
        \/ pc[c] = "updating" /\ pc'[c] = "writing"
    BY <1>6 DEF InsertOrder, InsertItems, WriteItems, ReadOrder, UpdateOrder,
                DeleteOrder, ReadItems, LockOrder, Leave, Goto, IInv, TypeOK
  <2>2. StepsLeft(c) = Statements[pc[c]] /\ StepsLeft(c)' = Statements[pc'[c]]
    BY <2>1 DEF StepsLeft
  <2> QED BY <2>1, <2>2 DEF Statements
<1>7. Commit(c) \/ Fail(c) => \E code : Answer(c, code)
  BY DEF Commit, Fail, Install, Leave
<1> QED BY <1>4, <1>5, <1>6, <1>7 DEF Serve

(* A handler that waits for the lock of a row waits for one that is past   *)
(* its own waiting, and whose next step is open to it.                     *)
LEMMA WaitersWaitForWorkers ==
    ASSUME IInv, NEW c \in Clients, pc[c] \in {"updating", "deleting"},
           ~Unlocked(req[c].order)
    PROVE  /\ locks[c] = 0
           /\ \E d \in Clients \ {c} :
                 locks[d] = req[c].order /\ pc[d] \in {"writing", "committing"}
<1>1. req[c].order # 0
  BY DEF IInv, TypeOK, MemoryMatchesStep
<1>2. locks[c] = 0
  BY DEF IInv, LockMatchesStep
<1>3. PICK d \in Clients : locks[d] = req[c].order
  BY DEF Unlocked
<1>4. pc[d] \in {"writing", "committing"}
  BY <1>1, <1>3 DEF IInv, LockMatchesStep
<1> QED BY <1>1, <1>2, <1>3, <1>4

MovesOn ==
    \A c \in Clients :
        pc[c] # "idle" =>
          /\ StepsLeft(c) \in Nat
          /\ \/ StepsLeft(c)' < StepsLeft(c)
             \/ StepsLeft(c)' = StepsLeft(c) /\ pc'[c] = pc[c]

(* While a request is unanswered, what other handlers do costs its handler *)
(* nothing, and each step of its own, failing or not, brings the answer    *)
(* nearer: no route goes on for ever.                                      *)
THEOREM HandlersMoveOn == Spec => [][MovesOn]_vars
<1>1. IInv /\ [Next]_vars => [MovesOn]_vars
  <2> SUFFICES ASSUME IInv, Next, NEW c \in Clients, pc[c] # "idle"
               PROVE  \/ StepsLeft(c)' < StepsLeft(c)
                      \/ StepsLeft(c)' = StepsLeft(c) /\ pc'[c] = pc[c]
    BY StepsLeftIsNat DEF MovesOn, vars
  <2>1. CASE Serve(c) \/ Fail(c)
    BY <2>1, StepsBringTheAnswer
  <2>2. ASSUME pc'[c] = pc[c], req'[c] = req[c], loaded'[c] = loaded[c]
        PROVE  StepsLeft(c)' = StepsLeft(c)
    BY <2>2 DEF StepsLeft
  <2>3. ASSUME NEW d \in Clients \ {c}, Serve(d) \/ Fail(d) \/ \E r : Submit(d, r)
        PROVE  pc'[c] = pc[c] /\ req'[c] = req[c] /\ loaded'[c] = loaded[c]
    <3>1. ASSUME NEW code, Answer(d, code)
          PROVE  pc'[c] = pc[c] /\ req'[c] = req[c] /\ loaded'[c] = loaded[c]
      BY <3>1 DEF Answer, Goto, IInv, TypeOK
    <3>2. CASE ~\E code : Answer(d, code)
      BY <2>3, <3>2 DEF Serve, BuildLine, InsertOrder, InsertItems, ReadOrder,
         ReadItems, UpdateOrder, WriteItems, DeleteOrder, LockOrder, Commit, Fail,
         Install, Submit, Leave, Goto, IInv, TypeOK
    <3> QED BY <3>1, <3>2
  <2>4. \A r : ~Submit(c, r)
    BY DEF Submit
  <2>5. CASE Done
    BY <2>2, <2>5 DEF Done, vars
  <2> QED BY <2>1, <2>2, <2>3, <2>4, <2>5 DEF Next
<1> QED BY <1>1, Invariance, PTL DEF Spec

Waits(c) == pc[c] \in {"updating", "deleting"} /\ ~Unlocked(req[c].order)

NoRing ==
    \A c \in Clients :
        Waits(c) =>
          /\ locks[c] = 0
          /\ \E d \in Clients \ {c} :
                locks[d] = req[c].order /\ pc[d] \in {"writing", "committing"}

(* Transactions never wait for each other in a ring: a handler that waits  *)
(* for a row's lock holds none, and the holder waits for nobody.           *)
THEOREM NoCircularWait == Spec => []NoRing
<1>1. IInv => NoRing
  BY WaitersWaitForWorkers DEF NoRing, Waits
<1> QED BY <1>1, Invariance, PTL
=============================================================================

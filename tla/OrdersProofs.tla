---------------------------- MODULE OrdersProofs ----------------------------
(* Proofs about Orders, for any number of clients, requests, orders and    *)
(* items, any request bodies and any integer width.                        *)
EXTENDS Orders, TLAPS

(* int64 arithmetic stays in range, whatever is added or multiplied.       *)
LEMMA WrapInRange == \A cents \in Int : Wrap(cents) \in Cents
<1> SUFFICES ASSUME NEW cents \in Int PROVE Wrap(cents) \in Cents
  OBVIOUS
<1>1. 2 * Half \in Nat \ {0}
  BY HalfAssumption
<1>2. (cents + Half) % (2 * Half) \in 0 .. (2 * Half - 1)
  BY <1>1, HalfAssumption
<1> QED
  BY <1>2, HalfAssumption DEF Wrap, Cents

GoodItems(order) == \A i \in DOMAIN order.items : GoodItem(order.items[i])

LEMMA SubtotalInRange ==
    \A quantity, price \in Int : Subtotal(quantity, price) \in Cents
BY WrapInRange DEF Subtotal

(* What a row put in a table, or a table restricted to some rows, holds.   *)
LEMMA PutDomain == \A rows, id, row : DOMAIN Put(rows, id, row) = DOMAIN rows \cup {id}
BY DEF Put

LEMMA PutNew == \A rows, id, row : Put(rows, id, row)[id] = row
BY DEF Put

LEMMA PutOld ==
    \A rows, id, row : \A i \in DOMAIN rows \ {id} : Put(rows, id, row)[i] = rows[i]
BY DEF Put

LEMMA RestrictIds == \A rows, ids : DOMAIN Restrict(rows, ids) = ids
BY DEF Restrict

LEMMA RestrictRow == \A rows, ids : \A i \in ids : Restrict(rows, ids)[i] = rows[i]
BY DEF Restrict

(* The domain methods keep an order well typed and its items good.         *)
LEMMA WithItemGood ==
    ASSUME NEW order, IsOrder(order), GoodItems(order),
           NEW line \in Line, ValidLine(line)
    PROVE  LET new == WithItem(order, line)
           IN  /\ IsOrder(new)
               /\ GoodItems(new)
               /\ new.id = order.id
               /\ new.inserted = order.inserted
               /\ new.fresh = order.fresh + 1
               /\ DOMAIN new.items = DOMAIN order.items \cup {-order.fresh}
               /\ \A i \in DOMAIN order.items \ {-order.fresh} :
                     new.items[i] = order.items[i]
<1> DEFINE item == [order    |-> 0,
                    quantity |-> line.quantity,
                    price    |-> line.price,
                    subtotal |-> Subtotal(line.quantity, line.price)]
           new  == WithItem(order, line)
<1>1. GoodItem(item)
  BY SubtotalInRange DEF Line, ValidLine, GoodItem, ItemRow
<1>2. new = [order EXCEPT !.total = Wrap(@ + item.subtotal),
                          !.items = Put(@, -order.fresh, item),
                          !.fresh = @ + 1]
  BY DEF WithItem
<1> HIDE DEF new, item
<1>3. DOMAIN new = DOMAIN order
  BY <1>2
<1>4. new.id = order.id /\ new.inserted = order.inserted /\ new.fresh = order.fresh + 1
  BY <1>2 DEF IsOrder
<1>5. new.total \in Cents
  <2>1. new.total = Wrap(order.total + item.subtotal)
    BY <1>2 DEF IsOrder
  <2> QED
    BY <1>1, <2>1, WrapInRange, HalfAssumption DEF IsOrder, GoodItem, ItemRow, Cents
<1>6. new.items = Put(order.items, -order.fresh, item)
  BY <1>2 DEF IsOrder
<1>7. DOMAIN new.items = DOMAIN order.items \cup {-order.fresh}
  BY <1>6, PutDomain
<1>8. \A i \in DOMAIN order.items \ {-order.fresh} : new.items[i] = order.items[i]
  BY <1>6, PutOld
<1>9. \A i \in DOMAIN new.items : i \in Int /\ GoodItem(new.items[i])
  <2>1. new.items[-order.fresh] = item
    BY <1>6, PutNew
  <2> QED
    BY <1>1, <1>7, <1>8, <2>1 DEF IsOrder, GoodItems
<1>10. IsOrder(new) /\ GoodItems(new)
  BY <1>3, <1>4, <1>5, <1>7, <1>9 DEF IsOrder, GoodItems, GoodItem
<1> QED
  BY <1>4, <1>7, <1>8, <1>10 DEF new

LEMMA WithoutItemGood ==
    ASSUME NEW order, IsOrder(order), GoodItems(order), order.inserted = {},
           NEW id \in DOMAIN order.items
    PROVE  LET new == WithoutItem(order, id)
           IN  /\ IsOrder(new)
               /\ GoodItems(new)
               /\ new.id = order.id
               /\ new.inserted = {}
               /\ new.fresh = order.fresh
               /\ DOMAIN new.items = DOMAIN order.items \ {id}
               /\ \A i \in DOMAIN new.items : new.items[i] = order.items[i]
<1> DEFINE new  == WithoutItem(order, id)
           kept == DOMAIN order.items \ {id}
<1>1. new = [order EXCEPT !.items = Restrict(order.items, kept),
                          !.total = Wrap(order.total - order.items[id].subtotal)]
  BY DEF WithoutItem, IsOrder
<1> HIDE DEF new, kept
<1>2. DOMAIN new = DOMAIN order
  BY <1>1
<1>3. new.id = order.id /\ new.inserted = order.inserted /\ new.fresh = order.fresh
  BY <1>1 DEF IsOrder
<1>4. new.total \in Cents
  <2>1. new.total = Wrap(order.total - order.items[id].subtotal)
    BY <1>1 DEF IsOrder
  <2>2. order.total \in Int /\ order.items[id].subtotal \in Int
    BY HalfAssumption DEF IsOrder, GoodItems, GoodItem, ItemRow, Cents
  <2> QED
    BY <2>1, <2>2, WrapInRange
<1>5. new.items = Restrict(order.items, kept)
  BY <1>1 DEF IsOrder
<1>6. DOMAIN new.items = kept
  BY <1>5, RestrictIds
<1>7. \A i \in kept : new.items[i] = order.items[i]
  BY <1>5, RestrictRow
<1>8. \A i \in DOMAIN new.items : i \in Int /\ GoodItem(new.items[i])
  BY <1>6, <1>7 DEF IsOrder, GoodItems, kept
<1>9. IsOrder(new) /\ GoodItems(new)
  BY <1>2, <1>3, <1>4, <1>8 DEF IsOrder, GoodItems, GoodItem
<1> QED
  BY <1>3, <1>6, <1>7, <1>9 DEF new, kept

LEMMA PatchedGood ==
    ASSUME NEW item, GoodItem(item), NEW patch \in Patches, ValidPatch(patch)
    PROVE  GoodItem(Patched(item, patch)) /\ Patched(item, patch).order = item.order
<1> DEFINE quantity == IF patch.quantity = Nil THEN item.quantity ELSE patch.quantity
           price    == IF patch.price = Nil THEN item.price ELSE patch.price
<1>1. quantity \in Int /\ quantity > 0 /\ price \in Int /\ price > 0
  BY PatchesAssumption DEF GoodItem, ItemRow, ValidPatch
<1>2. Patched(item, patch) = [item EXCEPT !.quantity = quantity, !.price = price,
                                          !.subtotal = Subtotal(quantity, price)]
  BY DEF Patched
<1> HIDE DEF quantity, price
<1>3. Patched(item, patch) \in ItemRow
  BY <1>1, <1>2, SubtotalInRange DEF GoodItem, ItemRow
<1>4. /\ Patched(item, patch).quantity = quantity
      /\ Patched(item, patch).price = price
      /\ Patched(item, patch).subtotal = Subtotal(quantity, price)
      /\ Patched(item, patch).order = item.order
  BY <1>2 DEF GoodItem, ItemRow
<1> QED
  BY <1>1, <1>3, <1>4 DEF GoodItem

LEMMA WithPatchGood ==
    ASSUME NEW order, IsOrder(order), GoodItems(order),
           NEW id \in DOMAIN order.items,
           NEW patch \in Patches, ValidPatch(patch)
    PROVE  LET new == WithPatch(order, id, patch)
           IN  /\ IsOrder(new)
               /\ GoodItems(new)
               /\ new.id = order.id
               /\ new.inserted = order.inserted
               /\ new.fresh = order.fresh
               /\ DOMAIN new.items = DOMAIN order.items
               /\ \A i \in DOMAIN new.items : new.items[i].order = order.items[i].order
<1>1. CASE patch.quantity = Nil /\ patch.price = Nil
  BY <1>1 DEF WithPatch
<1>2. CASE ~(patch.quantity = Nil /\ patch.price = Nil)
  <2> DEFINE item == Patched(order.items[id], patch)
             new  == WithPatch(order, id, patch)
  <2>1. GoodItem(item) /\ item.order = order.items[id].order
    BY PatchedGood DEF GoodItems
  <2>2. new = [order EXCEPT !.items = Put(order.items, id, item),
                  !.total = Wrap(order.total + item.subtotal - order.items[id].subtotal)]
    BY <1>2 DEF WithPatch, IsOrder
  <2> HIDE DEF item, new
  <2>3. DOMAIN new = DOMAIN order
    BY <2>2
  <2>4. new.id = order.id /\ new.inserted = order.inserted /\ new.fresh = order.fresh
    BY <2>2 DEF IsOrder
  <2>5. new.total \in Cents
    <3>1. new.total = Wrap(order.total + item.subtotal - order.items[id].subtotal)
      BY <2>2 DEF IsOrder
    <3>2. order.total \in Int /\ item.subtotal \in Int /\ order.items[id].subtotal \in Int
      BY <2>1, HalfAssumption DEF IsOrder, GoodItems, GoodItem, ItemRow, Cents
    <3> QED
      BY <3>1, <3>2, WrapInRange
  <2>6. new.items = Put(order.items, id, item)
    BY <2>2 DEF IsOrder
  <2>7. DOMAIN new.items = DOMAIN order.items
    <3>1. DOMAIN new.items = DOMAIN order.items \cup {id}
      BY <2>6, PutDomain
    <3>2. DOMAIN order.items \cup {id} = DOMAIN order.items
      OBVIOUS
    <3> QED
      BY <3>1, <3>2
  <2>8. new.items[id] = item
    BY <2>6, PutNew
  <2>9. \A i \in DOMAIN order.items \ {id} : new.items[i] = order.items[i]
    BY <2>6, PutOld
  <2>10. \A i \in DOMAIN new.items : i \in Int /\ GoodItem(new.items[i])
    BY <2>1, <2>7, <2>8, <2>9 DEF IsOrder, GoodItems
  <2>11. IsOrder(new) /\ GoodItems(new)
    <3>1. \A i \in DOMAIN new.items : i \in Int /\ new.items[i] \in ItemRow
      BY <2>10 DEF GoodItem
    <3> QED
      BY <2>3, <2>4, <2>5, <2>7, <2>10, <3>1 DEF IsOrder, GoodItems
  <2>12. \A i \in DOMAIN new.items : new.items[i].order = order.items[i].order
    BY <2>1, <2>7, <2>8, <2>9
  <2> QED
    BY <2>4, <2>7, <2>11, <2>12 DEF new
<1> QED
  BY <1>1, <1>2

(* What a command makes of an order it loaded.                             *)
LEMMA AppliedGood ==
    ASSUME NEW order, IsOrder(order), GoodItems(order),
           order.inserted = {}, order.fresh = 0,
           NEW r \in Request, DomainError(order, r) = 0
    PROVE  LET new == Applied(order, r)
           IN  /\ IsOrder(new)
               /\ GoodItems(new)
               /\ new.id = order.id
               /\ new.inserted = {}
               /\ \A k \in 0 .. (new.fresh - 1) : -k \in DOMAIN new.items
               /\ \A i \in DOMAIN new.items :
                     i > 0 => /\ i \in DOMAIN order.items
                              /\ new.items[i].order = order.items[i].order
<1>1. CASE r.op = "status"
  <2> DEFINE new == [order EXCEPT !.status = r.status]
  <2>1. Applied(order, r) = new
    BY <1>1 DEF Applied
  <2>2. /\ DOMAIN new = DOMAIN order /\ new.id = order.id /\ new.total = order.total
        /\ new.items = order.items /\ new.fresh = 0 /\ new.inserted = {}
    BY DEF IsOrder
  <2> HIDE DEF new
  <2> QED
    BY <2>1, <2>2 DEF IsOrder, GoodItems
<1>2. CASE r.op = "add"
  <2>1. r.line \in Line /\ ValidLine(r.line)
    BY <1>2, LinesAssumption DEF DomainError, Request
  <2>2. Applied(order, r) = WithItem(order, r.line)
    BY <1>2 DEF Applied
  <2>3. /\ WithItem(order, r.line).fresh = 1
        /\ DOMAIN WithItem(order, r.line).items = DOMAIN order.items \cup {-0}
        /\ \A i \in DOMAIN order.items \ {-0} :
              WithItem(order, r.line).items[i] = order.items[i]
    BY <2>1, WithItemGood
  <2> QED
    BY <2>1, <2>2, <2>3, WithItemGood DEF IsOrder
<1>3. CASE r.op = "patch"
  <2>1. r.item \in DOMAIN order.items /\ r.patch \in Patches /\ ValidPatch(r.patch)
    BY <1>3 DEF DomainError, Request
  <2>2. Applied(order, r) = WithPatch(order, r.item, r.patch)
    BY <1>3 DEF Applied
  <2> QED
    BY <2>1, <2>2, WithPatchGood
<1>4. CASE r.op = "remove"
  <2>1. r.item \in DOMAIN order.items
    BY <1>4 DEF DomainError, Request
  <2>2. Applied(order, r) = WithoutItem(order, r.item)
    BY <1>4 DEF Applied
  <2> QED
    BY <2>1, <2>2, WithoutItemGood
<1>5. CASE r.op \notin {"status", "add", "patch", "remove"}
  BY <1>5 DEF Applied
<1> QED
  BY <1>1, <1>2, <1>3, <1>4, <1>5

(* The order a handler holds once its items are written.                   *)
LEMMA SavedGood ==
    ASSUME nextItem \in Nat \ {0},
           NEW order, IsOrder(order), GoodItems(order), Storable(order),
           \A k \in 0 .. (order.fresh - 1) : -k \in DOMAIN order.items,
           \A i \in DOMAIN order.items :
              i > 0 => i < nextItem /\ order.items[i].order = order.id
    PROVE  LET new == Saved(order)
           IN  /\ IsOrder(new)
               /\ GoodItems(new)
               /\ new.id = order.id
               /\ order.fresh = 0 => new.inserted = {}
               /\ \A i \in DOMAIN new.items :
                     /\ i > 0
                     /\ i < nextItem + order.fresh
                     /\ new.items[i].order = order.id
                     /\ new.items[i].quantity <= MaxQuantity
<1> DEFINE new      == Saved(order)
           inserted == nextItem .. (nextItem + order.fresh - 1)
           stored   == {i \in DOMAIN order.items : i > 0}
           rows     == SavedItems(order)
<1>1. new = [order EXCEPT !.items = rows, !.inserted = inserted]
  BY DEF Saved
<1>2. DOMAIN rows = stored \cup inserted
  BY DEF SavedItems
<1>3. \A i \in stored : rows[i] = order.items[i]
  BY DEF SavedItems
<1>4. \A i \in inserted :
         /\ nextItem - i \in DOMAIN order.items
         /\ rows[i] = [order.items[nextItem - i] EXCEPT !.order = order.id]
  <2> SUFFICES ASSUME NEW i \in inserted
               PROVE  /\ nextItem - i \in DOMAIN order.items
                      /\ rows[i] = [order.items[nextItem - i] EXCEPT !.order = order.id]
    OBVIOUS
  <2>1. i \in Int /\ i - nextItem \in 0 .. (order.fresh - 1)
    BY DEF IsOrder
  <2>2. nextItem - i = -(i - nextItem)
    BY <2>1
  <2>3. i \notin stored
    BY <2>1
  <2>4. rows[i] = [order.items[nextItem - i] EXCEPT !.order = order.id]
    BY <2>3 DEF SavedItems
  <2> QED
    BY <2>1, <2>2, <2>4
<1> HIDE DEF new, rows
<1>5. \A i \in inserted :
         /\ i \in Int /\ i > 0 /\ i < nextItem + order.fresh
         /\ GoodItem(rows[i])
         /\ rows[i].order = order.id
         /\ rows[i].quantity <= MaxQuantity
  <2> SUFFICES ASSUME NEW i \in inserted
               PROVE  /\ i \in Int /\ i > 0 /\ i < nextItem + order.fresh
                      /\ GoodItem(rows[i])
                      /\ rows[i].order = order.id
                      /\ rows[i].quantity <= MaxQuantity
    OBVIOUS
  <2>1. i \in Int /\ i > 0 /\ i < nextItem + order.fresh
    BY DEF IsOrder
  <2>2. PICK item : /\ GoodItem(item) /\ item.quantity <= MaxQuantity
                    /\ rows[i] = [item EXCEPT !.order = order.id]
    BY <1>4 DEF GoodItems, Storable
  <2>3. rows[i] \in ItemRow
    BY <2>2 DEF GoodItem, ItemRow, IsOrder
  <2>4. /\ rows[i].order = order.id /\ rows[i].quantity = item.quantity
        /\ rows[i].price = item.price /\ rows[i].subtotal = item.subtotal
    BY <2>2 DEF GoodItem, ItemRow
  <2> QED
    BY <2>1, <2>2, <2>3, <2>4 DEF GoodItem
<1>6. \A i \in stored :
         /\ i \in Int /\ i > 0 /\ i < nextItem + order.fresh
         /\ GoodItem(rows[i])
         /\ rows[i].order = order.id
         /\ rows[i].quantity <= MaxQuantity
  BY <1>3 DEF IsOrder, GoodItems, Storable
<1>7. DOMAIN new = DOMAIN order
  BY <1>1
<1>8. /\ new.id = order.id /\ new.total = order.total /\ new.fresh = order.fresh
      /\ new.items = rows /\ new.inserted = inserted
  BY <1>1 DEF IsOrder
<1>9. inserted \subseteq DOMAIN rows
  BY <1>2
<1>10. \A i \in DOMAIN rows :
         /\ i \in Int /\ i > 0 /\ i < nextItem + order.fresh
         /\ GoodItem(rows[i])
         /\ rows[i].order = order.id
         /\ rows[i].quantity <= MaxQuantity
  BY <1>2, <1>5, <1>6
<1>11. order.fresh = 0 => inserted = {}
  OBVIOUS
<1> HIDE DEF inserted
<1>12. IsOrder(new) /\ GoodItems(new)
  BY <1>7, <1>8, <1>9, <1>10 DEF IsOrder, GoodItems, GoodItem
<1> QED
  BY <1>8, <1>10, <1>11, <1>12 DEF new

(* The item table a transaction leaves: rows of other orders as they were, *)
(* rows of its own from the handler's memory.                              *)
LEMMA ItemsWrittenRows ==
    ASSUME NEW order, order.inserted \subseteq DOMAIN order.items
    PROVE  /\ DOMAIN ItemsWritten(order) = DOMAIN items \cup order.inserted
           /\ \A i \in DOMAIN ItemsWritten(order) :
                 \/ /\ i \in DOMAIN items
                    /\ ItemsWritten(order)[i] = items[i]
                 \/ /\ i \in DOMAIN order.items
                    /\ ItemsWritten(order)[i] = order.items[i]
                    /\ \/ i \in order.inserted
                       \/ i \in DOMAIN items /\ items[i].order = order.id
<1> DEFINE updated == {i \in DOMAIN order.items \cap DOMAIN items :
                          items[i].order = order.id}
<1>1. ItemsWritten(order) =
         [i \in DOMAIN items \cup order.inserted |->
             IF i \in updated \cup order.inserted THEN order.items[i] ELSE items[i]]
  BY DEF ItemsWritten
<1>2. DOMAIN ItemsWritten(order) = DOMAIN items \cup order.inserted
  BY <1>1
<1>3. \A i \in DOMAIN items \cup order.inserted :
         ItemsWritten(order)[i] =
            IF i \in updated \cup order.inserted THEN order.items[i] ELSE items[i]
  BY <1>1
<1> QED
  BY <1>2, <1>3

-----------------------------------------------------------------------------
(* Steps that leave the tables alone and move one handler: what the other  *)
(* handlers hold stays true, so only the moved one is left to check.       *)
Moves(c) ==
    /\ UNCHANGED <<orders, items>>
    /\ nextOrder <= nextOrder' /\ nextItem <= nextItem'
    /\ \A d \in Clients \ {c} :
          /\ pc'[d] = pc[d] /\ req'[d] = req[d]
          /\ loaded'[d] = loaded[d] /\ locks'[d] = locks[d]

LEMMA MoveKeepsInvariant ==
    ASSUME IInv, TypeOK', NEW c \in Clients, Moves(c),
           MemoryMatchesStep(c)', LockMatchesStep(c)', NewIdIsUnused(c)',
           HoldsItsRow(c)',
           locks'[c] # 0 => \A d \in Clients \ {c} : locks[d] # locks'[c],
           \A d \in Clients \ {c} : Creating(d) => loaded'[c].id # loaded[d].id
    PROVE  IInv'
<1>1. ItemRowsConsistent'
  BY DEF IInv, ItemRowsConsistent, Moves
<1>2. NoOrphanItems'
  BY DEF IInv, NoOrphanItems, Moves
<1>3. ASSUME NEW d \in Clients
      PROVE  /\ MemoryMatchesStep(d)' /\ LockMatchesStep(d)' /\ NewIdIsUnused(d)'
             /\ HoldsItsRow(d)'
  <2>1. CASE d = c
    BY <2>1
  <2>2. CASE d # c
    <3>1. /\ pc'[d] = pc[d] /\ req'[d] = req[d]
          /\ loaded'[d] = loaded[d] /\ locks'[d] = locks[d]
      BY <2>2 DEF Moves
    <3>2. MemoryMatchesStep(d)'
      <4>1. MemoryMatchesStep(d)
        BY DEF IInv
      <4>2. /\ nextOrder \in Nat /\ nextOrder' \in Nat /\ nextOrder <= nextOrder'
            /\ nextItem \in Nat /\ nextItem' \in Nat /\ nextItem <= nextItem'
            /\ loaded[d].id \in Nat
            /\ \A i \in DOMAIN loaded[d].items : i \in Int
        BY DEF IInv, TypeOK, IsOrder, Moves
      <4> QED
        BY <3>1, <4>1, <4>2 DEF MemoryMatchesStep
    <3>3. LockMatchesStep(d)'
      BY <3>1 DEF IInv, LockMatchesStep, Moves
    <3>4. NewIdIsUnused(d)'
      BY <2>2, <3>1 DEF IInv, NewIdIsUnused, Creating, Moves
    <3>5. HoldsItsRow(d)'
      BY <3>1 DEF IInv, RowsHeldByOne, HoldsItsRow, Moves
    <3> QED
      BY <3>2, <3>3, <3>4, <3>5
  <2> QED
    BY <2>1, <2>2
<1>4. ASSUME NEW d \in Clients, NEW e \in Clients, locks'[d] = locks'[e], locks'[d] # 0
      PROVE  d = e
  BY <1>4 DEF IInv, RowsHeldByOne, Moves
<1> QED
  BY <1>1, <1>2, <1>3, <1>4 DEF IInv, RowsHeldByOne

(* A transaction that leaves no trace, and a read that is done.            *)
LEMMA LeaveKeepsInvariant ==
    ASSUME IInv, NEW c \in Clients, NEW code \in {200, 400, 404, 500}, Leave(c, code)
    PROVE  IInv'
<1>1. TypeOK'
  <2>1. IsOrder(EmptyOrder)
    BY HalfAssumption DEF IsOrder, EmptyOrder, Cents
  <2>2. /\ DOMAIN loaded' = Clients
        /\ \A d \in Clients : IsOrder(loaded'[d])
    BY <2>1 DEF Leave, Answer, IInv, TypeOK
  <2>3. /\ pc' \in [Clients -> Labels]
        /\ req' \in [Clients -> Request \cup {NoRequest}]
        /\ locks' \in [Clients -> Nat]
        /\ answer' \in [Clients -> {0, 200, 201, 204, 400, 404, 500}]
        /\ overtaken' \subseteq Clients
    BY DEF Leave, Answer, Goto, IInv, TypeOK, Labels
  <2> QED
    BY <2>2, <2>3 DEF Leave, IInv, TypeOK
<1>2. /\ pc'[c] = "idle" /\ loaded'[c] = EmptyOrder /\ locks'[c] = 0
      /\ req'[c] = NoRequest
  BY DEF Leave, Answer, Goto, IInv, TypeOK
<1>3. Moves(c)
  BY DEF Leave, Answer, Goto, IInv, TypeOK, Moves
<1>4. /\ EmptyOrder.id = 0 /\ EmptyOrder.inserted = {} /\ EmptyOrder.fresh = 0
      /\ DOMAIN EmptyOrder.items = {}
  BY DEF EmptyOrder
<1>5. MemoryMatchesStep(c)'
  BY <1>2, <1>4 DEF MemoryMatchesStep
<1>6. LockMatchesStep(c)' /\ NewIdIsUnused(c)' /\ HoldsItsRow(c)'
  BY <1>2, <1>4 DEF LockMatchesStep, NewIdIsUnused, HoldsItsRow
<1>7. \A d \in Clients \ {c} : Creating(d) => loaded'[c].id # loaded[d].id
  BY <1>2, <1>4 DEF IInv, TypeOK, MemoryMatchesStep, Creating
<1> QED
  BY <1>1, <1>2, <1>3, <1>5, <1>6, <1>7, MoveKeepsInvariant

-----------------------------------------------------------------------------
(* One lemma per action.                                                   *)

LEMMA RequestsAreTyped ==
    ASSUME TypeOK, NEW op \in Routes, NEW r \in Requests(op)
    PROVE  r \in Request /\ r.op = op
<1>1. 1..nextOrder \subseteq Nat /\ 1..nextItem \subseteq Nat
  BY DEF TypeOK
<1>2. CASE op = "create"
  BY <1>2 DEF Requests, Request
<1>3. CASE op \in {"get", "delete"}
  BY <1>1, <1>3 DEF Requests, Request
<1>4. CASE op = "status"
  BY <1>1, <1>4 DEF Requests, Request
<1>5. CASE op = "add"
  BY <1>1, <1>5 DEF Requests, Request
<1>6. CASE op = "patch"
  BY <1>1, <1>6 DEF Requests, Request
<1>7. CASE op = "remove"
  BY <1>1, <1>7 DEF Requests, Request
<1> QED
  BY <1>2, <1>3, <1>4, <1>5, <1>6, <1>7 DEF Routes

LEMMA SubmitKeepsInvariant ==
    ASSUME IInv, NEW c \in Clients, NEW op \in Commands, NEW r \in Requests(op),
           Submit(c, r)
    PROVE  IInv'
<1>1. r \in Request /\ r.op \in Routes
  BY RequestsAreTyped, CommandsAssumption DEF IInv
<1>2. loaded[c] = EmptyOrder /\ locks[c] = 0
  BY DEF Submit, IInv, TypeOK, MemoryMatchesStep, LockMatchesStep
<1>3. /\ EmptyOrder.id = 0 /\ EmptyOrder.inserted = {} /\ EmptyOrder.fresh = 0
      /\ DOMAIN EmptyOrder.items = {}
  BY DEF EmptyOrder
<1>4. loaded' = loaded /\ locks' = locks
  BY DEF Submit
<1>5. TypeOK'
  <2>1. pc' \in [Clients -> Labels]
    BY DEF Submit, Goto, IInv, TypeOK, Labels
  <2>2. req' \in [Clients -> Request \cup {NoRequest}]
    BY <1>1 DEF Submit, IInv, TypeOK
  <2>3. answer' \in [Clients -> {0, 200, 201, 204, 400, 404, 500}]
    <3>1. Refusal(r) \in {0, 400, 500}
      BY DEF Refusal
    <3> QED
      BY <3>1 DEF Submit, IInv, TypeOK
  <2>4. sent' \in 0..MaxRequests
    BY RequestsAssumption DEF Submit, IInv, TypeOK
  <2> QED
    BY <2>1, <2>2, <2>3, <2>4 DEF Submit, IInv, TypeOK
<1>6. Moves(c)
  BY DEF Submit, Goto, IInv, TypeOK, Moves
<1>7. \/ pc'[c] = "idle"
      \/ pc'[c] = "reading" /\ req'[c].op \in Routes \ {"create"}
      \/ /\ pc'[c] = "building" /\ req'[c].op = "create"
         /\ 0 < Len(req'[c].cart.lines)
  <2>1. CASE Refusal(r) # 0
    BY <2>1 DEF Submit
  <2>2. CASE Refusal(r) = 0 /\ r.op # "create"
    BY <1>1, <2>2 DEF Submit, Goto, IInv, TypeOK
  <2>3. CASE Refusal(r) = 0 /\ r.op = "create"
    <3>1. r.cart \in Carts /\ r.cart.lines \in Seq(Line) /\ r.cart.lines # <<>>
      BY <1>1, <2>3, CartsAssumption DEF Refusal, Request
    <3>2. 0 < Len(r.cart.lines)
      BY <3>1
    <3> QED
      BY <2>3, <3>2 DEF Submit, Goto, IInv, TypeOK
  <2> QED
    BY <2>1, <2>2, <2>3
<1>8. MemoryMatchesStep(c)'
  BY <1>2, <1>3, <1>4, <1>7 DEF MemoryMatchesStep
<1>9. LockMatchesStep(c)' /\ NewIdIsUnused(c)' /\ HoldsItsRow(c)'
  BY <1>2, <1>3, <1>4, <1>7 DEF LockMatchesStep, NewIdIsUnused, HoldsItsRow
<1>10. \A d \in Clients \ {c} : Creating(d) => loaded'[c].id # loaded[d].id
  BY <1>2, <1>3, <1>4 DEF IInv, TypeOK, MemoryMatchesStep, Creating
<1> QED
  BY <1>2, <1>4, <1>5, <1>6, <1>8, <1>9, <1>10, MoveKeepsInvariant

LEMMA BuildLineKeepsInvariant ==
    ASSUME IInv, NEW c \in Clients, BuildLine(c)
    PROVE  IInv'
<1> DEFINE lines == req[c].cart.lines
           line  == lines[loaded[c].fresh + 1]
           new   == WithItem(loaded[c], line)
<1>1. CASE ~ValidLine(line)
  BY <1>1, LeaveKeepsInvariant DEF BuildLine
<1>2. CASE ValidLine(line)
  <2>1. /\ pc[c] = "building"
        /\ loaded' = [loaded EXCEPT ![c] = new]
        /\ pc' = [pc EXCEPT ![c] = IF loaded[c].fresh + 1 = Len(lines)
                                   THEN "inserting" ELSE "building"]
        /\ UNCHANGED <<orders, items, nextOrder, nextItem, req, locks, answer, sent,
                       overtaken>>
    BY <1>2 DEF BuildLine, Goto
  <2>2. /\ req[c].op = "create" /\ req[c] \in Request
        /\ loaded[c].fresh < Len(lines) /\ loaded[c].id = 0
        /\ loaded[c].inserted = {}
        /\ \A k \in 0 .. (loaded[c].fresh - 1) : -k \in DOMAIN loaded[c].items
        /\ locks[c] = 0
    <3>1. MemoryMatchesStep(c) /\ LockMatchesStep(c)
      BY DEF IInv
    <3>2. req[c].op = "create" /\ locks[c] = 0
      BY <2>1, <3>1 DEF MemoryMatchesStep, LockMatchesStep
    <3>3. req[c] \in Request
      BY <3>2 DEF IInv, TypeOK, NoRequest
    <3> QED
      BY <2>1, <3>1, <3>2, <3>3 DEF MemoryMatchesStep
  <2>3. IsOrder(loaded[c]) /\ GoodItems(loaded[c]) /\ loaded[c].fresh \in Nat
    BY DEF IInv, TypeOK, MemoryMatchesStep, GoodItems, IsOrder
  <2>4. lines \in Seq(Line)
    BY <2>2, CartsAssumption DEF Request
  <2>5. line \in Line
    BY <2>2, <2>3, <2>4
  <2> HIDE DEF lines, line
  <2>6. /\ IsOrder(new) /\ GoodItems(new) /\ new.id = loaded[c].id
        /\ new.inserted = loaded[c].inserted /\ new.fresh = loaded[c].fresh + 1
        /\ DOMAIN new.items = DOMAIN loaded[c].items \cup {-loaded[c].fresh}
        /\ \A i \in DOMAIN loaded[c].items \ {-loaded[c].fresh} :
              new.items[i] = loaded[c].items[i]
    BY <1>2, <2>3, <2>5, WithItemGood
  <2> HIDE DEF new
  <2>7. TypeOK'
    <3>1. pc' \in [Clients -> Labels]
      BY <2>1 DEF IInv, TypeOK, Labels
    <3>2. DOMAIN loaded' = Clients /\ \A d \in Clients : IsOrder(loaded'[d])
      BY <2>1, <2>6 DEF IInv, TypeOK
    <3> QED
      BY <2>1, <3>1, <3>2 DEF IInv, TypeOK
  <2>8. Moves(c)
    BY <2>1 DEF IInv, TypeOK, Moves
  <2>9. /\ loaded'[c] = new /\ req'[c] = req[c] /\ locks'[c] = 0
        /\ pc'[c] = IF loaded[c].fresh + 1 = Len(lines)
                    THEN "inserting" ELSE "building"
    BY <2>1, <2>2 DEF IInv, TypeOK
  <2>10. MemoryMatchesStep(c)'
    <3>1. \A k \in 0 .. (new.fresh - 1) : -k \in DOMAIN new.items
      BY <2>2, <2>3, <2>6
    <3>2. \A i \in DOMAIN new.items : i <= 0 /\ ~(i > 0)
      <4>1. \A i \in DOMAIN loaded[c].items : i \in Int /\ i <= 0
        BY <2>1, <2>3 DEF IInv, MemoryMatchesStep, IsOrder
      <4>2. -loaded[c].fresh \in Int /\ -loaded[c].fresh <= 0
        BY <2>3
      <4> QED
        BY <2>6, <4>1, <4>2
    <3>3. pc'[c] = "building" => new.fresh < Len(req[c].cart.lines)
      BY <2>2, <2>3, <2>4, <2>6, <2>9 DEF lines
    <3>4. nextItem' = nextItem
      BY <2>1
    <3> QED
      BY <2>2, <2>6, <2>9, <3>1, <3>2, <3>3, <3>4 DEF MemoryMatchesStep, GoodItems
  <2>11. LockMatchesStep(c)' /\ NewIdIsUnused(c)' /\ HoldsItsRow(c)'
    BY <2>2, <2>6, <2>9 DEF LockMatchesStep, NewIdIsUnused, HoldsItsRow
  <2>12. \A d \in Clients \ {c} : Creating(d) => loaded'[c].id # loaded[d].id
    BY <2>2, <2>6, <2>9 DEF IInv, TypeOK, MemoryMatchesStep, Creating
  <2> QED
    BY <2>7, <2>8, <2>9, <2>10, <2>11, <2>12, MoveKeepsInvariant
<1> QED
  BY <1>1, <1>2

LEMMA InsertOrderKeepsInvariant ==
    ASSUME IInv, NEW c \in Clients, InsertOrder(c)
    PROVE  IInv'
<1> DEFINE new == [loaded[c] EXCEPT !.id = nextOrder]
<1>1. /\ pc[c] = "inserting"
      /\ loaded' = [loaded EXCEPT ![c] = new]
      /\ pc' = [pc EXCEPT ![c] = "storing"]
      /\ nextOrder' = nextOrder + 1
      /\ UNCHANGED <<orders, items, nextItem, req, locks, answer, sent, overtaken>>
  BY DEF InsertOrder, Goto
<1>2. /\ req[c].op = "create" /\ loaded[c].id = 0 /\ loaded[c].inserted = {}
      /\ locks[c] = 0 /\ nextOrder \in Nat \ {0}
  BY <1>1 DEF IInv, TypeOK, MemoryMatchesStep, LockMatchesStep
<1>3. IsOrder(loaded[c])
  BY DEF IInv, TypeOK
<1>4. /\ DOMAIN new = DOMAIN loaded[c] /\ new.id = nextOrder
      /\ new.total = loaded[c].total /\ new.items = loaded[c].items
      /\ new.fresh = loaded[c].fresh /\ new.inserted = {}
  BY <1>2, <1>3 DEF IsOrder
<1> HIDE DEF new
<1>5. IsOrder(new)
  BY <1>2, <1>3, <1>4 DEF IsOrder
<1>6. TypeOK'
  <2>1. pc' \in [Clients -> Labels]
    BY <1>1 DEF IInv, TypeOK, Labels
  <2>2. DOMAIN loaded' = Clients /\ \A d \in Clients : IsOrder(loaded'[d])
    BY <1>1, <1>5 DEF IInv, TypeOK
  <2>3. nextOrder' \in Nat \ {0} /\ \A o \in DOMAIN orders' : o \in 1..(nextOrder' - 1)
    BY <1>1 DEF IInv, TypeOK
  <2> QED
    BY <1>1, <2>1, <2>2, <2>3 DEF IInv, TypeOK
<1>7. Moves(c)
  BY <1>1, <1>2 DEF IInv, TypeOK, Moves
<1>8. loaded'[c] = new /\ req'[c] = req[c] /\ locks'[c] = 0 /\ pc'[c] = "storing"
  BY <1>1, <1>2 DEF IInv, TypeOK
<1>9. MemoryMatchesStep(c)'
  <2>1. \A i \in DOMAIN loaded[c].items : i <= 0 /\ ~(i > 0)
    BY <1>1, <1>3 DEF IInv, MemoryMatchesStep, IsOrder
  <2> QED
    BY <1>1, <1>2, <1>4, <1>8, <2>1 DEF IInv, MemoryMatchesStep
<1>10. \A d \in Clients \ {c} : loaded[d].id < nextOrder
  <2> TAKE d \in Clients \ {c}
  <2>1. pc[d] \in Labels /\ loaded[d].id \in Nat /\ EmptyOrder.id = 0
    BY DEF IInv, TypeOK, IsOrder, EmptyOrder
  <2>2. MemoryMatchesStep(d)
    BY DEF IInv
  <2> QED
    BY <1>2, <2>1, <2>2 DEF MemoryMatchesStep, Labels
<1>11. nextOrder \notin DOMAIN orders
  BY <1>2 DEF IInv, TypeOK
<1>12. NewIdIsUnused(c)'
  <2>1. \A d \in Clients \ {c} : loaded'[d].id # loaded'[c].id
    BY <1>2, <1>4, <1>7, <1>8, <1>10 DEF Moves, IInv, TypeOK, IsOrder
  <2> QED
    BY <1>1, <1>4, <1>8, <1>11, <2>1 DEF NewIdIsUnused
<1>13. LockMatchesStep(c)' /\ HoldsItsRow(c)'
  BY <1>4, <1>8 DEF LockMatchesStep, HoldsItsRow
<1>14. \A d \in Clients \ {c} : Creating(d) => loaded'[c].id # loaded[d].id
  BY <1>2, <1>4, <1>8, <1>10 DEF IInv, TypeOK, IsOrder
<1> QED
  BY <1>6, <1>7, <1>8, <1>9, <1>12, <1>13, <1>14, MoveKeepsInvariant

(* The steps that write a transaction's items: INSERTs of a new order's    *)
(* items, or INSERTs and UPDATEs of a loaded order's.                      *)
SavesItems(c) ==
    /\ Storable(loaded[c])
    /\ loaded' = [loaded EXCEPT ![c] = Saved(loaded[c])]
    /\ nextItem' = nextItem + loaded[c].fresh
    /\ pc' = [pc EXCEPT ![c] = "committing"]
    /\ UNCHANGED <<orders, items, nextOrder, req, locks, answer, sent, overtaken>>

LEMMA SavesItemsKeepsInvariant ==
    ASSUME IInv, NEW c \in Clients, pc[c] \in {"storing", "writing"}, SavesItems(c),
           loaded[c].fresh > 0 /\ req[c].op # "create" => locks[c] = loaded[c].id
    PROVE  IInv'
<1> DEFINE new == Saved(loaded[c])
<1>1. /\ IsOrder(loaded[c]) /\ GoodItems(loaded[c])
      /\ \A k \in 0 .. (loaded[c].fresh - 1) : -k \in DOMAIN loaded[c].items
      /\ \A i \in DOMAIN loaded[c].items :
            i > 0 => i < nextItem /\ loaded[c].items[i].order = loaded[c].id
  <2>1. MemoryMatchesStep(c)
    BY DEF IInv
  <2>2. IsOrder(loaded[c])
    BY DEF IInv, TypeOK
  <2>3. GoodItems(loaded[c])
    BY <2>1 DEF MemoryMatchesStep, GoodItems
  <2>4. \A k \in 0 .. (loaded[c].fresh - 1) : -k \in DOMAIN loaded[c].items
    BY <2>1 DEF MemoryMatchesStep
  <2>5. \A i \in DOMAIN loaded[c].items :
            i > 0 => i < nextItem /\ loaded[c].items[i].order = loaded[c].id
    BY <2>1 DEF MemoryMatchesStep
  <2> QED
    BY <2>2, <2>3, <2>4, <2>5
<1>2. /\ IsOrder(new) /\ GoodItems(new) /\ new.id = loaded[c].id
      /\ loaded[c].fresh = 0 => new.inserted = {}
      /\ \A i \in DOMAIN new.items :
            /\ i > 0
            /\ i < nextItem + loaded[c].fresh
            /\ new.items[i].order = loaded[c].id
            /\ new.items[i].quantity <= MaxQuantity
  BY <1>1, SavedGood DEF SavesItems, IInv, TypeOK
<1>3. loaded[c].fresh \in Nat /\ nextItem \in Nat \ {0}
  BY <1>1 DEF IInv, TypeOK, IsOrder
<1>4. loaded' = [loaded EXCEPT ![c] = new]
  BY DEF SavesItems
<1> HIDE DEF new
<1>5. TypeOK'
  <2>1. pc' \in [Clients -> Labels]
    BY DEF SavesItems, IInv, TypeOK, Labels
  <2>2. DOMAIN loaded' = Clients /\ \A d \in Clients : IsOrder(loaded'[d])
    BY <1>2, <1>4 DEF IInv, TypeOK
  <2>3. nextItem' \in Nat \ {0}
    BY <1>3 DEF SavesItems
  <2>4. \A i \in DOMAIN items' : i \in 1..(nextItem' - 1) /\ items'[i] \in ItemRow
    BY <1>3, <2>3 DEF SavesItems, IInv, TypeOK
  <2> QED
    BY <2>1, <2>2, <2>3, <2>4 DEF SavesItems, IInv, TypeOK
<1>6. Moves(c)
  BY <1>3 DEF SavesItems, IInv, TypeOK, Moves
<1>7. /\ loaded'[c] = new /\ req'[c] = req[c] /\ locks'[c] = locks[c]
      /\ pc'[c] = "committing" /\ nextItem' = nextItem + loaded[c].fresh
  BY <1>4 DEF SavesItems, IInv, TypeOK
<1>8. /\ req[c].op \in Routes
      /\ req[c].op # "create" => loaded[c].id = req[c].order
      /\ loaded[c].id \in 1 .. (nextOrder - 1)
  BY DEF IInv, MemoryMatchesStep, Routes
<1>9. MemoryMatchesStep(c)'
  BY <1>2, <1>7, <1>8 DEF MemoryMatchesStep, GoodItems, SavesItems
<1>10. LockMatchesStep(c)'
  <2>1. locks[c] # 0 => locks[c] = loaded[c].id /\ locks[c] \in DOMAIN orders
    BY DEF IInv, LockMatchesStep
  <2>2. new.inserted # {} => loaded[c].fresh > 0
    BY <1>2, <1>3
  <2> QED
    BY <1>2, <1>7, <2>1, <2>2 DEF LockMatchesStep, SavesItems
<1>11. NewIdIsUnused(c)'
  <2>1. CASE req[c].op = "create"
    <3>1. pc[c] = "storing"
      BY <2>1 DEF IInv, MemoryMatchesStep
    <3>2. /\ loaded[c].id \notin DOMAIN orders
          /\ \A d \in Clients \ {c} : loaded[d].id # loaded[c].id
      BY <2>1, <3>1 DEF IInv, NewIdIsUnused
    <3>3. \A d \in Clients \ {c} : loaded'[d] = loaded[d]
      BY <1>6 DEF Moves
    <3> QED
      BY <1>2, <1>7, <3>2, <3>3 DEF NewIdIsUnused, SavesItems
  <2>2. CASE req[c].op # "create"
    BY <1>7, <2>2 DEF NewIdIsUnused
  <2> QED
    BY <2>1, <2>2
<1>12. HoldsItsRow(c)'
  <2>1. CASE pc[c] = "writing"
    BY <1>7, <2>1 DEF IInv, RowsHeldByOne, HoldsItsRow, SavesItems
  <2>2. CASE pc[c] = "storing"
    <3>1. req[c].op = "create"
      BY <2>2 DEF IInv, MemoryMatchesStep
    <3> QED
      BY <1>7, <3>1 DEF HoldsItsRow
  <2> QED
    BY <2>1, <2>2
<1>13. locks'[c] # 0 => \A d \in Clients \ {c} : locks[d] # locks'[c]
  BY <1>7 DEF IInv, RowsHeldByOne
<1>14. \A d \in Clients \ {c} : Creating(d) => loaded'[c].id # loaded[d].id
  BY <1>2, <1>7 DEF IInv, NewIdIsUnused, Creating
<1> QED
  BY <1>5, <1>6, <1>9, <1>10, <1>11, <1>12, <1>13, <1>14, MoveKeepsInvariant

LEMMA InsertItemsKeepsInvariant ==
    ASSUME IInv, NEW c \in Clients, InsertItems(c)
    PROVE  IInv'
<1>1. CASE ~Storable(loaded[c])
  BY <1>1, LeaveKeepsInvariant DEF InsertItems
<1>2. CASE Storable(loaded[c])
  <2>1. pc[c] = "storing" /\ SavesItems(c)
    BY <1>2 DEF InsertItems, Goto, SavesItems
  <2>2. req[c].op = "create"
    BY <2>1 DEF IInv, MemoryMatchesStep
  <2> QED
    BY <2>1, <2>2, SavesItemsKeepsInvariant
<1> QED
  BY <1>1, <1>2

LEMMA WriteItemsKeepsInvariant ==
    ASSUME IInv, NEW c \in Clients, WriteItems(c)
    PROVE  IInv'
<1> DEFINE accepted == /\ Storable(loaded[c])
                       /\ loaded[c].fresh > 0 => ReferencesOrder(loaded[c].id)
<1>1. CASE ~accepted
  BY <1>1, LeaveKeepsInvariant DEF WriteItems
<1>2. CASE accepted
  <2>1. pc[c] = "writing" /\ SavesItems(c)
    BY <1>2 DEF WriteItems, Goto, SavesItems
  <2>2. req[c].op # "create" /\ loaded[c].id = req[c].order
    BY <2>1 DEF IInv, MemoryMatchesStep
  <2>3. loaded[c].fresh > 0 => locks[c] = loaded[c].id
    BY <1>2, <2>1, <2>2 DEF ReferencesOrder, IInv, RowsHeldByOne, HoldsItsRow
  <2> QED
    BY <2>1, <2>3, SavesItemsKeepsInvariant
<1> QED
  BY <1>1, <1>2

LEMMA ReadOrderKeepsInvariant ==
    ASSUME IInv, NEW c \in Clients, ReadOrder(c)
    PROVE  IInv'
<1> DEFINE o   == req[c].order
           new == [loaded[c] EXCEPT !.id = o, !.status = orders[o].status,
                                    !.total = orders[o].total]
<1>1. CASE o \notin DOMAIN orders
  BY <1>1, LeaveKeepsInvariant DEF ReadOrder
<1>2. CASE o \in DOMAIN orders
  <2>1. /\ pc[c] = "reading"
        /\ loaded' = [loaded EXCEPT ![c] = new]
        /\ pc' = [pc EXCEPT ![c] = "loading"]
        /\ UNCHANGED <<orders, items, nextOrder, nextItem, req, locks, answer, sent,
                       overtaken>>
    BY <1>2 DEF ReadOrder, Goto
  <2>2. /\ loaded[c] = EmptyOrder /\ locks[c] = 0
        /\ req[c].op \in Routes \ {"create"}
    BY <2>1 DEF IInv, MemoryMatchesStep, LockMatchesStep
  <2>3. o \in 1 .. (nextOrder - 1) /\ orders[o].total \in Cents /\ nextOrder \in Nat
    BY <1>2 DEF IInv, TypeOK
  <2>4. /\ DOMAIN new = {"id", "status", "total", "items", "fresh", "inserted"}
        /\ new.id = o /\ new.total = orders[o].total /\ new.items = <<>>
        /\ new.fresh = 0 /\ new.inserted = {}
    BY <2>2 DEF EmptyOrder
  <2> HIDE DEF new, o
  <2>5. DOMAIN new.items = {}
    BY <2>4
  <2>6. IsOrder(new)
    BY <2>3, <2>4, <2>5 DEF IsOrder
  <2>7. TypeOK'
    <3>1. pc' \in [Clients -> Labels]
      BY <2>1 DEF IInv, TypeOK, Labels
    <3>2. DOMAIN loaded' = Clients /\ \A d \in Clients : IsOrder(loaded'[d])
      BY <2>1, <2>6 DEF IInv, TypeOK
    <3> QED
      BY <2>1, <3>1, <3>2 DEF IInv, TypeOK
  <2>8. Moves(c)
    BY <2>1 DEF IInv, TypeOK, Moves
  <2>9. loaded'[c] = new /\ req'[c] = req[c] /\ locks'[c] = 0 /\ pc'[c] = "loading"
    BY <2>1, <2>2 DEF IInv, TypeOK
  <2>10. MemoryMatchesStep(c)'
    BY <2>1, <2>2, <2>3, <2>4, <2>5, <2>9 DEF MemoryMatchesStep, o
  <2>11. LockMatchesStep(c)' /\ NewIdIsUnused(c)' /\ HoldsItsRow(c)'
    BY <2>4, <2>9 DEF LockMatchesStep, NewIdIsUnused, HoldsItsRow
  <2>12. \A d \in Clients \ {c} : Creating(d) => loaded'[c].id # loaded[d].id
    BY <1>2, <2>4, <2>9 DEF IInv, NewIdIsUnused, Creating, o
  <2> QED
    BY <2>7, <2>8, <2>9, <2>10, <2>11, <2>12, MoveKeepsInvariant
<1> QED
  BY <1>1, <1>2

LEMMA ReadItemsKeepsInvariant ==
    ASSUME IInv, NEW c \in Clients, ReadItems(c)
    PROVE  IInv'
<1> DEFINE r     == req[c]
           rows  == Restrict(items, ItemsOf(r.order))
           order == [loaded[c] EXCEPT !.items = rows]
           new   == Applied(order, r)
<1>1. CASE r.op = "get" /\ Leave(c, 200)
  BY <1>1, LeaveKeepsInvariant
<1>2. CASE DomainError(order, r) # 0 /\ Leave(c, DomainError(order, r))
  <2>1. DomainError(order, r) \in {0, 400, 404}
    BY DEF DomainError
  <2> QED
    BY <1>2, <2>1, LeaveKeepsInvariant
<1>3. CASE /\ r.op # "get" /\ DomainError(order, r) = 0
           /\ loaded' = [loaded EXCEPT ![c] = new]
           /\ Goto(c, IF r.op = "delete" THEN "deleting" ELSE "updating")
           /\ UNCHANGED <<orders, items, nextOrder, nextItem, req, locks, answer,
                          sent, overtaken>>
  <2>1. pc[c] = "loading"
    BY DEF ReadItems
  <2>2. /\ r.op \in Routes \ {"create"} /\ loaded[c].id = r.order
        /\ loaded[c].fresh = 0 /\ loaded[c].inserted = {}
        /\ loaded[c].id \in 1 .. (nextOrder - 1) /\ locks[c] = 0
    BY <2>1 DEF IInv, MemoryMatchesStep, LockMatchesStep
  <2>3. r \in Request
    BY <2>2 DEF IInv, TypeOK, NoRequest, Routes
  <2>4. \A i \in ItemsOf(r.order) :
           /\ i \in 1 .. (nextItem - 1) /\ items[i].order = r.order
           /\ items[i] \in ItemRow /\ GoodItem(items[i])
    BY DEF IInv, TypeOK, ItemRowsConsistent, ItemsOf
  <2>5. /\ DOMAIN rows = ItemsOf(r.order)
        /\ \A i \in ItemsOf(r.order) : rows[i] = items[i]
    BY RestrictIds, RestrictRow
  <2> HIDE DEF rows
  <2>6. IsOrder(loaded[c]) /\ nextItem \in Nat
    BY DEF IInv, TypeOK
  <2>7. /\ DOMAIN order = DOMAIN loaded[c] /\ order.items = rows
        /\ order.id = loaded[c].id /\ order.total = loaded[c].total
        /\ order.fresh = 0 /\ order.inserted = {}
    BY <2>2, <2>6 DEF IsOrder
  <2> HIDE DEF order
  <2>8. \A i \in DOMAIN order.items :
           /\ i \in Int /\ i < nextItem
           /\ order.items[i] \in ItemRow /\ GoodItem(order.items[i])
           /\ order.items[i].order = order.id
    BY <2>2, <2>4, <2>5, <2>6, <2>7
  <2>9. IsOrder(order) /\ GoodItems(order)
    BY <2>6, <2>7, <2>8 DEF IsOrder, GoodItems
  <2> HIDE DEF r
  <2>10. /\ IsOrder(new) /\ GoodItems(new) /\ new.id = order.id /\ new.inserted = {}
         /\ \A k \in 0 .. (new.fresh - 1) : -k \in DOMAIN new.items
         /\ \A i \in DOMAIN new.items :
               i > 0 => /\ i \in DOMAIN order.items
                        /\ new.items[i].order = order.items[i].order
    BY <1>3, <2>3, <2>7, <2>9, AppliedGood
  <2> HIDE DEF new
  <2>11. TypeOK'
    <3>1. pc' \in [Clients -> Labels]
      BY <1>3 DEF Goto, IInv, TypeOK, Labels
    <3>2. DOMAIN loaded' = Clients /\ \A d \in Clients : IsOrder(loaded'[d])
      BY <1>3, <2>10 DEF IInv, TypeOK
    <3> QED
      BY <1>3, <3>1, <3>2 DEF IInv, TypeOK
  <2>12. Moves(c)
    BY <1>3 DEF Goto, IInv, TypeOK, Moves
  <2>13. /\ loaded'[c] = new /\ req'[c] = r /\ locks'[c] = 0
         /\ pc'[c] = IF r.op = "delete" THEN "deleting" ELSE "updating"
    BY <1>3, <2>2 DEF Goto, IInv, TypeOK, r
  <2>14. \A i \in DOMAIN new.items : i > 0 => i < nextItem /\ new.items[i].order = new.id
    BY <2>8, <2>10
  <2>15. MemoryMatchesStep(c)'
    BY <1>3, <2>2, <2>7, <2>10, <2>13, <2>14 DEF MemoryMatchesStep, GoodItems
  <2>16. LockMatchesStep(c)' /\ NewIdIsUnused(c)' /\ HoldsItsRow(c)'
    BY <2>10, <2>13 DEF LockMatchesStep, NewIdIsUnused, HoldsItsRow
  <2>17. \A d \in Clients \ {c} : Creating(d) => loaded'[c].id # loaded[d].id
    BY <2>7, <2>10, <2>13 DEF IInv, NewIdIsUnused, Creating
  <2> QED
    BY <2>11, <2>12, <2>13, <2>15, <2>16, <2>17, MoveKeepsInvariant
<1> QED
  BY <1>1, <1>2, <1>3 DEF ReadItems

(* Waiting for and taking the order row's lock.                            *)
LEMMA LockOrderKeepsInvariant ==
    ASSUME IInv, NEW c \in Clients, NEW next,
           \/ pc[c] = "updating" /\ next = "writing"
           \/ pc[c] = "deleting" /\ next = "committing",
           LockOrder(c, next)
    PROVE  IInv'
<1> DEFINE o == req[c].order
<1>1. /\ Unlocked(o)
      /\ locks' = [locks EXCEPT ![c] = IF o \in DOMAIN orders THEN o ELSE 0]
      /\ pc' = [pc EXCEPT ![c] = next]
      /\ UNCHANGED <<orders, items, nextOrder, nextItem, req, loaded, answer, sent,
                     overtaken>>
  BY DEF LockOrder, Goto
<1>2. /\ loaded[c].id = o /\ req[c].op \in Routes \ {"create"}
      /\ loaded[c].inserted = {} /\ o \in 1 .. (nextOrder - 1)
      /\ next = "committing" => req[c].op = "delete"
  BY DEF IInv, MemoryMatchesStep
<1> HIDE DEF o
<1>3. TypeOK'
  <2>1. pc' \in [Clients -> Labels]
    BY <1>1 DEF IInv, TypeOK, Labels
  <2>2. locks' \in [Clients -> Nat]
    BY <1>1, <1>2 DEF IInv, TypeOK
  <2> QED
    BY <1>1, <2>1, <2>2 DEF IInv, TypeOK
<1>4. Moves(c)
  BY <1>1 DEF IInv, TypeOK, Moves
<1>5. /\ loaded'[c] = loaded[c] /\ req'[c] = req[c] /\ pc'[c] = next
      /\ locks'[c] = IF o \in DOMAIN orders THEN o ELSE 0
  BY <1>1 DEF IInv, TypeOK
<1>6. MemoryMatchesStep(c)'
  <2>1. MemoryMatchesStep(c)
    BY DEF IInv
  <2> QED
    BY <1>1, <1>2, <1>5, <2>1 DEF MemoryMatchesStep, o
<1>7. LockMatchesStep(c)' /\ NewIdIsUnused(c)' /\ HoldsItsRow(c)'
  BY <1>1, <1>2, <1>5 DEF LockMatchesStep, NewIdIsUnused, HoldsItsRow, o
<1>8. locks'[c] # 0 => \A d \in Clients \ {c} : locks[d] # locks'[c]
  BY <1>1, <1>5 DEF Unlocked
<1>9. \A d \in Clients \ {c} : Creating(d) => loaded'[c].id # loaded[d].id
  BY <1>5 DEF IInv, NewIdIsUnused, Creating
<1> QED
  BY <1>3, <1>4, <1>6, <1>7, <1>8, <1>9, MoveKeepsInvariant

LEMMA UpdateOrderKeepsInvariant ==
    ASSUME IInv, NEW c \in Clients, UpdateOrder(c)
    PROVE  IInv'
<1>1. CASE Leave(c, 500)
  BY <1>1, LeaveKeepsInvariant
<1>2. CASE pc[c] = "updating" /\ LockOrder(c, "writing")
  BY <1>2, LockOrderKeepsInvariant
<1> QED
  BY <1>1, <1>2 DEF UpdateOrder

LEMMA DeleteOrderKeepsInvariant ==
    ASSUME IInv, NEW c \in Clients, DeleteOrder(c)
    PROVE  IInv'
BY LockOrderKeepsInvariant DEF DeleteOrder

(* What a COMMIT makes of the tables: only the handler's own order appears *)
(* or disappears, the latter only under its row's lock, and every item row *)
(* is good and belongs to an order that exists.                            *)
RowsAfterCommit(c) ==
    /\ \A o \in DOMAIN orders' : o \in 1 .. (nextOrder - 1) /\ orders'[o].total \in Cents
    /\ \A i \in DOMAIN items' :
          /\ i \in 1 .. (nextItem - 1)
          /\ GoodItem(items'[i])
          /\ items'[i].quantity <= MaxQuantity
          /\ items'[i].order \in DOMAIN orders'
    /\ \A o \in DOMAIN orders' :
          o \in DOMAIN orders \/ (o = loaded[c].id /\ req[c].op = "create")
    /\ \A o \in DOMAIN orders : o \in DOMAIN orders' \/ o = locks[c]

(* The item table written by a handler that did not delete.                *)
LEMMA WrittenItemsAreGood ==
    ASSUME IInv, NEW c \in Clients, pc[c] = "committing", req[c].op # "delete",
           NEW i \in DOMAIN ItemsWritten(loaded[c])
    PROVE  /\ i \in 1 .. (nextItem - 1)
           /\ GoodItem(ItemsWritten(loaded[c])[i])
           /\ ItemsWritten(loaded[c])[i].quantity <= MaxQuantity
           /\ \/ ItemsWritten(loaded[c])[i].order \in DOMAIN orders
              \/ req[c].op = "create" /\ ItemsWritten(loaded[c])[i].order = loaded[c].id
<1> DEFINE order   == loaded[c]
           written == ItemsWritten(order)
<1>1. /\ order.inserted \subseteq DOMAIN order.items
      /\ \A k \in DOMAIN order.items : k \in Int
      /\ nextItem \in Nat
  BY DEF IInv, TypeOK, IsOrder
<1>2. \A k \in DOMAIN order.items :
         /\ k > 0 /\ k < nextItem
         /\ GoodItem(order.items[k])
         /\ order.items[k].quantity <= MaxQuantity
         /\ order.items[k].order = order.id
  BY DEF IInv, MemoryMatchesStep
<1>3. \A k \in DOMAIN items :
         /\ k \in 1 .. (nextItem - 1)
         /\ GoodItem(items[k]) /\ items[k].quantity <= MaxQuantity
         /\ items[k].order \in DOMAIN orders
  BY DEF IInv, TypeOK, ItemRowsConsistent, NoOrphanItems
<1>4. order.inserted # {} /\ req[c].op # "create" => order.id \in DOMAIN orders
  <2>1. order.id \in 1 .. (nextOrder - 1) /\ nextOrder \in Nat
    BY DEF IInv, TypeOK, MemoryMatchesStep
  <2> QED
    BY <2>1 DEF IInv, LockMatchesStep
<1>5. \/ i \in DOMAIN items /\ written[i] = items[i]
      \/ /\ i \in DOMAIN order.items
         /\ written[i] = order.items[i]
         /\ \/ i \in order.inserted
            \/ i \in DOMAIN items /\ items[i].order = order.id
  BY <1>1, ItemsWrittenRows
<1> HIDE DEF order, written
<1>6. /\ i \in 1 .. (nextItem - 1)
      /\ GoodItem(written[i])
      /\ written[i].quantity <= MaxQuantity
      /\ \/ written[i].order \in DOMAIN orders
         \/ req[c].op = "create" /\ written[i].order = order.id
  <2>1. CASE i \in DOMAIN items /\ written[i] = items[i]
    BY <1>3, <2>1
  <2>2. CASE i \in DOMAIN order.items /\ written[i] = order.items[i] /\ i \in order.inserted
    BY <1>1, <1>2, <1>4, <2>2
  <2>3. CASE /\ i \in DOMAIN order.items /\ written[i] = order.items[i]
             /\ i \in DOMAIN items /\ items[i].order = order.id
    BY <1>2, <1>3, <2>3
  <2> QED
    BY <1>5, <2>1, <2>2, <2>3
<1> QED
  BY <1>6 DEF written, order

LEMMA CommitWritesGoodRows ==
    ASSUME IInv, NEW c \in Clients, pc[c] = "committing", InstallRows(c)
    PROVE  RowsAfterCommit(c)
<1> DEFINE order == loaded[c]
<1>1. order.id \in 1 .. (nextOrder - 1) /\ Row(order).total \in Cents
  BY DEF IInv, TypeOK, MemoryMatchesStep, IsOrder, Row
<1>2. \A o \in DOMAIN orders : o \in 1 .. (nextOrder - 1) /\ orders[o].total \in Cents
  BY DEF IInv, TypeOK
<1>3. req[c].op # "create" /\ order.id \in DOMAIN orders => locks[c] = order.id
  BY DEF IInv, RowsHeldByOne, HoldsItsRow, MemoryMatchesStep
<1>4. CASE req[c].op = "create"
  <2>1. orders' = Put(orders, order.id, Row(order)) /\ items' = ItemsWritten(order)
    BY <1>4 DEF InstallRows, CreateRows
  <2>2. /\ DOMAIN orders' = DOMAIN orders \cup {order.id}
        /\ orders'[order.id] = Row(order)
        /\ \A o \in DOMAIN orders \ {order.id} : orders'[o] = orders[o]
    <3>1. DOMAIN orders' = DOMAIN orders \cup {order.id}
      BY <2>1, PutDomain
    <3>2. orders'[order.id] = Row(order)
      BY <2>1, PutNew
    <3>3. \A o \in DOMAIN orders \ {order.id} : orders'[o] = orders[o]
      BY <2>1, PutOld
    <3> QED
      BY <3>1, <3>2, <3>3
  <2>3. \A o \in DOMAIN orders' : o \in 1 .. (nextOrder - 1) /\ orders'[o].total \in Cents
    BY <1>1, <1>2, <2>2
  <2>4. \A i \in DOMAIN items' :
           /\ i \in 1 .. (nextItem - 1) /\ GoodItem(items'[i])
           /\ items'[i].quantity <= MaxQuantity
           /\ items'[i].order \in DOMAIN orders'
    <3> TAKE i \in DOMAIN items'
    <3>1. /\ i \in 1 .. (nextItem - 1) /\ GoodItem(items'[i])
          /\ items'[i].quantity <= MaxQuantity
          /\ items'[i].order \in DOMAIN orders \/ items'[i].order = order.id
      BY <1>4, <2>1, WrittenItemsAreGood
    <3> QED
      BY <2>2, <3>1
  <2>5. /\ \A o \in DOMAIN orders' :
              o \in DOMAIN orders \/ (o = loaded[c].id /\ req[c].op = "create")
        /\ \A o \in DOMAIN orders : o \in DOMAIN orders' \/ o = locks[c]
    BY <1>4, <2>2
  <2> QED
    BY <2>3, <2>4, <2>5 DEF RowsAfterCommit
<1>5. CASE req[c].op = "delete"
  <2> DEFINE others == DOMAIN orders \ {order.id}
             kept   == DOMAIN items \ ItemsOf(order.id)
  <2>1. orders' = Restrict(orders, others) /\ items' = Restrict(items, kept)
    BY <1>5 DEF InstallRows, DeleteRows
  <2>2. /\ DOMAIN orders' = others /\ DOMAIN items' = kept
        /\ \A o \in others : orders'[o] = orders[o]
        /\ \A i \in kept : items'[i] = items[i]
    BY <2>1, RestrictIds, RestrictRow
  <2>3. \A o \in DOMAIN orders' : o \in 1 .. (nextOrder - 1) /\ orders'[o].total \in Cents
    BY <1>2, <2>2
  <2>4. \A i \in DOMAIN items' :
           /\ i \in 1 .. (nextItem - 1) /\ GoodItem(items'[i])
           /\ items'[i].quantity <= MaxQuantity
           /\ items'[i].order \in DOMAIN orders'
    <3> SUFFICES ASSUME NEW i \in kept
                 PROVE  /\ i \in 1 .. (nextItem - 1) /\ GoodItem(items[i])
                        /\ items[i].quantity <= MaxQuantity
                        /\ items[i].order \in others
      BY <2>2
    <3>1. i \in 1 .. (nextItem - 1) /\ items[i].order \in DOMAIN orders
      BY DEF IInv, TypeOK, NoOrphanItems
    <3>2. GoodItem(items[i]) /\ items[i].quantity <= MaxQuantity
      BY DEF IInv, ItemRowsConsistent
    <3>3. items[i].order # order.id
      BY DEF ItemsOf
    <3> QED
      BY <3>1, <3>2, <3>3
  <2>5. /\ \A o \in DOMAIN orders' : o \in DOMAIN orders
        /\ \A o \in DOMAIN orders : o \in DOMAIN orders' \/ o = locks[c]
    BY <1>3, <1>5, <2>2
  <2> HIDE DEF order, others, kept
  <2> QED
    BY <2>3, <2>4, <2>5 DEF RowsAfterCommit
<1>6. CASE req[c].op \notin {"create", "delete"}
  <2>1. /\ orders' = IF order.id \in DOMAIN orders
                     THEN Put(orders, order.id, Row(order)) ELSE orders
        /\ items' = ItemsWritten(order)
    BY <1>6 DEF InstallRows, UpdateRows
  <2>2. DOMAIN orders' = DOMAIN orders
    <3>1. CASE order.id \in DOMAIN orders
      <4>1. DOMAIN orders' = DOMAIN orders \cup {order.id}
        BY <2>1, <3>1, PutDomain
      <4> QED
        BY <3>1, <4>1
    <3>2. CASE order.id \notin DOMAIN orders
      BY <2>1, <3>2
    <3> QED
      BY <3>1, <3>2
  <2>3. \A o \in DOMAIN orders : orders'[o] = orders[o] \/ orders'[o] = Row(order)
    <3>1. CASE order.id \in DOMAIN orders
      <4>1. orders' = Put(orders, order.id, Row(order))
        BY <2>1, <3>1
      <4>2. /\ orders'[order.id] = Row(order)
            /\ \A o \in DOMAIN orders \ {order.id} : orders'[o] = orders[o]
        BY <4>1, PutNew, PutOld
      <4> QED
        BY <4>2
    <3>2. CASE order.id \notin DOMAIN orders
      BY <2>1, <3>2
    <3> QED
      BY <3>1, <3>2
  <2>4. \A o \in DOMAIN orders' : o \in 1 .. (nextOrder - 1) /\ orders'[o].total \in Cents
    BY <1>1, <1>2, <2>2, <2>3
  <2>5. \A i \in DOMAIN items' :
           /\ i \in 1 .. (nextItem - 1) /\ GoodItem(items'[i])
           /\ items'[i].quantity <= MaxQuantity
           /\ items'[i].order \in DOMAIN orders'
    BY <1>6, <2>1, <2>2, WrittenItemsAreGood
  <2> QED
    BY <2>2, <2>4, <2>5 DEF RowsAfterCommit
<1> QED
  BY <1>4, <1>5, <1>6

LEMMA InstallKeepsInvariant ==
    ASSUME IInv, NEW c \in Clients, NEW code \in {200, 201, 204, 500},
           pc[c] = "committing", Install(c, code)
    PROVE  IInv'
<1>1. RowsAfterCommit(c)
  BY CommitWritesGoodRows DEF Install
<1>2. /\ pc'[c] = "idle" /\ loaded'[c] = EmptyOrder /\ locks'[c] = 0
      /\ nextOrder' = nextOrder /\ nextItem' = nextItem /\ sent' = sent
  BY DEF Install, Answer, Goto, IInv, TypeOK
<1>3. \A d \in Clients \ {c} :
         /\ pc'[d] = pc[d] /\ req'[d] = req[d]
         /\ loaded'[d] = loaded[d] /\ locks'[d] = locks[d]
  BY DEF Install, Answer, Goto, IInv, TypeOK
<1>4. /\ EmptyOrder.id = 0 /\ EmptyOrder.inserted = {} /\ EmptyOrder.fresh = 0
      /\ DOMAIN EmptyOrder.items = {}
  BY DEF EmptyOrder
<1>5. TypeOK'
  <2>1. DOMAIN loaded' = Clients /\ \A d \in Clients : IsOrder(loaded'[d])
    <3>1. IsOrder(EmptyOrder)
      BY HalfAssumption DEF IsOrder, EmptyOrder, Cents
    <3> QED
      BY <3>1 DEF Install, Answer, IInv, TypeOK
  <2>2. /\ pc' \in [Clients -> Labels]
        /\ req' \in [Clients -> Request \cup {NoRequest}]
        /\ locks' \in [Clients -> Nat]
        /\ answer' \in [Clients -> {0, 200, 201, 204, 400, 404, 500}]
    BY DEF Install, Answer, Goto, IInv, TypeOK, Labels
  <2>3. overtaken' \subseteq Clients
    BY DEF Install, Readers, IInv, TypeOK
  <2>4. \A i \in DOMAIN items' : i \in 1..(nextItem - 1) /\ items'[i] \in ItemRow
    BY <1>1 DEF RowsAfterCommit, GoodItem
  <2> QED
    BY <1>1, <1>2, <2>1, <2>2, <2>3, <2>4 DEF RowsAfterCommit, IInv, TypeOK
<1>6. ItemRowsConsistent' /\ NoOrphanItems'
  BY <1>1 DEF RowsAfterCommit, ItemRowsConsistent, NoOrphanItems
<1>7. ASSUME NEW d \in Clients, NEW e \in Clients, locks'[d] = locks'[e], locks'[d] # 0
      PROVE  d = e
  <2>1. d # c /\ e # c
    BY <1>2, <1>7
  <2> QED
    BY <1>3, <1>7, <2>1 DEF IInv, RowsHeldByOne
<1>8. ASSUME NEW d \in Clients \ {c}
      PROVE  /\ HoldsItsRow(d)' /\ MemoryMatchesStep(d)'
             /\ LockMatchesStep(d)' /\ NewIdIsUnused(d)'
  <2>1. HoldsItsRow(d)'
    <3> SUFFICES ASSUME pc[d] \in {"writing", "committing"}, req[d].op # "create",
                        req[d].order \in DOMAIN orders'
                 PROVE  locks[d] = req[d].order
      BY <1>3 DEF HoldsItsRow
    <3>1. loaded[d].id = req[d].order
      BY DEF IInv, MemoryMatchesStep
    <3>2. req[c].op = "create" => loaded[d].id # loaded[c].id
      BY DEF IInv, NewIdIsUnused
    <3>3. req[d].order \in DOMAIN orders
      BY <1>1, <3>1, <3>2 DEF RowsAfterCommit
    <3> QED
      BY <3>3 DEF IInv, RowsHeldByOne, HoldsItsRow
  <2>2. MemoryMatchesStep(d)'
    BY <1>2, <1>3 DEF IInv, MemoryMatchesStep
  <2>3. LockMatchesStep(d)'
    <3>1. LockMatchesStep(d)
      BY DEF IInv
    <3>2. locks[d] # 0 => locks[d] # locks[c]
      BY DEF IInv, RowsHeldByOne
    <3>3. locks[d] # 0 => locks[d] \in DOMAIN orders'
      BY <1>1, <3>1, <3>2 DEF RowsAfterCommit, LockMatchesStep
    <3> QED
      BY <1>3, <3>1, <3>3 DEF LockMatchesStep
  <2>4. NewIdIsUnused(d)'
    <3> SUFFICES ASSUME Creating(d)
                 PROVE  /\ loaded[d].id \notin DOMAIN orders'
                        /\ \A e \in Clients \ {d} : loaded'[e].id # loaded[d].id
      BY <1>3 DEF NewIdIsUnused, Creating
    <3>1. /\ loaded[d].id \notin DOMAIN orders
          /\ \A e \in Clients \ {d} : loaded[e].id # loaded[d].id
      BY DEF IInv, NewIdIsUnused, Creating
    <3>2. loaded[d].id \notin DOMAIN orders'
      BY <1>1, <3>1 DEF RowsAfterCommit
    <3>3. loaded[d].id # 0
      <4>1. loaded[d].id \in 1 .. (nextOrder - 1) /\ nextOrder \in Nat
        BY DEF Creating, IInv, TypeOK, MemoryMatchesStep
      <4> QED
        BY <4>1
    <3> QED
      BY <1>2, <1>3, <1>4, <3>1, <3>2, <3>3
  <2> QED
    BY <2>1, <2>2, <2>3, <2>4
<1>9. HoldsItsRow(c)' /\ LockMatchesStep(c)' /\ NewIdIsUnused(c)'
  BY <1>2, <1>4 DEF HoldsItsRow, LockMatchesStep, NewIdIsUnused
<1>10. MemoryMatchesStep(c)'
  BY <1>2, <1>4 DEF MemoryMatchesStep
<1> QED
  BY <1>5, <1>6, <1>7, <1>8, <1>9, <1>10 DEF IInv, RowsHeldByOne

LEMMA CommitKeepsInvariant ==
    ASSUME IInv, NEW c \in Clients, Commit(c)
    PROVE  IInv'
<1>1. Success(req[c].op) \in {200, 201, 204, 500}
  BY DEF Success
<1> QED
  BY <1>1, InstallKeepsInvariant DEF Commit

LEMMA FailKeepsInvariant ==
    ASSUME IInv, NEW c \in Clients, Fail(c)
    PROVE  IInv'
<1>1. CASE Leave(c, 500)
  BY <1>1, LeaveKeepsInvariant
<1>2. CASE Leave(c, 404)
  BY <1>2, LeaveKeepsInvariant
<1>3. CASE pc[c] = "committing" /\ Install(c, 500)
  BY <1>3, InstallKeepsInvariant
<1> QED
  BY <1>1, <1>2, <1>3 DEF Fail

-----------------------------------------------------------------------------
(* The invariant holds at first, and every step keeps it.                  *)

LEMMA InitEstablishesInvariant == Init => IInv
<1> SUFFICES ASSUME Init PROVE IInv
  OBVIOUS
<1>1. /\ DOMAIN orders = {} /\ DOMAIN items = {}
      /\ \A c \in Clients : /\ pc[c] = "idle" /\ req[c] = NoRequest
                           /\ loaded[c] = EmptyOrder /\ locks[c] = 0
  BY DEF Init
<1>2. /\ EmptyOrder.id = 0 /\ EmptyOrder.inserted = {} /\ EmptyOrder.fresh = 0
      /\ DOMAIN EmptyOrder.items = {} /\ IsOrder(EmptyOrder)
  BY HalfAssumption DEF EmptyOrder, IsOrder, Cents
<1>3. TypeOK
  BY <1>1, <1>2, RequestsAssumption DEF Init, TypeOK, Labels
<1>4. ItemRowsConsistent /\ NoOrphanItems
  BY <1>1 DEF ItemRowsConsistent, NoOrphanItems
<1>5. ASSUME NEW c \in Clients
      PROVE  /\ HoldsItsRow(c) /\ MemoryMatchesStep(c)
             /\ LockMatchesStep(c) /\ NewIdIsUnused(c)
  BY <1>1, <1>2 DEF HoldsItsRow, MemoryMatchesStep, LockMatchesStep, NewIdIsUnused
<1> QED
  BY <1>1, <1>3, <1>4, <1>5 DEF IInv, RowsHeldByOne

LEMMA StutteringKeepsInvariant == IInv /\ UNCHANGED vars => IInv'
<1> SUFFICES ASSUME IInv, UNCHANGED vars PROVE IInv'
  OBVIOUS
<1>1. TypeOK'
  BY DEF vars, IInv, TypeOK
<1>2. ItemRowsConsistent' /\ NoOrphanItems' /\ RowsHeldByOne'
  BY DEF vars, IInv, ItemRowsConsistent, NoOrphanItems, RowsHeldByOne, HoldsItsRow
<1>3. \A c \in Clients : MemoryMatchesStep(c)' /\ LockMatchesStep(c)' /\ NewIdIsUnused(c)'
  BY DEF vars, IInv, MemoryMatchesStep, LockMatchesStep, NewIdIsUnused
<1> QED
  BY <1>1, <1>2, <1>3 DEF IInv

LEMMA NextKeepsInvariant == IInv /\ [Next]_vars => IInv'
<1> SUFFICES ASSUME IInv, [Next]_vars PROVE IInv'
  OBVIOUS
<1>1. ASSUME NEW c \in Clients, NEW op \in Commands, NEW r \in Requests(op), Submit(c, r)
      PROVE  IInv'
  BY <1>1, SubmitKeepsInvariant
<1>2. ASSUME NEW c \in Clients, Serve(c) PROVE IInv'
  <2>1. CASE BuildLine(c)
    BY <2>1, BuildLineKeepsInvariant
  <2>2. CASE InsertOrder(c)
    BY <2>2, InsertOrderKeepsInvariant
  <2>3. CASE InsertItems(c)
    BY <2>3, InsertItemsKeepsInvariant
  <2>4. CASE ReadOrder(c)
    BY <2>4, ReadOrderKeepsInvariant
  <2>5. CASE ReadItems(c)
    BY <2>5, ReadItemsKeepsInvariant
  <2>6. CASE UpdateOrder(c)
    BY <2>6, UpdateOrderKeepsInvariant
  <2>7. CASE WriteItems(c)
    BY <2>7, WriteItemsKeepsInvariant
  <2>8. CASE DeleteOrder(c)
    BY <2>8, DeleteOrderKeepsInvariant
  <2>9. CASE Commit(c)
    BY <2>9, CommitKeepsInvariant
  <2> QED
    BY <1>2, <2>1, <2>2, <2>3, <2>4, <2>5, <2>6, <2>7, <2>8, <2>9 DEF Serve
<1>3. ASSUME NEW c \in Clients, Fail(c) PROVE IInv'
  BY <1>3, FailKeepsInvariant
<1>4. CASE UNCHANGED vars
  BY <1>4, StutteringKeepsInvariant
<1> QED
  BY <1>1, <1>2, <1>3, <1>4 DEF Next, Done

(* IInv holds of every reachable state, whatever the constants.            *)
THEOREM Invariance == Spec => []IInv
BY InitEstablishesInvariant, NextKeepsInvariant, PTL DEF Spec

(* Ids, money and the handlers' memory keep the types of their columns and *)
(* Go values.                                                              *)
THEOREM TypeCorrect == Spec => []TypeOK
<1>1. IInv => TypeOK
  BY DEF IInv
<1> QED
  BY <1>1, Invariance, PTL

(* However many requests race on an order, no item row holds a subtotal    *)
(* that is not its own quantity times its own price, nor a value that      *)
(* validation or the column refuses.                                       *)
THEOREM RowsConsistent == Spec => []ItemRowsConsistent
<1>1. IInv => ItemRowsConsistent
  BY DEF IInv
<1> QED
  BY <1>1, Invariance, PTL

(* No interleaving of a delete with handlers that had read the order       *)
(* leaves an item row without its order.                                   *)
THEOREM ItemsHaveTheirOrder == Spec => []NoOrphanItems
<1>1. IInv => NoOrphanItems
  BY DEF IInv
<1> QED
  BY <1>1, Invariance, PTL

(* Transactions that write the same order commit one after the other.      *)
THEOREM WritersAreSerial == Spec => []RowsHeldByOne
<1>1. IInv => RowsHeldByOne
  BY DEF IInv
<1> QED
  BY <1>1, Invariance, PTL

(* The tables change in COMMIT steps only, and an order's row appears only *)
(* in the COMMIT of the handler that created it: a handler that loaded an  *)
(* order before it was deleted does not bring it back.                     *)
THEOREM DeletedOrdersStayDeleted == Spec => DeletedStaysDeleted
<1> DEFINE Created == \A o \in DOMAIN orders' \ DOMAIN orders :
                         \E c \in Clients : req[c].op = "create" /\ loaded[c].id = o
<1>1. IInv /\ [Next]_vars => [Created]_vars
  <2> SUFFICES ASSUME IInv, Next PROVE Created
    BY DEF vars
  <2>1. ASSUME NEW c \in Clients, NEW code \in {200, 201, 204, 500},
               pc[c] = "committing", Install(c, code)
        PROVE  Created
    <3>1. RowsAfterCommit(c)
      BY <2>1, CommitWritesGoodRows DEF Install
    <3> QED
      BY <3>1 DEF RowsAfterCommit
  <2>2. CASE orders' = orders
    BY <2>2
  <2>3. \/ orders' = orders
        \/ \E c \in Clients, code \in {200, 201, 204, 500} :
              pc[c] = "committing" /\ Install(c, code)
    <3>1. ASSUME NEW c \in Clients, NEW op \in Commands, NEW r \in Requests(op),
                 Submit(c, r)
          PROVE  orders' = orders
      BY <3>1 DEF Submit
    <3>2. ASSUME NEW c \in Clients, Serve(c), ~Commit(c) PROVE orders' = orders
      BY <3>2 DEF Serve, BuildLine, InsertOrder, InsertItems, ReadOrder, ReadItems,
                  UpdateOrder, WriteItems, DeleteOrder, LockOrder, Leave
    <3>3. ASSUME NEW c \in Clients, Commit(c)
          PROVE  \E code \in {200, 201, 204, 500} :
                    pc[c] = "committing" /\ Install(c, code)
      BY <3>3 DEF Commit, Success
    <3>4. ASSUME NEW c \in Clients, Fail(c)
          PROVE  orders' = orders \/ (pc[c] = "committing" /\ Install(c, 500))
      BY <3>4 DEF Fail, Leave
    <3>5. CASE Done
      BY <3>5 DEF Done, vars
    <3> QED
      BY <3>1, <3>2, <3>3, <3>4, <3>5 DEF Next
  <2> QED
    BY <2>1, <2>2, <2>3
<1> QED
  BY <1>1, Invariance, PTL DEF Spec, DeletedStaysDeleted
=============================================================================

------------------------------- MODULE Orders -------------------------------
(***************************************************************************)
(* The order service (go-order-service): HTTP handlers that run SQL        *)
(* statements against one Postgres database, concurrently in one process   *)
(* and in its replicas.  A client stands for one request goroutine at a    *)
(* time: it submits a request, the handler takes one step per statement,   *)
(* and the answer frees the client for its next request.                   *)
(*                                                                         *)
(* Transactions run at Postgres's default level (BeginTx(ctx, nil)), READ  *)
(* COMMITTED: each statement sees the rows committed when it starts, what  *)
(* a transaction writes is invisible to the others until it commits, and a *)
(* row it updated or deleted stays locked until it ends.  `orders' and     *)
(* `items' are the committed tables; what a transaction has written is in  *)
(* `loaded' and reaches the tables when it commits.                        *)
(***************************************************************************)
EXTENDS Integers, Sequences, FiniteSetsExt

CONSTANTS
    Clients,      \* request goroutines, of any replica
    Commands,     \* the routes the clients call
    Carts,        \* bodies of POST /orders: [customer, lines]
    Lines,        \* bodies of POST /orders/{id}/items
    Patches,      \* bodies of PATCH /orders/{id}/items/{itemId}
    Statuses,     \* bodies of PATCH /orders/{id}/status
    NoStatus,     \* the empty status
    LongStatus,   \* a status longer than VARCHAR(32)
    Nil,          \* an absent JSON field (a nil pointer)
    Half,         \* int64 holds -Half .. Half-1
    MaxQuantity,  \* largest value of a Postgres INTEGER
    Faults,       \* may statements fail (connection, timeout, crash)?
    MaxRequests   \* bound: requests submitted in one behaviour

Routes == {"create", "get", "status", "add", "patch", "remove", "delete"}

ASSUME HalfAssumption == Half \in Nat \ {0}
ASSUME QuantityAssumption == MaxQuantity \in Nat
ASSUME FaultsAssumption == Faults \in BOOLEAN
ASSUME CommandsAssumption == Commands \subseteq Routes
ASSUME RequestsAssumption == MaxRequests \in Nat
Line == [product : Int, quantity : Int, price : Int]

ASSUME LinesAssumption == Lines \subseteq Line
ASSUME CartsAssumption ==
    \A cart \in Carts : cart.customer \in Int /\ cart.lines \in Seq(Line)
ASSUME PatchesAssumption ==
    Nil \notin Int /\ Patches \subseteq [quantity : Int \cup {Nil},
                                         price    : Int \cup {Nil}]

VARIABLES
    orders,     \* table customer_order: id -> row
    items,      \* table customer_order_item: id -> row
    nextOrder,  \* sequence of customer_order.id
    nextItem,   \* sequence of customer_order_item.id
    pc,         \* the statement each handler is at
    req,        \* the request each handler serves
    loaded,     \* the domain.Order in each handler's memory
    locks,      \* the order row each transaction has locked, 0 for none
    answer,     \* the status code each client got last, 0 while it waits
    sent,       \* requests submitted so far
    overtaken   \* auxiliary: handlers whose order changed after they read it

store == <<orders, items>>
vars == <<orders, items, nextOrder, nextItem, pc, req, loaded, locks, answer,
          sent, overtaken>>

-----------------------------------------------------------------------------
(* Money and the domain: domain/order.go.                                  *)

Wrap(cents) == ((cents + Half) % (2 * Half)) - Half

Subtotal(quantity, price) == Wrap(quantity * price)

ValidLine(line) == line.product > 0 /\ line.quantity > 0 /\ line.price > 0

ValidPatch(patch) ==
    /\ patch.quantity # Nil => patch.quantity > 0
    /\ patch.price # Nil => patch.price > 0

(* A table or an item list with the row of one id inserted or replaced.    *)
Put(rows, id, row) ==
    [i \in DOMAIN rows \cup {id} |-> IF i = id THEN row ELSE rows[i]]

(* An order holds its items by id.  Items not stored yet have ID 0 in the  *)
(* code and are told apart by their position; here they are 0, -1, ... and *)
(* `fresh' counts them.                                                    *)
EmptyOrder ==
    [id |-> 0, status |-> "pending", total |-> 0, items |-> <<>>,
     fresh |-> 0, inserted |-> {}]

WithItem(order, line) ==
    LET id   == -order.fresh
        item == [order    |-> 0,
                 quantity |-> line.quantity,
                 price    |-> line.price,
                 subtotal |-> Subtotal(line.quantity, line.price)]
    IN  [order EXCEPT
            !.total = Wrap(@ + item.subtotal),
            !.items = Put(@, id, item),
            !.fresh = @ + 1]

WithoutItem(order, id) ==
    [order EXCEPT
        !.items = Restrict(@, DOMAIN @ \ {id}),
        !.total = Wrap(@ - order.items[id].subtotal)]

(* Mutant of Patched, recomputing the subtotal only for a new quantity.    *)
QuantityPatched(item, patch) ==
    IF patch.quantity = Nil
    THEN [item EXCEPT !.price = patch.price]
    ELSE [item EXCEPT !.quantity = patch.quantity,
                      !.subtotal = Subtotal(patch.quantity, item.price)]

Patched(item, patch) ==
    LET quantity == IF patch.quantity = Nil THEN item.quantity ELSE patch.quantity
        price    == IF patch.price = Nil THEN item.price ELSE patch.price
    IN  [item EXCEPT !.quantity = quantity,
                     !.price    = price,
                     !.subtotal = Subtotal(quantity, price)]

(* Mutant of WithPatch, forgetting to take the old subtotal out of the     *)
(* total.                                                                  *)
AddedPatch(order, id, patch) ==
    LET item == Patched(order.items[id], patch)
    IN  [order EXCEPT !.items[id] = item, !.total = Wrap(@ + item.subtotal)]

WithPatch(order, id, patch) ==
    IF patch.quantity = Nil /\ patch.price = Nil
    THEN order
    ELSE LET item == Patched(order.items[id], patch)
         IN  [order EXCEPT
                !.items = Put(@, id, item),
                !.total = Wrap(@ + item.subtotal - order.items[id].subtotal)]

-----------------------------------------------------------------------------
(* Requests, and what the command handlers decide about an order they have *)
(* loaded: the domain method's error, or the order it leaves to be saved.  *)

NoRequest == [op |-> "none"]

Request ==
    [op : {"create"}, cart : Carts]
        \cup [op : {"get", "delete"}, order : Nat]
        \cup [op : {"status"}, order : Nat, status : Statuses]
        \cup [op : {"add"}, order : Nat, line : Lines]
        \cup [op : {"patch"}, order : Nat, item : Nat, patch : Patches]
        \cup [op : {"remove"}, order : Nat, item : Nat]

Requests(op) ==
    CASE op = "create" -> [op : {op}, cart : Carts]
      [] op \in {"get", "delete"} -> [op : {op}, order : 1..nextOrder]
      [] op = "status" -> [op : {op}, order : 1..nextOrder, status : Statuses]
      [] op = "add" -> [op : {op}, order : 1..nextOrder, line : Lines]
      [] op = "patch" -> [op : {op}, order : 1..nextOrder, item : 1..nextItem,
                          patch : Patches]
      [] op = "remove" -> [op : {op}, order : 1..nextOrder, item : 1..nextItem]

(* Requests refused before any transaction begins.  The empty status gets  *)
(* an error of no known kind, which is answered as an internal one.        *)
Refusal(r) ==
    CASE r.op = "create" /\ (r.cart.customer <= 0 \/ r.cart.lines = <<>>) -> 400
      [] r.op = "status" /\ r.status = NoStatus -> 500
      [] OTHER -> 0

(* The domain method's error on a loaded order, 0 for none.                *)
DomainError(order, r) ==
    CASE r.op = "add" /\ ~ValidLine(r.line) -> 400
      [] r.op \in {"patch", "remove"} /\ r.item \notin DOMAIN order.items -> 404
      [] r.op = "patch" /\ ~ValidPatch(r.patch) -> 400
      [] OTHER -> 0

Applied(order, r) ==
    CASE r.op = "status" -> [order EXCEPT !.status = r.status]
      [] r.op = "add"    -> WithItem(order, r.line)
      [] r.op = "patch"  -> WithPatch(order, r.item, r.patch)
      [] r.op = "remove" -> WithoutItem(order, r.item)
      [] OTHER           -> order

Success(op) ==
    CASE op \in {"create", "add"} -> 201
      [] op = "delete" -> 204
      [] OTHER -> 200

-----------------------------------------------------------------------------
(* The tables as statements see and change them.                           *)

ItemsOf(o) == {i \in DOMAIN items : items[i].order = o}

Unlocked(o) == \A c \in Clients : locks[c] # o

(* What the INTEGER column accepts (the driver refuses a larger value).    *)
Storable(order) ==
    \A i \in DOMAIN order.items : order.items[i].quantity <= MaxQuantity

(* Mutant of ReferencesOrder, had the migration no REFERENCES clause.      *)
NoForeignKey(o) == TRUE

(* The foreign key of customer_order_item, checked by each INSERT.         *)
ReferencesOrder(o) == o \in DOMAIN orders

(* The order once its new items are inserted: they take the next ids and   *)
(* point at their order.                                                   *)
SavedItems(order) ==
    LET inserted == nextItem .. (nextItem + order.fresh - 1)
        stored   == {i \in DOMAIN order.items : i > 0}
    IN  [i \in stored \cup inserted |->
            IF i \in stored
            THEN order.items[i]
            ELSE [order.items[nextItem - i] EXCEPT !.order = order.id]]

Saved(order) ==
    [order EXCEPT
        !.items = SavedItems(order),
        !.inserted = nextItem .. (nextItem + order.fresh - 1)]

Row(order) == [status |-> order.status, total |-> order.total]

(* Mutant of ItemsWritten, were existing items never updated.              *)
OnlyInserted(order) ==
    [i \in DOMAIN items \cup order.inserted |->
        IF i \in order.inserted THEN order.items[i] ELSE items[i]]

(* The item table after a handler's INSERTs and UPDATEs: an UPDATE that    *)
(* matches no row changes none, and an item the handler took out of its    *)
(* order is neither updated nor deleted.                                   *)
ItemsWritten(order) ==
    LET updated == {i \in DOMAIN order.items \cap DOMAIN items :
                        items[i].order = order.id}
    IN  [i \in DOMAIN items \cup order.inserted |->
            IF i \in updated \cup order.inserted THEN order.items[i] ELSE items[i]]

-----------------------------------------------------------------------------
(* Handlers.                                                               *)

Goto(c, label) == pc' = [pc EXCEPT ![c] = label]

(* The transaction is over (its locks with it) and the request answered.   *)
Answer(c, code) ==
    /\ Goto(c, "idle")
    /\ req' = [req EXCEPT ![c] = NoRequest]
    /\ loaded' = [loaded EXCEPT ![c] = EmptyOrder]
    /\ locks' = [locks EXCEPT ![c] = 0]
    /\ answer' = [answer EXCEPT ![c] = code]

(* A transaction ends without a trace, or a read is done.                  *)
Leave(c, code) ==
    /\ Answer(c, code)
    /\ overtaken' = overtaken \ {c}
    /\ UNCHANGED <<orders, items, nextOrder, nextItem, sent>>

Submit(c, r) ==
    /\ pc[c] = "idle"
    /\ sent < MaxRequests
    /\ sent' = sent + 1
    /\ IF Refusal(r) # 0
       THEN /\ answer' = [answer EXCEPT ![c] = Refusal(r)]
            /\ UNCHANGED <<pc, req>>
       ELSE /\ Goto(c, IF r.op = "create" THEN "building" ELSE "reading")
            /\ req' = [req EXCEPT ![c] = r]
            /\ answer' = [answer EXCEPT ![c] = 0]
    /\ UNCHANGED <<orders, items, nextOrder, nextItem, loaded, locks, overtaken>>

(* One turn of the loop in NewOrder, before the transaction begins.        *)
BuildLine(c) ==
    LET lines == req[c].cart.lines
        line  == lines[loaded[c].fresh + 1]
    IN  /\ pc[c] = "building"
        /\ \/ /\ ~ValidLine(line)
              /\ Leave(c, 400)
           \/ /\ ValidLine(line)
              /\ loaded' = [loaded EXCEPT ![c] = WithItem(loaded[c], line)]
              /\ Goto(c, IF loaded[c].fresh + 1 = Len(lines)
                         THEN "inserting" ELSE "building")
              /\ UNCHANGED <<orders, items, nextOrder, nextItem, req, locks,
                             answer, sent, overtaken>>

(* Mutant of InsertOrder, which does not scan the id that is returned.     *)
InsertOrderUnread(c) ==
    /\ pc[c] = "inserting"
    /\ nextOrder' = nextOrder + 1
    /\ Goto(c, "storing")
    /\ UNCHANGED <<orders, items, nextItem, req, loaded, locks, answer, sent, overtaken>>

(* INSERT INTO customer_order, which hands out the id.                     *)
InsertOrder(c) ==
    /\ pc[c] = "inserting"
    /\ loaded' = [loaded EXCEPT ![c].id = nextOrder]
    /\ nextOrder' = nextOrder + 1
    /\ Goto(c, "storing")
    /\ UNCHANGED <<orders, items, nextItem, req, locks, answer, sent, overtaken>>

(* The INSERTs of a new order's items.                                     *)
InsertItems(c) ==
    /\ pc[c] = "storing"
    /\ \/ /\ ~Storable(loaded[c])
          /\ Leave(c, 500)
       \/ /\ Storable(loaded[c])
          /\ loaded' = [loaded EXCEPT ![c] = Saved(loaded[c])]
          /\ nextItem' = nextItem + loaded[c].fresh
          /\ Goto(c, "committing")
          /\ UNCHANGED <<orders, items, nextOrder, req, locks, answer, sent,
                         overtaken>>

(* Mutant of ReadOrder, were a missing order retried until it appears.     *)
ReadUntilFound(c) ==
    LET o == req[c].order
    IN  /\ pc[c] = "reading"
        /\ IF o \in DOMAIN orders
           THEN /\ loaded' = [loaded EXCEPT ![c].id = o,
                                            ![c].status = orders[o].status,
                                            ![c].total = orders[o].total]
                /\ Goto(c, "loading")
           ELSE UNCHANGED <<loaded, pc>>
        /\ UNCHANGED <<orders, items, nextOrder, nextItem, req, locks, answer,
                       sent, overtaken>>

(* First statement of GetByID.                                             *)
ReadOrder(c) ==
    LET o == req[c].order
    IN  /\ pc[c] = "reading"
        /\ \/ /\ o \notin DOMAIN orders
              /\ Leave(c, 404)
           \/ /\ o \in DOMAIN orders
              /\ loaded' = [loaded EXCEPT ![c].id = o,
                                          ![c].status = orders[o].status,
                                          ![c].total = orders[o].total]
              /\ Goto(c, "loading")
              /\ UNCHANGED <<orders, items, nextOrder, nextItem, req, locks,
                             answer, sent, overtaken>>

(* Second statement of GetByID, with what the handler does next in memory. *)
ReadItems(c) ==
    LET r     == req[c]
        order == [loaded[c] EXCEPT
                    !.items = Restrict(items, ItemsOf(r.order))]
    IN  /\ pc[c] = "loading"
        /\ \/ /\ r.op = "get"
              /\ Leave(c, 200)
           \/ /\ DomainError(order, r) # 0
              /\ Leave(c, DomainError(order, r))
           \/ /\ r.op # "get"
              /\ DomainError(order, r) = 0
              /\ loaded' = [loaded EXCEPT ![c] = Applied(order, r)]
              /\ Goto(c, IF r.op = "delete" THEN "deleting" ELSE "updating")
              /\ UNCHANGED <<orders, items, nextOrder, nextItem, req, locks,
                             answer, sent, overtaken>>

(* Mutant of LockOrder, were the statement run on the pool and not in the  *)
(* transaction: its lock is gone when it returns.                          *)
LockOutsideTx(c, next) ==
    LET o == req[c].order
    IN  /\ Unlocked(o)
        /\ Goto(c, next)
        /\ UNCHANGED <<orders, items, nextOrder, nextItem, req, loaded, locks,
                       answer, sent, overtaken>>

(* UPDATE or DELETE of the order row: it waits for the row's lock, and     *)
(* takes it if the row is still there (no row matched is no error).        *)
LockOrder(c, next) ==
    LET o == req[c].order
    IN  /\ Unlocked(o)
        /\ locks' = [locks EXCEPT ![c] = IF o \in DOMAIN orders THEN o ELSE 0]
        /\ Goto(c, next)
        /\ UNCHANGED <<orders, items, nextOrder, nextItem, req, loaded, answer,
                       sent, overtaken>>

UpdateOrder(c) ==
    /\ pc[c] = "updating"
    /\ \/ loaded[c].status = LongStatus /\ Leave(c, 500)
       \/ loaded[c].status # LongStatus /\ LockOrder(c, "writing")

DeleteOrder(c) == pc[c] = "deleting" /\ LockOrder(c, "committing")

(* The loop of Update over the order's items: INSERT of a new item, UPDATE *)
(* of every other.                                                         *)
WriteItems(c) ==
    LET order   == loaded[c]
        accepted == /\ Storable(order)
                    /\ order.fresh > 0 => ReferencesOrder(order.id)
    IN  /\ pc[c] = "writing"
        /\ \/ /\ ~accepted
              /\ Leave(c, 500)
           \/ /\ accepted
              /\ loaded' = [loaded EXCEPT ![c] = Saved(order)]
              /\ nextItem' = nextItem + order.fresh
              /\ Goto(c, "committing")
              /\ UNCHANGED <<orders, items, nextOrder, req, locks, answer, sent,
                             overtaken>>

-----------------------------------------------------------------------------
(* COMMIT makes the transaction's writes visible, all at once.             *)

CreateRows(order) ==
    /\ orders' = Put(orders, order.id, Row(order))
    /\ items' = ItemsWritten(order)

(* Mutant of UpdateRows, were the UPDATE an upsert.                        *)
UpsertRows(order) == CreateRows(order)

UpdateRows(order) ==
    /\ orders' = IF order.id \in DOMAIN orders
                 THEN Put(orders, order.id, Row(order)) ELSE orders
    /\ items' = ItemsWritten(order)

(* Mutant of DeleteRows, had the migration no ON DELETE CASCADE.           *)
DeleteRowOnly(order) ==
    /\ orders' = Restrict(orders, DOMAIN orders \ {order.id})
    /\ items' = items

DeleteRows(order) ==
    /\ orders' = Restrict(orders, DOMAIN orders \ {order.id})
    /\ items' = Restrict(items, DOMAIN items \ ItemsOf(order.id))

InstallRows(c) ==
    CASE req[c].op = "create" -> CreateRows(loaded[c])
      [] req[c].op = "delete" -> DeleteRows(loaded[c])
      [] OTHER -> UpdateRows(loaded[c])

(* Handlers that have read the order c is about to change.                 *)
Readers(c) == {d \in Clients \ {c} : loaded[d].id = loaded[c].id}

Install(c, code) ==
    /\ InstallRows(c)
    /\ Answer(c, code)
    /\ overtaken' = (overtaken \cup Readers(c)) \ {c}
    /\ UNCHANGED <<nextOrder, nextItem, sent>>

Commit(c) == pc[c] = "committing" /\ Install(c, Success(req[c].op))

(* A statement fails: the connection, the request's context or the whole   *)
(* replica is gone.  Postgres rolls back; only a COMMIT whose reply is     *)
(* lost may have taken effect.  The handlers take every error of GetByID   *)
(* for a missing order, unless it was BEGIN that failed.                   *)
Fail(c) ==
    /\ Faults
    /\ \/ pc[c] = "reading" /\ req[c].op # "get" /\ Leave(c, 500)
       \/ pc[c] \in {"reading", "loading"} /\ Leave(c, 404)
       \/ pc[c] \in {"updating", "deleting", "writing", "inserting", "storing",
                     "committing"} /\ Leave(c, 500)
       \/ pc[c] = "committing" /\ Install(c, 500)

-----------------------------------------------------------------------------

Init ==
    /\ orders = <<>>
    /\ items = <<>>
    /\ nextOrder = 1
    /\ nextItem = 1
    /\ pc = [c \in Clients |-> "idle"]
    /\ req = [c \in Clients |-> NoRequest]
    /\ loaded = [c \in Clients |-> EmptyOrder]
    /\ locks = [c \in Clients |-> 0]
    /\ answer = [c \in Clients |-> 0]
    /\ sent = 0
    /\ overtaken = {}

Serve(c) ==
    \/ BuildLine(c) \/ InsertOrder(c) \/ InsertItems(c)
    \/ ReadOrder(c) \/ ReadItems(c)
    \/ UpdateOrder(c) \/ WriteItems(c) \/ DeleteOrder(c)
    \/ Commit(c)

(* The bound is reached and every request answered.                        *)
Done ==
    /\ sent = MaxRequests
    /\ \A c \in Clients : pc[c] = "idle"
    /\ UNCHANGED vars

Next ==
    \/ \E c \in Clients :
          \/ \E op \in Commands : \E r \in Requests(op) : Submit(c, r)
          \/ Serve(c)
          \/ Fail(c)
    \/ Done

Spec == Init /\ [][Next]_vars

(* Goroutines keep running and Postgres keeps answering; a row's lock goes *)
(* to its waiters in turn.                                                 *)
Fairness == \A c \in Clients : SF_vars(Serve(c))

FairSpec == Spec /\ Fairness
-----------------------------------------------------------------------------
(* Properties.                                                             *)

Labels == {"idle", "building", "inserting", "storing", "reading", "loading",
           "updating", "writing", "deleting", "committing"}

Cents == -Half .. Half - 1

ItemRow == [order : Nat, quantity : Int, price : Int, subtotal : Cents]

IsOrder(order) ==
    /\ DOMAIN order = {"id", "status", "total", "items", "fresh", "inserted"}
    /\ order.id \in Nat
    /\ order.total \in Cents
    /\ order.fresh \in Nat
    /\ order.inserted \subseteq DOMAIN order.items
    /\ \A i \in DOMAIN order.items : i \in Int /\ order.items[i] \in ItemRow

(* Every variable has the type of the Go value or column it stands for,    *)
(* and every stored row has an id that its sequence has handed out.        *)
TypeOK ==
    /\ nextOrder \in Nat \ {0} /\ nextItem \in Nat \ {0} /\ sent \in 0..MaxRequests
    /\ \A o \in DOMAIN orders : /\ o \in 1..(nextOrder - 1)
                                /\ orders[o].total \in Cents
    /\ \A i \in DOMAIN items : i \in 1..(nextItem - 1) /\ items[i] \in ItemRow
    /\ pc \in [Clients -> Labels]
    /\ req \in [Clients -> Request \cup {NoRequest}]
    /\ DOMAIN loaded = Clients
    /\ \A c \in Clients : IsOrder(loaded[c])
    /\ locks \in [Clients -> Nat]
    /\ answer \in [Clients -> {0, 200, 201, 204, 400, 404, 500}]
    /\ overtaken \subseteq Clients

(* An item whose values passed validation and whose subtotal is their      *)
(* product.                                                                *)
GoodItem(item) ==
    /\ item \in ItemRow
    /\ item.quantity > 0
    /\ item.price > 0
    /\ item.subtotal = Subtotal(item.quantity, item.price)

(* What a stored item row says holds together, whatever requests raced.    *)
(* Update rewrites every item row of the order from the handler's memory,  *)
(* stale or not, so this rests on no handler ever saving a half-changed    *)
(* item, and on what the columns refuse.                                   *)
ItemRowsConsistent ==
    \A i \in DOMAIN items : GoodItem(items[i]) /\ items[i].quantity <= MaxQuantity

(* No item row outlives its order: a handler that read an order which was  *)
(* deleted before it wrote cannot bring an item of it back.                *)
NoOrphanItems == \A i \in DOMAIN items : items[i].order \in DOMAIN orders

(* A deleted order stays deleted: a row appears only by its own creation,  *)
(* though handlers that loaded it before the delete still write it back.   *)
DeletedStaysDeleted ==
    [][\A o \in DOMAIN orders' \ DOMAIN orders :
          \E c \in Clients : req[c].op = "create" /\ loaded[c].id = o]_vars

(* What an order's total is off by: 0 when it is the sum of its items.     *)
Drift(o) ==
    Wrap(orders[o].total - MapThenSumSet(LAMBDA i : items[i].subtotal, ItemsOf(o)))

(* An order's total moves away from the sum of its items in two ways only: *)
(* a commit from an order that changed after the handler read it, or the   *)
(* removal of an item.  Every other commit, of any handler, keeps the two  *)
(* in step, however int64 wraps and whatever failed before.                *)
TotalFollowsItems ==
    [][\A o \in DOMAIN orders' :
          \/ Drift(o)' = IF o \in DOMAIN orders THEN Drift(o) ELSE 0
          \/ \E c \in Clients : /\ loaded[c].id = o
                               /\ pc[c] = "committing" /\ pc'[c] = "idle"
                               /\ (c \in overtaken \/ req[c].op = "remove")]_vars

(* A change answered 200 or 201 is in the tables exactly as the answer     *)
(* shows it, order and items, unless the order is gone: no statement of    *)
(* the transaction is lost and no row another handler added is undone.     *)
AnswerIsStored ==
    [][\A c \in Clients :
          /\ pc[c] = "committing"
          /\ answer'[c] \in {200, 201}
          /\ loaded[c].id \in DOMAIN orders'
          => /\ orders'[loaded[c].id] = Row(loaded[c])
             /\ \A i \in DOMAIN loaded[c].items :
                    i \in DOMAIN items' /\ items'[i] = loaded[c].items[i]
             /\ \A i \in DOMAIN items : i \in DOMAIN items']_vars

(* Two transactions never hold the same order row, and whoever is past its *)
(* UPDATE of a row that exists holds it: commits to one order are serial.  *)
HoldsItsRow(c) ==
    /\ pc[c] \in {"writing", "committing"}
    /\ req[c].op # "create"
    /\ req[c].order \in DOMAIN orders
    => locks[c] = req[c].order

RowsHeldByOne ==
    /\ \A c, d \in Clients : locks[c] = locks[d] /\ locks[c] # 0 => c = d
    /\ \A c \in Clients : HoldsItsRow(c)

(* What a handler holds in memory at each of its steps.                    *)
MemoryMatchesStep(c) ==
    LET order == loaded[c]
    IN  /\ \A i \in DOMAIN order.items : GoodItem(order.items[i])
        /\ \A i \in DOMAIN order.items :
              i > 0 => i < nextItem /\ order.items[i].order = order.id
        /\ pc[c] # "committing"
           => /\ order.inserted = {}
              /\ \A k \in 0 .. (order.fresh - 1) : -k \in DOMAIN order.items
        /\ pc[c] \in {"idle", "reading"} => loaded[c] = EmptyOrder
        /\ pc[c] \in {"building", "inserting"} => order.id = 0
        /\ pc[c] = "loading" => order.fresh = 0
        /\ pc[c] = "deleting" => req[c].op = "delete"
        /\ pc[c] \in {"building", "inserting", "storing"}
           => /\ req[c].op = "create"
              /\ \A i \in DOMAIN order.items : i <= 0
        /\ pc[c] = "building" => order.fresh < Len(req[c].cart.lines)
        /\ pc[c] \in {"reading", "loading", "updating", "writing", "deleting"}
           => req[c].op \in Routes \ {"create"}
        /\ pc[c] \in {"loading", "updating", "writing", "deleting"}
           => order.id = req[c].order
        /\ pc[c] = "committing"
           => /\ req[c].op \in Routes
              /\ req[c].op # "create" => order.id = req[c].order
              /\ req[c].op # "delete"
                 => \A i \in DOMAIN order.items :
                       i > 0 /\ order.items[i].quantity <= MaxQuantity
        /\ pc[c] \in {"storing", "loading", "updating", "writing", "deleting",
                      "committing"}
           => order.id \in 1 .. (nextOrder - 1)

(* What a transaction's lock covers: new item rows of an existing order    *)
(* are inserted under its row's lock.                                      *)
LockMatchesStep(c) ==
    /\ locks[c] # 0 => /\ pc[c] \in {"writing", "committing"}
                       /\ locks[c] = loaded[c].id
                       /\ locks[c] \in DOMAIN orders
    /\ loaded[c].inserted # {} /\ req[c].op # "create" => locks[c] = loaded[c].id

(* The id of an order being created is no other handler's and no row's.    *)
NewIdIsUnused(c) ==
    pc[c] \in {"storing", "committing"} /\ req[c].op = "create"
    => /\ loaded[c].id \notin DOMAIN orders
       /\ \A d \in Clients \ {c} : loaded[d].id # loaded[c].id

(* The invariants above, strengthened until every step preserves them.     *)
IInv ==
    /\ TypeOK
    /\ ItemRowsConsistent
    /\ NoOrphanItems
    /\ RowsHeldByOne
    /\ \A c \in Clients :
          MemoryMatchesStep(c) /\ LockMatchesStep(c) /\ NewIdIsUnused(c)

(* The creations that have their order's id.                               *)
Creating(c) == pc[c] \in {"storing", "committing"} /\ req[c].op = "create"

Creators == {c \in Clients : Creating(c)}

Store == INSTANCE OrderStore WITH
    next    <- nextOrder,
    pending <- {loaded[c].id : c \in Creators}

(* Seen from outside, the statements of all handlers amount to whole       *)
(* changes of one order at a time: each COMMIT creates, changes or deletes *)
(* the handler's order with its items, or, when that order was deleted     *)
(* meanwhile, does nothing at all; no COMMIT touches another order's rows, *)
(* and no id becomes an order twice.                                       *)
ImplementsOrderStore == Store!Spec

(* Every request is answered: no two transactions wait on each other, for  *)
(* each locks one row only, before any other lock it needs.                *)
EveryRequestAnswered == \A c \in Clients : pc[c] # "idle" ~> pc[c] = "idle"
-----------------------------------------------------------------------------
(* What the code says of itself and does not do; each is refuted by a run. *)

(* "RemoveOrderItemHandler removes an item from an order within a          *)
(* transaction": an item whose removal was answered 200 is not stored.     *)
RemovedItemIsGone ==
    [][\A c \in Clients :
          pc[c] = "committing" /\ req[c].op = "remove" /\ answer'[c] = 200
          => req[c].item \notin DOMAIN items']_vars

(* "AddOrderItemHandler adds an item to an order": the commands on items   *)
(* leave the status alone, only UpdateOrderStatusHandler moves it.         *)
StatusMovesByItsCommand ==
    [][\A o \in DOMAIN orders \cap DOMAIN orders' :
          orders'[o].status # orders[o].status
          => \E c \in Clients : /\ pc[c] = "committing" /\ pc'[c] = "idle"
                               /\ loaded[c].id = o
                               /\ req[c].op = "status"]_vars
=============================================================================

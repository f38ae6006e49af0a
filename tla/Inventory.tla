----------------------------- MODULE Inventory -----------------------------
(***************************************************************************)
(* Branch stock and purchase orders of apps/api: inventory-routes.ts,       *)
(* inventory-consume.ts and purchase-order-routes.ts.                       *)
(*                                                                         *)
(* A handler runs in one READ COMMITTED transaction.  For each item it      *)
(* moves it SELECTs the row, computes a quantity and UPDATEs the row by id  *)
(* with it; the UPDATE waits for the row's lock, which is kept to the end   *)
(* of the transaction, but not for the row read before.  What it wrote is   *)
(* seen by others when it commits, and is lost when it rolls back.          *)
(***************************************************************************)
EXTENDS Integers, Sequences, FiniteSets, FiniteSetsExt

CONSTANTS
  Requests,      \* slots for handlers in flight
  Branches, Skus,
  Orders,        \* purchase orders
  OrderBranch,   \* [Orders -> Branches]
  Jobs,          \* jobs, each with the one quote it was spawned from
  JobBranch,     \* [Jobs -> Branches]
  Parts,         \* [Jobs -> lines of that quote]
  Qty,           \* quantities staff enter
  MaxLines,      \* lines of one receipt
  MaxMoves,      \* items made, item and line edits, adjustments, transfers,
                 \* receipts
  None

ConstantsAssumption ==
  /\ Qty \subseteq Nat \ {0}
  /\ OrderBranch \in [Orders -> Branches]
  /\ JobBranch \in [Jobs -> Branches]
  /\ Parts \in [Jobs -> Seq([sku : Skus, qty : Nat \ {0}])]
  /\ MaxLines \in Nat /\ MaxMoves \in Nat
  /\ IsFiniteSet(Branches) /\ IsFiniteSet(Jobs)
ASSUME ConstantsAssumption

VARIABLES
  stock,       \* [Items -> the inventory_items row]
  opening,     \* [Items -> qty_on_hand the row was created with]
  moved,       \* [Items -> sum of delta_qty of the item's movements]
  transfers,   \* [Items -> the part of it that transfers moved]
  receipts,    \* [Orders -> [Skus -> sum of receipt movements of that order]]
  used,        \* [Jobs -> sum of consumption movements of that job]
  orders,      \* [Orders -> purchase_orders row and its lines]
  supplier,    \* [Orders -> quantities of the supplier's document, or None]
  jobs,        \* [Jobs -> progress of the job and its quote]
  exceptions,  \* [Jobs -> consumption exceptions, in the order of insertion]
  begun,       \* of those MaxMoves, how many began
  req          \* [Requests -> the transaction in flight]

ledger == <<moved, transfers, receipts, used>>
vars == <<stock, opening, ledger, orders, supplier, jobs, exceptions, begun, req>>

-----------------------------------------------------------------------------
(* Rows. *)

(* The unique index is on (branch_id, sku). *)
Items == Branches \X Skus

StockRows == [exists : BOOLEAN, active : BOOLEAN, onHand : Int, reserved : Nat]

ASSUME NoneAssumption == None \notin StockRows

NoItem == [exists |-> FALSE, active |-> FALSE, onHand |-> 0, reserved |-> 0]

NewItem(qty) == [exists |-> TRUE, active |-> TRUE, onHand |-> qty, reserved |-> 0]

OrderStatus == {"none", "draft", "submitted", "partial", "received", "canceled"}

(* qty 0: no line for that sku. *)
Lines == [Skus -> [qty : Nat, received : Nat]]

OrderLines(qty) == [s \in Skus |-> [qty |-> qty[s], received |-> 0]]

NoLines == OrderLines([s \in Skus |-> 0])

(* edition counts replacements of the lines; ref: supplier_po_ref is set.  *)
OrderRows == [status : OrderStatus, lines : Lines, edition : Nat, ref : BOOLEAN]

NoOrder == [status |-> "none", lines |-> NoLines, edition |-> 0, ref |-> FALSE]

(* reserved: a reserve movement names the quote; consumed: a consumption   *)
(* movement names the job.                                                  *)
JobRows == [accepted : BOOLEAN, completed : BOOLEAN,
            reserved : BOOLEAN, consumed : BOOLEAN]

NoJob == [accepted |-> FALSE, completed |-> FALSE,
          reserved |-> FALSE, consumed |-> FALSE]

ExceptionRows == [qty : Nat, status : {"pending", "resolved", "ignored"}]

Ops == {"idle", "adjust", "transfer", "receive", "reserve", "consume",
        "resolve", "ignore", "edit", "submit", "push", "cancel"}

Changes == [item : Items, delta : Int]

(* todo: the item changes left; seen: the row read for the first of them.  *)
(* rows and moves: what the transaction wrote, None where it holds no lock. *)
RequestStates ==
  [op     : Ops,
   step   : {"idle", "lock", "read", "write", "stamp"},
   todo   : Seq(Changes),
   seen   : StockRows,
   rows   : [Items -> StockRows \cup {None}],
   moves  : [Items -> Int],
   order  : Orders \cup {None},
   row    : OrderRows,             \* the order as read, lines updated
   over   : BOOLEAN,               \* allowOver
   job    : Jobs \cup {None},
   used   : Nat,                   \* quantity consumed for the job so far
   held   : BOOLEAN,               \* a reserve movement was written
   missed : Seq(ExceptionRows),    \* exceptions inserted
   exc    : Nat]                   \* index of the exception at hand

Idle ==
  [op |-> "idle", step |-> "idle", todo |-> <<>>, seen |-> NoItem,
   rows |-> [i \in Items |-> None], moves |-> [i \in Items |-> 0],
   order |-> None, row |-> NoOrder, over |-> FALSE, job |-> None,
   used |-> 0, held |-> FALSE, missed |-> <<>>, exc |-> 0]

Init ==
  /\ stock = [i \in Items |-> NoItem]
  /\ opening = [i \in Items |-> 0]
  /\ moved = [i \in Items |-> 0]
  /\ transfers = [i \in Items |-> 0]
  /\ receipts = [o \in Orders |-> [s \in Skus |-> 0]]
  /\ used = [j \in Jobs |-> 0]
  /\ orders = [o \in Orders |-> NoOrder]
  /\ supplier = [o \in Orders |-> None]
  /\ jobs = [j \in Jobs |-> NoJob]
  /\ exceptions = [j \in Jobs |-> <<>>]
  /\ begun = 0
  /\ req = [r \in Requests |-> Idle]

-----------------------------------------------------------------------------
(* Transactions. *)

Begin(r, op, step) == [Idle EXCEPT !.op = op, !.step = step]

(* A handler staff may run again and again, of which MaxMoves begin. *)
BeginMove == begun < MaxMoves /\ begun' = begun + 1

Change(i, delta) == [item |-> i, delta |-> delta]

(* The row of i as r sees it: its own writes, or the committed ones. *)
Row(r, i) == IF req[r].rows[i] # None THEN req[r].rows[i] ELSE stock[i]

Unlocked(i) == \A r \in Requests : req[r].rows[i] = None

LockFree(r, i) == \A other \in Requests \ {r} : req[other].rows[i] = None

At(r, op, step) == req[r].op = op /\ req[r].step = step

(* All changes are written. *)
Written(r, op) == At(r, op, "read") /\ req[r].todo = <<>>

Store(r) ==
  /\ stock' = [i \in Items |-> Row(r, i)]
  /\ moved' = [i \in Items |-> moved[i] + req[r].moves[i]]

End(r) == req' = [req EXCEPT ![r] = Idle]

(* Mutant: the statements are not run in one transaction. *)
Mutant_AbortKeepsWrites(r) ==
  /\ req[r].op # "idle"
  /\ Store(r) /\ End(r)
  /\ transfers' = IF req[r].op # "transfer" THEN transfers
                  ELSE [i \in Items |-> transfers[i] + req[r].moves[i]]
  /\ UNCHANGED <<opening, receipts, used, orders, supplier, jobs, exceptions, begun>>

(* Roll back: an error, a lost connection, the victim of a deadlock, or a  *)
(* second insert of one (branch, sku).                                      *)
Abort(r) ==
  /\ req[r].op # "idle"
  /\ End(r)
  /\ UNCHANGED <<stock, opening, ledger, orders, supplier, jobs, exceptions, begun>>

-----------------------------------------------------------------------------
(* Stocked items: POST and PATCH /inventory/items.  The quantity an item is *)
(* created with has no movement.                                            *)

CreateItem(i) ==
  /\ BeginMove
  /\ ~stock[i].exists /\ Unlocked(i)
  /\ \E qty \in Qty \cup {0} :
       /\ stock' = [stock EXCEPT ![i] = NewItem(qty)]
       /\ opening' = [opening EXCEPT ![i] = qty]
  /\ UNCHANGED <<ledger, orders, supplier, jobs, exceptions, req>>

EditItem(i) ==
  /\ BeginMove
  /\ stock[i].exists /\ Unlocked(i)
  /\ stock' = [stock EXCEPT ![i].active = ~@]
  /\ UNCHANGED <<opening, ledger, orders, supplier, jobs, exceptions, req>>

-----------------------------------------------------------------------------
(* Reading and writing one item after the other. *)

(* The branch's item is there (and active, where only active stock counts). *)
Stocked(r, i) ==
  /\ Row(r, i).exists
  /\ req[r].op \in {"reserve", "consume"} => Row(r, i).active

(* No such line, or more than is left on it and allowOver is not set.       *)
Refused(r) ==
  /\ At(r, "receive", "read") /\ req[r].todo # <<>>
  /\ LET change == Head(req[r].todo)
         line   == req[r].row.lines[change.item[2]]
     IN  \/ line.qty = 0
         \/ ~req[r].over /\ line.received + change.delta > line.qty

ReadItem(r) ==
  /\ req[r].step = "read" /\ req[r].todo # <<>> /\ ~Refused(r)
  /\ LET i == Head(req[r].todo).item
     IN  /\ req[r].op \in {"reserve", "consume"} => Stocked(r, i)
         /\ req' = [req EXCEPT ![r].step = "write", ![r].seen = Row(r, i)]
  /\ UNCHANGED <<stock, opening, ledger, orders, supplier, jobs, exceptions, begun>>

(* No stock to reserve or consume: a line to consume becomes an exception.  *)
SkipItem(r) ==
  /\ req[r].op \in {"reserve", "consume"}
  /\ req[r].step = "read" /\ req[r].todo # <<>>
  /\ LET change == Head(req[r].todo)
     IN  /\ ~Stocked(r, change.item)
         /\ req' = [req EXCEPT
              ![r].todo = Tail(@),
              ![r].missed = IF req[r].op = "reserve" THEN @
                            ELSE Append(@, [qty    |-> -change.delta,
                                            status |-> "pending"])]
  /\ UNCHANGED <<stock, opening, ledger, orders, supplier, jobs, exceptions, begun>>

(* The line of the order read, with what came in. *)
Received(row, sku, qty) == [row EXCEPT !.lines[sku].received = @ + qty]

(* The slot once its next change is written: row is the item's new row.     *)
Wrote(q, row, delta) ==
  LET i == Head(q.todo).item
  IN  [q EXCEPT !.step = "read", !.todo = Tail(@),
                !.rows[i] = row, !.moves[i] = @ + delta,
                !.held = @ \/ q.op = "reserve",
                !.used = IF q.op \in {"consume", "resolve"} THEN @ - delta ELSE @,
                !.row = IF q.op = "receive" THEN Received(@, i[2], delta) ELSE @]

(* The other columns of row are those at the time of the write. *)
Write(r, row, delta) ==
  /\ LockFree(r, Head(req[r].todo).item)
  /\ req' = [req EXCEPT ![r] = Wrote(@, row, delta)]
  /\ UNCHANGED <<stock, opening, ledger, orders, supplier, jobs, exceptions, begun>>

(* Mutant: an item a transaction inserts gets no movement. *)
Mutant_WriteOnHandUnmoved(r) ==
  /\ req[r].step = "write"
  /\ req[r].op \in {"adjust", "transfer", "receive", "resolve"}
  /\ LET i     == Head(req[r].todo).item
         delta == Head(req[r].todo).delta
         seen  == req[r].seen
     IN  IF seen.exists
         THEN Write(r, [Row(r, i) EXCEPT !.onHand = seen.onHand + delta], delta)
         ELSE Write(r, NewItem(delta), 0)

(* Adjust, transfer, receive and resolve set qty_on_hand, or insert the     *)
(* item, which fails where another transaction has inserted it meanwhile.   *)
WriteOnHand(r) ==
  /\ req[r].step = "write"
  /\ req[r].op \in {"adjust", "transfer", "receive", "resolve"}
  /\ LET i     == Head(req[r].todo).item
         delta == Head(req[r].todo).delta
         seen  == req[r].seen
     IN  \/ /\ seen.exists
            /\ Write(r, [Row(r, i) EXCEPT !.onHand = seen.onHand + delta], delta)
         \/ /\ ~seen.exists /\ ~Row(r, i).exists
            /\ Write(r, NewItem(delta), delta)

(* reserveInventoryForQuote sets qty_reserved; its movement moves nothing.  *)
WriteReserved(r) ==
  /\ At(r, "reserve", "write")
  /\ LET i   == Head(req[r].todo).item
         qty == Head(req[r].todo).delta
     IN  Write(r, [Row(r, i) EXCEPT !.reserved = req[r].seen.reserved + qty], 0)

(* Mutant: what is released is not limited to what is reserved. *)
Mutant_WriteConsumedUnclamped(r) ==
  /\ At(r, "consume", "write")
  /\ LET i   == Head(req[r].todo).item
         qty == -Head(req[r].todo).delta
     IN  Write(r, [Row(r, i) EXCEPT !.onHand = req[r].seen.onHand - qty,
                                    !.reserved = req[r].seen.reserved - qty], -qty)

(* consumeInventoryForJob takes the quantity from stock and from whatever   *)
(* is reserved of the item.                                                 *)
WriteConsumed(r) ==
  /\ At(r, "consume", "write")
  /\ LET i    == Head(req[r].todo).item
         qty  == -Head(req[r].todo).delta
         seen == req[r].seen
     IN  Write(r, [Row(r, i) EXCEPT
                     !.onHand = seen.onHand - qty,
                     !.reserved = IF seen.reserved > qty
                                  THEN seen.reserved - qty ELSE 0], -qty)

-----------------------------------------------------------------------------
(* POST /inventory/items/:id/adjust.  Only a "consumption" is refused below *)
(* zero, which an "adjustment" by the same quantity is not.                 *)

AdjustRead(r) ==
  /\ req[r] = Idle /\ BeginMove
  /\ \E i \in Items, delta \in Qty \cup {-q : q \in Qty} :
       /\ stock[i].exists
       /\ req' = [req EXCEPT ![r] = [Begin(r, "adjust", "write") EXCEPT
                    !.todo = <<Change(i, delta)>>, !.seen = stock[i]]]
  /\ UNCHANGED <<stock, opening, ledger, orders, supplier, jobs, exceptions>>

AdjustCommit(r) ==
  /\ Written(r, "adjust")
  /\ Store(r) /\ End(r)
  /\ UNCHANGED <<opening, transfers, receipts, used, orders, supplier, jobs,
                 exceptions, begun>>

(* POST /inventory/transfer: out of one branch's item, then into another's. *)
TransferRead(r) ==
  /\ req[r] = Idle /\ BeginMove
  /\ \E s \in Skus, from, to \in Branches, qty \in Qty :
       /\ from # to
       /\ stock[<<from, s>>].exists /\ stock[<<from, s>>].onHand >= qty
       /\ req' = [req EXCEPT ![r] = [Begin(r, "transfer", "write") EXCEPT
                    !.todo = <<Change(<<from, s>>, -qty), Change(<<to, s>>, qty)>>,
                    !.seen = stock[<<from, s>>]]]
  /\ UNCHANGED <<stock, opening, ledger, orders, supplier, jobs, exceptions>>

TransferCommit(r) ==
  /\ Written(r, "transfer")
  /\ Store(r) /\ End(r)
  /\ transfers' = [i \in Items |-> transfers[i] + req[r].moves[i]]
  /\ UNCHANGED <<opening, receipts, used, orders, supplier, jobs, exceptions,
                 begun>>

-----------------------------------------------------------------------------
(* Accepting a quote reserves, completing its job consumes; both under the *)
(* lock of the quotes or jobs row, on which a concurrent handler that read  *)
(* the same status waits.                                                   *)

Part(j, n, sign) ==
  Change(<<JobBranch[j], Parts[j][n].sku>>, sign * Parts[j][n].qty)

PartChanges(j, sign) == [n \in DOMAIN Parts[j] |-> Part(j, n, sign)]

JobUnlocked(j, op) ==
  \A r \in Requests :
    req[r].op = op /\ req[r].job = j => req[r].step = "lock"

AcceptRead(r) ==
  /\ req[r] = Idle
  /\ \E j \in Jobs :
       /\ ~jobs[j].accepted
       /\ req' = [req EXCEPT ![r] = [Begin(r, "reserve", "lock") EXCEPT !.job = j]]
  /\ UNCHANGED <<stock, opening, ledger, orders, supplier, jobs, exceptions, begun>>

(* Mutant: an earlier reservation is not looked up. *)
Mutant_AcceptLockAgain(r) ==
  /\ At(r, "reserve", "lock") /\ JobUnlocked(req[r].job, "reserve")
  /\ req' = [req EXCEPT ![r].step = "read", ![r].todo = PartChanges(req[r].job, 1)]
  /\ UNCHANGED <<stock, opening, ledger, orders, supplier, jobs, exceptions, begun>>

AcceptLock(r) ==
  /\ At(r, "reserve", "lock") /\ JobUnlocked(req[r].job, "reserve")
  /\ req' = [req EXCEPT ![r].step = "read",
                        ![r].todo = IF jobs[req[r].job].reserved THEN <<>>
                                    ELSE PartChanges(req[r].job, 1)]
  /\ UNCHANGED <<stock, opening, ledger, orders, supplier, jobs, exceptions, begun>>

AcceptCommit(r) ==
  /\ Written(r, "reserve")
  /\ Store(r) /\ End(r)
  /\ jobs' = [jobs EXCEPT ![req[r].job].accepted = TRUE,
                          ![req[r].job].reserved = @ \/ req[r].held]
  /\ UNCHANGED <<opening, transfers, receipts, used, orders, supplier,
                 exceptions, begun>>

CompleteRead(r) ==
  /\ req[r] = Idle
  /\ \E j \in Jobs :
       /\ jobs[j].accepted /\ ~jobs[j].completed
       /\ req' = [req EXCEPT ![r] = [Begin(r, "consume", "lock") EXCEPT !.job = j]]
  /\ UNCHANGED <<stock, opening, ledger, orders, supplier, jobs, exceptions, begun>>

CompleteLock(r) ==
  /\ At(r, "consume", "lock") /\ JobUnlocked(req[r].job, "consume")
  /\ req' = [req EXCEPT ![r].step = "read",
                        ![r].todo = IF jobs[req[r].job].consumed THEN <<>>
                                    ELSE PartChanges(req[r].job, -1)]
  /\ UNCHANGED <<stock, opening, ledger, orders, supplier, jobs, exceptions, begun>>

CompleteCommit(r) ==
  /\ Written(r, "consume")
  /\ Store(r) /\ End(r)
  /\ LET j == req[r].job
     IN  /\ jobs' = [jobs EXCEPT ![j].completed = TRUE,
                                 ![j].consumed = @ \/ req[r].used > 0]
         /\ used' = [used EXCEPT ![j] = @ + req[r].used]
         /\ exceptions' = [exceptions EXCEPT ![j] = @ \o req[r].missed]
  /\ UNCHANGED <<opening, transfers, receipts, orders, supplier, begun>>

-----------------------------------------------------------------------------
(* POST /inventory/exceptions/:id/resolve and .../ignore.  A pending        *)
(* exception is consumed from an item of its branch, one there is or one    *)
(* inserted for it; the status is written by id at the end.                 *)

Pending(j) == {n \in DOMAIN exceptions[j] : exceptions[j][n].status = "pending"}

ResolveRead(r) ==
  /\ req[r] = Idle
  /\ \E j \in Jobs, s \in Skus : \E n \in Pending(j) :
       LET i     == <<JobBranch[j], s>>
           begin == [Begin(r, "resolve", "read") EXCEPT
                       !.job = j, !.exc = n,
                       !.todo = <<Change(i, -exceptions[j][n].qty)>>]
       IN  \/ stock[i].exists /\ req' = [req EXCEPT ![r] = begin]
           \/ /\ ~stock[i].exists /\ Unlocked(i)
              /\ req' = [req EXCEPT ![r] = [begin EXCEPT !.rows[i] = NewItem(0)]]
  /\ UNCHANGED <<stock, opening, ledger, orders, supplier, jobs, exceptions, begun>>

(* Mutant: the exception stays pending. *)
Mutant_ResolveCommitPending(r) ==
  /\ Written(r, "resolve")
  /\ Store(r) /\ End(r)
  /\ used' = [used EXCEPT ![req[r].job] = @ + req[r].used]
  /\ jobs' = [jobs EXCEPT ![req[r].job].consumed = TRUE]
  /\ UNCHANGED <<opening, transfers, receipts, orders, supplier, exceptions, begun>>

ResolveCommit(r) ==
  /\ Written(r, "resolve")
  /\ Store(r) /\ End(r)
  /\ LET j == req[r].job
     IN  /\ used' = [used EXCEPT ![j] = @ + req[r].used]
         /\ jobs' = [jobs EXCEPT ![j].consumed = TRUE]
         /\ exceptions' = [exceptions EXCEPT ![j][req[r].exc].status = "resolved"]
  /\ UNCHANGED <<opening, transfers, receipts, orders, supplier, begun>>

IgnoreRead(r) ==
  /\ req[r] = Idle
  /\ \E j \in Jobs : \E n \in Pending(j) :
       req' = [req EXCEPT ![r] = [Begin(r, "ignore", "write") EXCEPT
                                    !.job = j, !.exc = n]]
  /\ UNCHANGED <<stock, opening, ledger, orders, supplier, jobs, exceptions, begun>>

IgnoreWrite(r) ==
  /\ At(r, "ignore", "write")
  /\ exceptions' = [exceptions EXCEPT ![req[r].job][req[r].exc].status = "ignored"]
  /\ End(r)
  /\ UNCHANGED <<stock, opening, ledger, orders, supplier, jobs, begun>>

-----------------------------------------------------------------------------
(* Purchase orders.  POST /purchase-orders, and .../from-low-stock, whose   *)
(* lines are some items' positive quantities like any others.               *)

SomeLines == {qty \in [Skus -> Qty \cup {0}] : \E s \in Skus : qty[s] # 0}

Quantities(lines) == [s \in Skus |-> lines[s].qty]

CreateOrder(o) ==
  /\ orders[o].status = "none"
  /\ \E qty \in SomeLines :
       orders' = [orders EXCEPT ![o].status = "draft", ![o].lines = OrderLines(qty)]
  /\ UNCHANGED <<stock, opening, ledger, supplier, jobs, exceptions, begun, req>>

(* A handler reads the order and will go on at step. *)
ReadOrder(r, o, op, step) ==
  /\ req[r] = Idle
  /\ req' = [req EXCEPT ![r] = [Begin(r, op, step) EXCEPT
                                  !.order = o, !.row = orders[o]]]
  /\ UNCHANGED <<stock, opening, ledger, orders, supplier, jobs, exceptions>>

(* Mutant: a submitted order may be edited. *)
Mutant_EditLinesReadSubmitted(r) ==
  /\ BeginMove
  /\ \E o \in Orders : /\ orders[o].status \in {"draft", "submitted"}
                       /\ ReadOrder(r, o, "edit", "write")

(* PATCH /purchase-orders/:id/lines deletes the lines, waiting for those a  *)
(* receipt has written, and inserts others.                                 *)
EditLinesRead(r) ==
  /\ BeginMove
  /\ \E o \in Orders :
       orders[o].status = "draft" /\ ReadOrder(r, o, "edit", "write")

Receiving(o) ==
  \E r \in Requests : /\ req[r].op = "receive" /\ req[r].order = o
                      /\ \E i \in Items : req[r].rows[i] # None

EditLinesWrite(r) ==
  /\ At(r, "edit", "write") /\ ~Receiving(req[r].order)
  /\ \E qty \in SomeLines :
       orders' = [orders EXCEPT ![req[r].order].lines = OrderLines(qty),
                                ![req[r].order].edition = @ + 1]
  /\ End(r)
  /\ UNCHANGED <<stock, opening, ledger, supplier, jobs, exceptions, begun>>

(* POST .../submit flips the status and, after its commit, pushes the lines *)
(* it read then to the supplier; a failed push leaves the order unstamped.  *)
SubmitRead(r) ==
  /\ \E o \in Orders :
       orders[o].status = "draft" /\ ReadOrder(r, o, "submit", "write")
  /\ UNCHANGED begun

SubmitWrite(r) ==
  /\ At(r, "submit", "write")
  /\ orders' = [orders EXCEPT ![req[r].order].status = "submitted"]
  /\ req' = [req EXCEPT ![r].op = "push", ![r].row = orders'[req[r].order]]
  /\ UNCHANGED <<stock, opening, ledger, supplier, jobs, exceptions, begun>>

(* POST .../sync-bc pushes again what was never stamped. *)
SyncRead(r) ==
  /\ \E o \in Orders :
       /\ orders[o].status \notin {"none", "draft", "canceled"} /\ ~orders[o].ref
       /\ ReadOrder(r, o, "push", "write")
  /\ UNCHANGED begun

(* createPurchaseOrder is idempotent on the order's id. *)
Push(r) ==
  /\ At(r, "push", "write")
  /\ supplier' = [supplier EXCEPT ![req[r].order] =
                    IF @ = None THEN Quantities(req[r].row.lines) ELSE @]
  /\ req' = [req EXCEPT ![r].step = "stamp"]
  /\ UNCHANGED <<stock, opening, ledger, orders, jobs, exceptions, begun>>

Stamp(r) ==
  /\ At(r, "push", "stamp")
  /\ orders' = [orders EXCEPT ![req[r].order].ref = TRUE]
  /\ End(r)
  /\ UNCHANGED <<stock, opening, ledger, supplier, jobs, exceptions, begun>>

CancelRead(r) ==
  /\ \E o \in Orders :
       /\ orders[o].status \in {"draft", "submitted", "partial"}
       /\ ReadOrder(r, o, "cancel", "write")
  /\ UNCHANGED begun

CancelWrite(r) ==
  /\ At(r, "cancel", "write")
  /\ orders' = [orders EXCEPT ![req[r].order].status = "canceled"]
  /\ End(r)
  /\ UNCHANGED <<stock, opening, ledger, supplier, jobs, exceptions, begun>>

(* POST .../receive.  Each line replenishes the branch's item; the status   *)
(* follows from the lines as read, with the quantities written since.  A    *)
(* line that is refused returns early, which commits the lines before it.   *)
ReceiveRead(r) ==
  /\ req[r] = Idle /\ BeginMove
  /\ \E o \in Orders, n \in 1..MaxLines, over \in BOOLEAN :
       /\ orders[o].status \in {"submitted", "partial"}
       /\ \E lines \in [1..n -> Skus \X Qty] :
            req' = [req EXCEPT ![r] = [Begin(r, "receive", "read") EXCEPT
                      !.order = o, !.row = orders[o], !.over = over,
                      !.todo = [k \in 1..n |->
                        Change(<<OrderBranch[o], lines[k][1]>>, lines[k][2])]]]
  /\ UNCHANGED <<stock, opening, ledger, orders, supplier, jobs, exceptions>>

(* Mutant: one full line is enough. *)
Mutant_NextStatusSome(row) ==
  IF \E s \in Skus : row.lines[s].received >= row.lines[s].qty
  THEN "received" ELSE row.status

NextStatus(row) ==
  CASE \A s \in Skus : row.lines[s].received >= row.lines[s].qty -> "received"
    [] \E s \in Skus : row.lines[s].received > 0 -> "partial"
    [] OTHER -> row.status

(* Mutant: the quantity of this receipt is written, not the sum. *)
Mutant_ReceiptedLast(r) ==
  LET o == req[r].order
  IN  [s \in Skus |->
         LET i == <<OrderBranch[o], s>>
         IN  IF req[r].rows[i] = None THEN orders[o].lines[s]
             ELSE [orders[o].lines[s] EXCEPT !.received = req[r].moves[i]]]

(* received_qty is written by line id: not to lines inserted since.         *)
Receipted(r) ==
  LET o == req[r].order
  IN  [s \in Skus |->
         IF /\ req[r].rows[<<OrderBranch[o], s>>] # None
            /\ req[r].row.edition = orders[o].edition
         THEN [orders[o].lines[s] EXCEPT !.received = req[r].row.lines[s].received]
         ELSE orders[o].lines[s]]

ReceiveEnd(r, status) ==
  LET o == req[r].order
  IN  /\ Store(r) /\ End(r)
      /\ orders' = [orders EXCEPT ![o].lines = Receipted(r), ![o].status = status]
      /\ receipts' = [receipts EXCEPT ![o] =
           [s \in Skus |-> @[s] + req[r].moves[<<OrderBranch[o], s>>]]]
      /\ UNCHANGED <<opening, transfers, used, supplier, jobs, exceptions, begun>>

ReceiveCommit(r) ==
  Written(r, "receive") /\ ReceiveEnd(r, NextStatus(req[r].row))

ReceiveRefused(r) ==
  Refused(r) /\ ReceiveEnd(r, orders[req[r].order].status)

-----------------------------------------------------------------------------

Move(r) ==
  \/ ReadItem(r) \/ SkipItem(r)
  \/ WriteOnHand(r) \/ WriteReserved(r) \/ WriteConsumed(r)

Stock(r) ==
  \/ AdjustRead(r) \/ AdjustCommit(r) \/ TransferRead(r) \/ TransferCommit(r)

Work(r) ==
  \/ AcceptRead(r) \/ AcceptLock(r) \/ AcceptCommit(r)
  \/ CompleteRead(r) \/ CompleteLock(r) \/ CompleteCommit(r)
  \/ ResolveRead(r) \/ ResolveCommit(r) \/ IgnoreRead(r) \/ IgnoreWrite(r)

Purchase(r) ==
  \/ EditLinesRead(r) \/ EditLinesWrite(r)
  \/ SubmitRead(r) \/ SubmitWrite(r) \/ SyncRead(r) \/ Push(r) \/ Stamp(r)
  \/ CancelRead(r) \/ CancelWrite(r)
  \/ ReceiveRead(r) \/ ReceiveCommit(r) \/ ReceiveRefused(r)

Next ==
  \/ \E i \in Items : CreateItem(i) \/ EditItem(i)
  \/ \E o \in Orders : CreateOrder(o)
  \/ \E r \in Requests : Move(r) \/ Stock(r) \/ Work(r) \/ Purchase(r) \/ Abort(r)

Spec == Init /\ [][Next]_vars

-----------------------------------------------------------------------------
(* Properties. *)

(* Every variable keeps its shape; in particular no row is written with a   *)
(* negative reservation and no line with a negative receipt.                *)
TypeOK ==
  /\ stock \in [Items -> StockRows]
  /\ opening \in [Items -> Int] /\ moved \in [Items -> Int]
  /\ transfers \in [Items -> Int]
  /\ receipts \in [Orders -> [Skus -> Nat]] /\ used \in [Jobs -> Nat]
  /\ orders \in [Orders -> OrderRows]
  /\ supplier \in [Orders -> [Skus -> Nat] \cup {None}]
  /\ jobs \in [Jobs -> JobRows]
  /\ exceptions \in [Jobs -> Seq(ExceptionRows)]
  /\ begun \in Nat
  /\ req \in [Requests -> RequestStates]

(* qty_on_hand is the quantity the item was created with plus its movements *)
(* ("so state and ledger cannot drift"), over transfers, receipts cut short *)
(* by an early return, consumption and crashes, when handlers take turns.   *)
BalanceKept ==
  \A i \in Items : stock[i].onHand = opening[i] + moved[i]

(* What transfers take out of some branches they put into others, whatever  *)
(* interleaves with them, deadlocks or crashes.                             *)
TransfersCancel ==
  \A s \in Skus : SumFunction([b \in Branches |-> transfers[<<b, s>>]]) = 0

(* What the first k of a job's parts ask for: of everything, and of a sku.  *)
PartQty(j) == [n \in DOMAIN Parts[j] |-> Parts[j][n].qty]
Asked(j, k) == SumFunctionOnSet(PartQty(j), 1..k)
AskedOf(j, s, k) ==
  SumFunctionOnSet(PartQty(j), {n \in 1..k : Parts[j][n].sku = s})

(* What a list of exceptions still accounts for. *)
Unresolved(list) ==
  SumFunctionOnSet([n \in DOMAIN list |-> list[n].qty],
                   {n \in DOMAIN list : list[n].status # "resolved"})

(* The parts of a completed job are each consumed or in the inbox, once,    *)
(* whatever was stocked, inactive or resolved when, if handlers take turns. *)
PartsAccounted ==
  \A j \in Jobs :
    jobs[j].completed =>
      used[j] + Unresolved(exceptions[j]) = Asked(j, Len(Parts[j]))

(* What some jobs ask for of a branch's item. *)
AskedBy(some, b, s) ==
  SumFunctionOnSet([j \in Jobs |-> AskedOf(j, s, Len(Parts[j]))],
                   {j \in some : JobBranch[j] = b})

(* A quote's parts are reserved at most once: what is reserved of an item   *)
(* never exceeds what the accepted quotes name, although acceptances race   *)
(* and completions release by a quantity read before the lock.              *)
ReservedOnce ==
  \A b \in Branches, s \in Skus :
    stock[<<b, s>>].reserved <= AskedBy({j \in Jobs : jobs[j].accepted}, b, s)

(* received_qty of a line is the sum of the order's receipt movements, also *)
(* where a receipt was refused half way, if handlers take turns.            *)
ReceivedAsMoved ==
  \A o \in Orders, s \in Skus : orders[o].lines[s].received = receipts[o][s]

(* An order is received only when every line is, if handlers take turns.    *)
ReceivedIsComplete ==
  \A o \in Orders :
    orders[o].status = "received" =>
      \A s \in Skus : orders[o].lines[s].received >= orders[o].lines[s].qty

(* The supplier's document names the quantities of the order's lines: lines *)
(* are edited in drafts only, if handlers take turns.                       *)
SupplierHasLines ==
  \A o \in Orders :
    supplier[o] # None => supplier[o] = Quantities(orders[o].lines)
=============================================================================

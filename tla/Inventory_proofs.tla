-------------------------- MODULE Inventory_proofs --------------------------
(***************************************************************************)
(* What holds of Inventory for any branches, items, orders, jobs and        *)
(* quantities, and although a handler may roll back or be cut short after   *)
(* any of its changes: every row keeps its shape, transfers cancel out and  *)
(* a quote is reserved once however handlers interleave; and when they take *)
(* turns, stock equals its movements, an order its receipts and its         *)
(* supplier's document, and a job's parts what was consumed or noted.       *)
(***************************************************************************)
EXTENDS Inventory, FiniteSums

ItemOps == {"adjust", "transfer", "receive", "reserve", "consume", "resolve"}
JobOps == {"reserve", "consume", "resolve", "ignore"}
OrderOps == {"receive", "edit", "submit", "push", "cancel"}

Increases == [item : Items, delta : Nat]
Decreases == [item : Items, delta : {d \in Int : d <= 0}]

(* A handler in flight carries its arguments, and its changes have the sign *)
(* of its operation.                                                        *)
WellFormed(q) ==
  /\ q.op \in {"receive", "reserve"} => q.todo \in Seq(Increases)
  /\ q.op \in {"consume", "resolve"} => q.todo \in Seq(Decreases)
  /\ q.op = "receive" => q.moves \in [Items -> Nat]
  /\ q.op \in JobOps => q.job \in Jobs
  /\ q.op \in OrderOps => q.order \in Orders
  /\ q.op \in ItemOps /\ q.step = "write" => q.todo # <<>>

ExceptionAtHand(q) ==
  q.op \in {"resolve", "ignore"} => q.exc \in DOMAIN exceptions[q.job]

ArgumentsPresent ==
  \A r \in Requests : WellFormed(req[r]) /\ ExceptionAtHand(req[r])

TypeInv == TypeOK /\ ArgumentsPresent

-----------------------------------------------------------------------------
(* Rows and slots of each kind are well formed.                             *)

LEMMA RowTypes ==
  /\ NoItem \in StockRows
  /\ \A qty \in Int : NewItem(qty) \in StockRows
  /\ NoLines \in Lines
  /\ NoOrder \in OrderRows
  /\ NoJob \in JobRows
<1>1. NoItem \in StockRows /\ \A qty \in Int : NewItem(qty) \in StockRows
  BY DEF NoItem, NewItem, StockRows
<1>2. NoLines \in Lines
  BY DEF NoLines, OrderLines, Lines
<1>3. NoOrder \in OrderRows
  BY <1>2 DEF NoOrder, OrderRows, OrderStatus
<1>4. NoJob \in JobRows
  BY DEF NoJob, JobRows
<1> QED
  BY <1>1, <1>2, <1>3, <1>4

LEMMA IdleType == Idle \in RequestStates /\ WellFormed(Idle) /\ ExceptionAtHand(Idle)
<1>1. Idle \in RequestStates
  BY RowTypes DEF Idle, RequestStates, Ops
<1>2. WellFormed(Idle) /\ ExceptionAtHand(Idle)
  BY DEF Idle, WellFormed, ExceptionAtHand, JobOps, OrderOps, ItemOps
<1> QED
  BY <1>1, <1>2

LEMMA BeginType ==
  ASSUME NEW r, NEW op \in Ops,
         NEW step \in {"idle", "lock", "read", "write", "stamp"}
  PROVE  Begin(r, op, step) \in RequestStates
  BY IdleType DEF Begin, RequestStates

(* Elements of a sequence are of its set, and stay in it when it grows. *)
LEMMA ElementsOf ==
  ASSUME NEW S, NEW s \in Seq(S)
  PROVE  /\ Len(s) \in Nat /\ DOMAIN s = 1..Len(s) /\ DOMAIN s \subseteq Nat
         /\ \A n \in DOMAIN s : s[n] \in S
         /\ s # <<>> => Head(s) \in S /\ Tail(s) \in Seq(S)
  OBVIOUS

LEMMA Appended ==
  ASSUME NEW S, NEW s \in Seq(S), NEW t \in Seq(S)
  PROVE  s \o t \in Seq(S) /\ DOMAIN s \subseteq DOMAIN (s \o t)
<1>1. s \o t \in Seq(S) /\ Len(s \o t) = Len(s) + Len(t)
  OBVIOUS
<1>2. /\ DOMAIN s = 1..Len(s) /\ DOMAIN (s \o t) = 1..Len(s \o t)
      /\ Len(s) \in Nat /\ Len(t) \in Nat
  BY <1>1, ElementsOf
<1> QED
  BY <1>1, <1>2

(* What a quote's lines ask for has the sign asked for. *)
LEMMA PartsType ==
  ASSUME NEW j \in Jobs
  PROVE  /\ PartChanges(j, 1) \in Seq(Increases)
         /\ PartChanges(j, -1) \in Seq(Decreases)
<1> DEFINE parts == Parts[j]
<1>1. parts \in Seq([sku : Skus, qty : Nat \ {0}]) /\ JobBranch[j] \in Branches
  BY ConstantsAssumption DEF ConstantsAssumption
<1>2. Len(parts) \in Nat /\ DOMAIN parts = 1..Len(parts)
  BY <1>1
<1>3. \A n \in 1..Len(parts) : parts[n].sku \in Skus /\ parts[n].qty \in Nat
  <2>1. \A n \in 1..Len(parts) : parts[n] \in [sku : Skus, qty : Nat \ {0}]
    BY <1>1, <1>2, ElementsOf
  <2> QED
    BY <2>1
<1>4. \A n \in 1..Len(parts) :
        Part(j, n, 1) \in Increases /\ Part(j, n, -1) \in Decreases
  BY <1>1, <1>3 DEF Part, Change, Increases, Decreases, Items
<1>5. PartChanges(j, 1) \in [1..Len(parts) -> Increases]
  BY <1>2, <1>4 DEF PartChanges
<1>6. PartChanges(j, -1) \in [1..Len(parts) -> Decreases]
  BY <1>2, <1>4 DEF PartChanges
<1> QED
  BY <1>2, <1>5, <1>6

LEMMA SignedAreChanges ==
  Seq(Increases) \subseteq Seq(Changes) /\ Seq(Decreases) \subseteq Seq(Changes)
<1>1. Increases \subseteq Changes /\ Decreases \subseteq Changes
  BY DEF Increases, Decreases, Changes
<1>2. ASSUME NEW S, S \subseteq Changes, NEW s \in Seq(S)
      PROVE  s \in Seq(Changes)
  BY <1>2
<1> QED
  BY <1>1, <1>2

-----------------------------------------------------------------------------
(* A step that replaces one slot by a well-formed one, and leaves the       *)
(* exceptions alone, keeps all slots well formed.                           *)
LEMMA SlotReplaced ==
  ASSUME TypeInv, NEW r \in Requests, NEW q \in RequestStates, WellFormed(q),
         ExceptionAtHand(q), req' = [req EXCEPT ![r] = q],
         exceptions' = exceptions
  PROVE  req' \in [Requests -> RequestStates] /\ ArgumentsPresent'
<1>1. req \in [Requests -> RequestStates] /\ ArgumentsPresent
  BY DEF TypeInv, TypeOK
<1>2. req' \in [Requests -> RequestStates]
  BY <1>1
<1>3. \A p \in Requests : WellFormed(req'[p]) /\ ExceptionAtHand(req'[p])
  BY <1>1 DEF ArgumentsPresent
<1> QED
  BY <1>2, <1>3 DEF ArgumentsPresent, ExceptionAtHand, WellFormed

LEMMA InitTypeInv == Init => TypeInv
<1> SUFFICES ASSUME Init PROVE TypeInv
  OBVIOUS
<1>1. TypeOK
  BY RowTypes, IdleType DEF Init, TypeOK
<1>2. ArgumentsPresent
  BY IdleType DEF Init, ArgumentsPresent
<1> QED
  BY <1>1, <1>2 DEF TypeInv

-----------------------------------------------------------------------------
(* TypeInv is inductive.                                                    *)

LEMMA SlotStep ==
  ASSUME TypeInv, NEW r \in Requests, NEW q \in RequestStates, WellFormed(q),
         ExceptionAtHand(q), req' = [req EXCEPT ![r] = q],
         UNCHANGED <<stock, opening, ledger, orders, supplier, jobs, exceptions>>,
         begun' \in Nat
  PROVE  TypeInv'
<1>1. req' \in [Requests -> RequestStates] /\ ArgumentsPresent'
  BY SlotReplaced
<1>2. TypeOK'
  BY <1>1 DEF TypeInv, TypeOK, ledger
<1> QED
  BY <1>1, <1>2 DEF TypeInv

LEMMA BegunType ==
  ASSUME TypeInv, BeginMove
  PROVE  begun' \in Nat
  BY DEF TypeInv, TypeOK, BeginMove

LEMMA SlotType ==
  ASSUME TypeInv, NEW r \in Requests
  PROVE  /\ req[r] \in RequestStates /\ WellFormed(req[r])
         /\ ExceptionAtHand(req[r])
         /\ \A i \in Items : Row(r, i) \in StockRows
<1>1. req[r] \in RequestStates /\ stock \in [Items -> StockRows]
  BY DEF TypeInv, TypeOK
<1>2. \A i \in Items : req[r].rows[i] \in StockRows \cup {None}
  BY <1>1 DEF RequestStates
<1> QED
  BY <1>1, <1>2 DEF TypeInv, ArgumentsPresent, Row

(* What a transaction stores are rows. *)
LEMMA StoreType ==
  ASSUME TypeInv, NEW r \in Requests, Store(r)
  PROVE  stock' \in [Items -> StockRows] /\ moved' \in [Items -> Int]
<1>1. \A i \in Items : Row(r, i) \in StockRows
  BY SlotType
<1>2. \A i \in Items : moved[i] \in Int /\ req[r].moves[i] \in Int
  BY SlotType DEF TypeInv, TypeOK, RequestStates
<1> QED
  BY <1>1, <1>2 DEF Store

LEMMA ItemTypeInv ==
  ASSUME TypeInv, NEW i \in Items, CreateItem(i) \/ EditItem(i)
  PROVE  TypeInv'
<1> DEFINE Rest == <<ledger, orders, supplier, jobs, exceptions, req>>
<1>1. begun' \in Nat /\ UNCHANGED Rest
  BY BegunType DEF CreateItem, EditItem
<1>2. stock' \in [Items -> StockRows] /\ opening' \in [Items -> Int]
  <2>1. stock \in [Items -> StockRows] /\ opening \in [Items -> Int]
    BY DEF TypeInv, TypeOK
  <2>2. CASE CreateItem(i)
    <3>1. Qty \cup {0} \subseteq Int
      BY ConstantsAssumption DEF ConstantsAssumption
    <3> QED
      BY <2>1, <2>2, <3>1, RowTypes DEF CreateItem
  <2>3. CASE EditItem(i)
    BY <2>1, <2>3 DEF EditItem, StockRows
  <2> QED
    BY <2>2, <2>3
<1>3. TypeOK'
  BY <1>1, <1>2 DEF TypeInv, TypeOK, ledger
<1>4. ArgumentsPresent'
  BY <1>1 DEF TypeInv, ArgumentsPresent, WellFormed, ExceptionAtHand
<1> QED
  BY <1>3, <1>4 DEF TypeInv

(* Steps between the first and the last change of a handler. *)
LEMMA ReadTypeInv ==
  ASSUME TypeInv, NEW r \in Requests, ReadItem(r)
  PROVE  TypeInv'
<1> DEFINE i == Head(req[r].todo).item
           q == [req[r] EXCEPT !.step = "write", !.seen = Row(r, i)]
<1>1. req[r] \in RequestStates /\ WellFormed(req[r]) /\ ExceptionAtHand(req[r])
  BY SlotType
<1>2. req[r].todo \in Seq(Changes) /\ req[r].todo # <<>>
  BY <1>1 DEF RequestStates, ReadItem
<1>3. i \in Items
  <2>1. Head(req[r].todo) \in Changes
    BY <1>2, ElementsOf
  <2> QED
    BY <2>1 DEF Changes
<1>4. Row(r, i) \in StockRows
  BY <1>3, SlotType
<1>5. q \in RequestStates
  BY <1>1, <1>4 DEF RequestStates
<1>6. WellFormed(q) /\ ExceptionAtHand(q)
  BY <1>1, <1>2 DEF WellFormed, ExceptionAtHand, RequestStates
<1>7. req' = [req EXCEPT ![r] = q]
  BY DEF ReadItem
<1>8. begun' \in Nat
  BY DEF ReadItem, TypeInv, TypeOK
<1> QED
  BY <1>5, <1>6, <1>7, <1>8, SlotStep DEF ReadItem

LEMMA SkipTypeInv ==
  ASSUME TypeInv, NEW r \in Requests, SkipItem(r)
  PROVE  TypeInv'
<1> DEFINE change == Head(req[r].todo)
           row == [qty |-> -change.delta, status |-> "pending"]
           q == [req[r] EXCEPT !.todo = Tail(@),
                               !.missed = IF req[r].op = "reserve" THEN @
                                          ELSE Append(@, row)]
<1>1. req[r] \in RequestStates /\ WellFormed(req[r]) /\ ExceptionAtHand(req[r])
  BY SlotType
<1>2. /\ req[r].op \in {"reserve", "consume"} /\ req[r].step = "read"
      /\ req[r].todo \in Seq(Changes) /\ req[r].todo # <<>>
  BY <1>1 DEF RequestStates, SkipItem
<1>3. req[r].op = "consume" => row \in ExceptionRows
  <2>1. req[r].op = "consume" => change \in Decreases
    BY <1>1, <1>2 DEF WellFormed
  <2> QED
    BY <2>1 DEF Decreases, ExceptionRows
<1>4. Tail(req[r].todo) \in Seq(Changes)
  BY <1>2
<1>5. q.missed \in Seq(ExceptionRows)
  BY <1>1, <1>2, <1>3 DEF RequestStates
<1>6. q \in RequestStates
  BY <1>1, <1>4, <1>5 DEF RequestStates
<1>7. WellFormed(q) /\ ExceptionAtHand(q)
  <2>1. q.op \in {"receive", "reserve"} => q.todo \in Seq(Increases)
    BY <1>1, <1>2 DEF WellFormed, RequestStates
  <2>2. q.op \in {"consume", "resolve"} => q.todo \in Seq(Decreases)
    BY <1>1, <1>2 DEF WellFormed, RequestStates
  <2> QED
    BY <1>1, <1>2, <2>1, <2>2 DEF WellFormed, ExceptionAtHand, RequestStates
<1>8. req' = [req EXCEPT ![r] = q]
  BY DEF SkipItem
<1>9. begun' \in Nat
  BY DEF SkipItem, TypeInv, TypeOK
<1> QED
  BY <1>6, <1>7, <1>8, <1>9, SlotStep DEF SkipItem

(* The next change of a handler that is about to write. *)
LEMMA NextChange ==
  ASSUME NEW q \in RequestStates, WellFormed(q), q.op \in ItemOps,
         q.step = "write"
  PROVE  /\ q.todo # <<>>
         /\ Head(q.todo).item \in Items /\ Head(q.todo).delta \in Int
         /\ Tail(q.todo) \in Seq(Changes)
         /\ q.op \in {"receive", "reserve"} =>
              Head(q.todo).delta \in Nat /\ Tail(q.todo) \in Seq(Increases)
         /\ q.op \in {"consume", "resolve"} =>
              Head(q.todo).delta <= 0 /\ Tail(q.todo) \in Seq(Decreases)
<1>1. q.todo \in Seq(Changes) /\ q.todo # <<>>
  BY DEF RequestStates, WellFormed
<1>2. Head(q.todo) \in Changes /\ Tail(q.todo) \in Seq(Changes)
  BY <1>1, ElementsOf
<1>3. q.op \in {"receive", "reserve"} =>
        Head(q.todo) \in Increases /\ Tail(q.todo) \in Seq(Increases)
  BY <1>1, ElementsOf DEF WellFormed
<1>4. q.op \in {"consume", "resolve"} =>
        Head(q.todo) \in Decreases /\ Tail(q.todo) \in Seq(Decreases)
  BY <1>1, ElementsOf DEF WellFormed
<1> QED
  BY <1>1, <1>2, <1>3, <1>4 DEF Changes, Increases, Decreases

LEMMA ReceivedType ==
  ASSUME NEW row \in OrderRows, NEW sku \in Skus, NEW qty \in Nat
  PROVE  Received(row, sku, qty) \in OrderRows
<1>1. row.lines \in Lines /\ row.lines[sku].received + qty \in Nat
  BY DEF OrderRows, Lines
<1>2. [row.lines EXCEPT ![sku].received = @ + qty] \in Lines
  BY <1>1 DEF Lines
<1> QED
  BY <1>2 DEF Received, OrderRows

(* A write leaves a well-formed slot. *)
LEMMA WroteType ==
  ASSUME NEW q \in RequestStates, WellFormed(q), q.op \in ItemOps,
         q.step = "write", NEW row \in StockRows, NEW delta \in Int,
         q.op = "receive" => delta \in Nat,
         q.op \in {"consume", "resolve"} => delta <= 0
  PROVE  /\ Wrote(q, row, delta) \in RequestStates
         /\ WellFormed(Wrote(q, row, delta))
         /\ Wrote(q, row, delta).op = q.op
         /\ Wrote(q, row, delta).job = q.job
         /\ Wrote(q, row, delta).exc = q.exc
<1> DEFINE i == Head(q.todo).item
           p == Wrote(q, row, delta)
<1>1. i \in Items /\ Tail(q.todo) \in Seq(Changes)
  BY NextChange
<1>2. /\ p.op = q.op /\ p.step = "read" /\ p.todo = Tail(q.todo)
      /\ p.seen = q.seen /\ p.order = q.order /\ p.over = q.over
      /\ p.job = q.job /\ p.missed = q.missed /\ p.exc = q.exc
      /\ p.held \in BOOLEAN
  BY DEF Wrote, RequestStates
<1>3. p.rows \in [Items -> StockRows \cup {None}]
  BY DEF Wrote, RequestStates
<1>4. /\ p.moves \in [Items -> Int]
      /\ q.op = "receive" => p.moves \in [Items -> Nat]
  <2>1. p.moves = [q.moves EXCEPT ![i] = @ + delta] /\ q.moves \in [Items -> Int]
    BY DEF Wrote, RequestStates
  <2> QED
    BY <1>1, <2>1 DEF WellFormed
<1>5. p.used \in Nat
  BY DEF Wrote, RequestStates
<1>6. p.row \in OrderRows
  <2>1. q.row \in OrderRows /\ i[2] \in Skus
    BY <1>1 DEF RequestStates, Items
  <2>2. p.row = IF q.op = "receive" THEN Received(q.row, i[2], delta) ELSE q.row
    BY DEF Wrote, RequestStates
  <2> QED
    BY <2>1, <2>2, ReceivedType
<1>7. p \in RequestStates
  <2>1. p = [q EXCEPT !.step = p.step, !.todo = p.todo, !.rows = p.rows,
                      !.moves = p.moves, !.held = p.held, !.used = p.used,
                      !.row = p.row]
    BY DEF Wrote, RequestStates
  <2>2. /\ p.op \in Ops /\ p.seen \in StockRows /\ p.over \in BOOLEAN
        /\ p.order \in Orders \cup {None} /\ p.job \in Jobs \cup {None}
        /\ p.missed \in Seq(ExceptionRows) /\ p.exc \in Nat
    BY <1>2 DEF RequestStates
  <2> HIDE DEF p
  <2> QED
    BY <1>1, <1>2, <1>3, <1>4, <1>5, <1>6, <2>1, <2>2 DEF RequestStates
<1>8. WellFormed(p)
  <2>1. /\ p.op \in {"receive", "reserve"} => p.todo \in Seq(Increases)
        /\ p.op \in {"consume", "resolve"} => p.todo \in Seq(Decreases)
    BY <1>2, NextChange
  <2> HIDE DEF p
  <2> QED
    BY <1>2, <1>4, <2>1 DEF WellFormed
<1> QED
  BY <1>2, <1>7, <1>8

LEMMA WriteTypeInv ==
  ASSUME TypeInv, NEW r \in Requests, req[r].op \in ItemOps,
         req[r].step = "write", NEW row \in StockRows, NEW delta \in Int,
         req[r].op = "receive" => delta \in Nat,
         req[r].op \in {"consume", "resolve"} => delta <= 0,
         Write(r, row, delta)
  PROVE  TypeInv'
<1> DEFINE q == Wrote(req[r], row, delta)
<1>1. /\ req[r] \in RequestStates /\ WellFormed(req[r])
      /\ ExceptionAtHand(req[r])
  BY SlotType
<1>2. q \in RequestStates /\ WellFormed(q)
  BY <1>1, WroteType
<1>3. ExceptionAtHand(q)
  <2>1. q.op = req[r].op /\ q.job = req[r].job /\ q.exc = req[r].exc
    BY <1>1, WroteType
  <2> QED
    BY <1>1, <2>1 DEF ExceptionAtHand
<1>4. /\ req' = [req EXCEPT ![r] = q] /\ begun' \in Nat
      /\ UNCHANGED <<stock, opening, ledger, orders, supplier, jobs, exceptions>>
  BY DEF Write, TypeInv, TypeOK
<1> HIDE DEF q
<1> QED
  BY <1>2, <1>3, <1>4, SlotStep

LEMMA MoveTypeInv ==
  ASSUME TypeInv, NEW r \in Requests, Move(r)
  PROVE  TypeInv'
<1>1. CASE ReadItem(r)
  BY <1>1, ReadTypeInv
<1>2. CASE SkipItem(r)
  BY <1>2, SkipTypeInv
<1> DEFINE i == Head(req[r].todo).item
           delta == Head(req[r].todo).delta
           seen == req[r].seen
<1>3. /\ req[r] \in RequestStates /\ WellFormed(req[r])
      /\ seen \in StockRows /\ \A item \in Items : Row(r, item) \in StockRows
  BY SlotType DEF RequestStates
<1>4. CASE WriteOnHand(r)
  <2>1. req[r].op \in ItemOps /\ req[r].step = "write"
    BY <1>4 DEF WriteOnHand, ItemOps
  <2>2. i \in Items /\ delta \in Int
    BY <1>3, <2>1, NextChange
  <2>3. PICK row \in StockRows : Write(r, row, delta)
    <3>1. [Row(r, i) EXCEPT !.onHand = seen.onHand + delta] \in StockRows
      BY <1>3, <2>2 DEF StockRows
    <3>2. NewItem(delta) \in StockRows
      BY <2>2, RowTypes
    <3> QED
      BY <1>4, <3>1, <3>2 DEF WriteOnHand
  <2> QED
    BY <1>3, <2>1, <2>2, <2>3, NextChange, WriteTypeInv
<1>5. CASE WriteReserved(r)
  <2>1. req[r].op = "reserve" /\ req[r].op \in ItemOps /\ req[r].step = "write"
    BY <1>5 DEF WriteReserved, At, ItemOps
  <2>2. i \in Items /\ delta \in Nat
    BY <1>3, <2>1, NextChange
  <2>3. [Row(r, i) EXCEPT !.reserved = seen.reserved + delta] \in StockRows
    BY <1>3, <2>2 DEF StockRows
  <2> QED
    BY <1>5, <2>1, <2>3, WriteTypeInv DEF WriteReserved
<1>6. CASE WriteConsumed(r)
  <2>1. req[r].op = "consume" /\ req[r].op \in ItemOps /\ req[r].step = "write"
    BY <1>6 DEF WriteConsumed, At, ItemOps
  <2>2. i \in Items /\ delta \in Int /\ delta <= 0
    BY <1>3, <2>1, NextChange
  <2> DEFINE qty == -delta
             row == [Row(r, i) EXCEPT
                       !.onHand = seen.onHand - qty,
                       !.reserved = IF seen.reserved > qty
                                    THEN seen.reserved - qty ELSE 0]
  <2>3. row \in StockRows
    <3>1. seen.onHand - qty \in Int
      BY <1>3, <2>2 DEF StockRows
    <3>2. (IF seen.reserved > qty THEN seen.reserved - qty ELSE 0) \in Nat
      BY <1>3, <2>2 DEF StockRows
    <3> QED
      BY <1>3, <2>2, <3>1, <3>2 DEF StockRows
  <2>4. -qty \in Int /\ -qty <= 0
    BY <2>2
  <2>5. Write(r, row, -qty)
    BY <1>6 DEF WriteConsumed
  <2> HIDE DEF row, qty
  <2> QED
    BY <2>1, <2>3, <2>4, <2>5, WriteTypeInv
<1> QED
  BY <1>1, <1>2, <1>4, <1>5, <1>6 DEF Move

(* The first steps: a slot of each kind is well formed. *)
LEMMA ChangeType ==
  ASSUME NEW i \in Items, NEW d \in Int
  PROVE  /\ Change(i, d) \in Changes
         /\ d >= 0 => Change(i, d) \in Increases
         /\ d <= 0 => Change(i, d) \in Decreases
  BY DEF Change, Changes, Increases, Decreases

LEMMA AdjustReadTypeInv ==
  ASSUME TypeInv, NEW r \in Requests, AdjustRead(r)
  PROVE  TypeInv'
<1>1. PICK i \in Items, delta \in Qty \cup {-q : q \in Qty} :
        req' = [req EXCEPT ![r] = [Begin(r, "adjust", "write") EXCEPT
                   !.todo = <<Change(i, delta)>>, !.seen = stock[i]]]
  BY DEF AdjustRead
<1> DEFINE begin == Begin(r, "adjust", "write")
           todo == <<Change(i, delta)>>
           slot == [begin EXCEPT !.todo = todo, !.seen = stock[i]]
<1>2. delta \in Int
  BY ConstantsAssumption DEF ConstantsAssumption
<1>3. todo \in Seq(Changes) /\ todo # <<>>
  BY <1>2, ChangeType
<1>4. begin \in RequestStates /\ begin.op = "adjust"
  BY BeginType DEF Ops, Begin, Idle
<1>5. stock[i] \in StockRows
  BY DEF TypeInv, TypeOK
<1>6. slot \in RequestStates
  <2> HIDE DEF begin, todo
  <2> QED
    BY <1>3, <1>4, <1>5 DEF RequestStates
<1>7. WellFormed(slot) /\ ExceptionAtHand(slot)
  <2>1. slot.op = "adjust" /\ slot.todo = todo
    BY <1>4 DEF RequestStates
  <2> HIDE DEF slot, todo
  <2> QED
    BY <1>3, <2>1 DEF WellFormed, ExceptionAtHand, JobOps, OrderOps
<1>8. /\ begun' \in Nat
      /\ UNCHANGED <<stock, opening, ledger, orders, supplier, jobs, exceptions>>
  BY BegunType DEF AdjustRead
<1>9. req' = [req EXCEPT ![r] = slot]
  BY <1>1
<1> HIDE DEF slot
<1> QED
  BY <1>6, <1>7, <1>8, <1>9, SlotStep

LEMMA TransferReadTypeInv ==
  ASSUME TypeInv, NEW r \in Requests, TransferRead(r)
  PROVE  TypeInv'
<1>1. PICK s \in Skus, from \in Branches, to \in Branches, qty \in Qty :
        req' = [req EXCEPT ![r] = [Begin(r, "transfer", "write") EXCEPT
                   !.todo = <<Change(<<from, s>>, -qty), Change(<<to, s>>, qty)>>,
                   !.seen = stock[<<from, s>>]]]
  BY DEF TransferRead
<1> DEFINE begin == Begin(r, "transfer", "write")
           todo == <<Change(<<from, s>>, -qty), Change(<<to, s>>, qty)>>
           slot == [begin EXCEPT !.todo = todo, !.seen = stock[<<from, s>>]]
<1>2. qty \in Int /\ -qty \in Int /\ <<from, s>> \in Items /\ <<to, s>> \in Items
  BY ConstantsAssumption DEF ConstantsAssumption, Items
<1>3. todo \in Seq(Changes) /\ todo # <<>>
  <2>1. Change(<<from, s>>, -qty) \in Changes /\ Change(<<to, s>>, qty) \in Changes
    BY <1>2, ChangeType
  <2> QED
    BY <2>1
<1>4. begin \in RequestStates /\ begin.op = "transfer"
  BY BeginType DEF Ops, Begin, Idle
<1>5. stock[<<from, s>>] \in StockRows
  BY <1>2 DEF TypeInv, TypeOK
<1>6. slot \in RequestStates
  <2> HIDE DEF begin, todo
  <2> QED
    BY <1>3, <1>4, <1>5 DEF RequestStates
<1>7. WellFormed(slot) /\ ExceptionAtHand(slot)
  <2>1. slot.op = "transfer" /\ slot.todo = todo
    BY <1>4 DEF RequestStates
  <2> HIDE DEF slot, todo
  <2> QED
    BY <1>3, <2>1 DEF WellFormed, ExceptionAtHand, JobOps, OrderOps
<1>8. /\ begun' \in Nat
      /\ UNCHANGED <<stock, opening, ledger, orders, supplier, jobs, exceptions>>
  BY BegunType DEF TransferRead
<1>9. req' = [req EXCEPT ![r] = slot]
  BY <1>1
<1> HIDE DEF slot
<1> QED
  BY <1>6, <1>7, <1>8, <1>9, SlotStep

(* A handler that ends leaves an idle slot, also where exceptions were      *)
(* inserted or changed status.                                              *)
LEMMA EndType ==
  ASSUME TypeInv, NEW r \in Requests, End(r),
         \A j \in Jobs : DOMAIN exceptions[j] \subseteq DOMAIN exceptions'[j]
  PROVE  req' \in [Requests -> RequestStates] /\ ArgumentsPresent'
<1>1. req' \in [Requests -> RequestStates]
  BY IdleType DEF End, TypeInv, TypeOK
<1>2. ASSUME NEW p \in Requests
      PROVE  WellFormed(req'[p]) /\ ExceptionAtHand(req[p])'
  <2>1. CASE p = r
    <3>1. req'[p] = Idle
      BY <2>1 DEF End, TypeInv, TypeOK
    <3> QED
      BY <3>1, IdleType DEF ExceptionAtHand, Idle
  <2>2. CASE p # r
    <3>1. req'[p] = req[p]
      BY <2>2 DEF End, TypeInv, TypeOK
    <3>2. WellFormed(req[p]) /\ ExceptionAtHand(req[p])
      BY SlotType
    <3>3. req[p].op \in {"resolve", "ignore"} => req[p].job \in Jobs
      BY <3>2 DEF WellFormed, JobOps
    <3> QED
      BY <3>1, <3>2, <3>3 DEF ExceptionAtHand
  <2> QED
    BY <2>1, <2>2
<1>3. \A p \in Requests : WellFormed(req'[p]) = WellFormed(req[p])'
  BY DEF WellFormed
<1> QED
  BY <1>1, <1>2, <1>3 DEF ArgumentsPresent

LEMMA StockTypeInv ==
  ASSUME TypeInv, NEW r \in Requests, Stock(r)
  PROVE  TypeInv'
<1>1. CASE AdjustRead(r)
  BY <1>1, AdjustReadTypeInv
<1>2. CASE TransferRead(r)
  BY <1>2, TransferReadTypeInv
<1>3. CASE AdjustCommit(r) \/ TransferCommit(r)
  <2>1. /\ Store(r) /\ End(r)
        /\ UNCHANGED <<opening, receipts, used, orders, supplier, jobs,
                       exceptions, begun>>
    BY <1>3 DEF AdjustCommit, TransferCommit
  <2>2. req' \in [Requests -> RequestStates] /\ ArgumentsPresent'
    BY <2>1, EndType
  <2>3. stock' \in [Items -> StockRows] /\ moved' \in [Items -> Int]
    BY <2>1, StoreType
  <2>4. transfers' \in [Items -> Int]
    <3>1. \A i \in Items : transfers[i] \in Int /\ req[r].moves[i] \in Int
      BY SlotType DEF TypeInv, TypeOK, RequestStates
    <3>2. CASE AdjustCommit(r)
      BY <3>2 DEF AdjustCommit, TypeInv, TypeOK
    <3>3. CASE TransferCommit(r)
      BY <3>1, <3>3 DEF TransferCommit
    <3> QED
      BY <1>3, <3>2, <3>3
  <2> QED
    BY <2>1, <2>2, <2>3, <2>4 DEF TypeInv, TypeOK
<1> QED
  BY <1>1, <1>2, <1>3 DEF Stock

(* A job's handler that has read, and not locked, the quote or the job. *)
LEMMA JobReadTypeInv ==
  ASSUME TypeInv, NEW r \in Requests, AcceptRead(r) \/ CompleteRead(r)
  PROVE  TypeInv'
<1>1. PICK j \in Jobs, op \in {"reserve", "consume"} :
        req' = [req EXCEPT ![r] = [Begin(r, op, "lock") EXCEPT !.job = j]]
  BY DEF AcceptRead, CompleteRead
<1> DEFINE begin == Begin(r, op, "lock")
           slot == [begin EXCEPT !.job = j]
<1>2. /\ begin \in RequestStates /\ begin.op = op /\ begin.step = "lock"
      /\ begin.todo = <<>>
  BY BeginType DEF Ops, Begin, Idle
<1>3. slot \in RequestStates
  <2> HIDE DEF begin
  <2> QED
    BY <1>2 DEF RequestStates
<1>4. WellFormed(slot) /\ ExceptionAtHand(slot)
  <2>1. /\ slot.op = op /\ slot.step = "lock" /\ slot.todo = <<>>
        /\ slot.job = j
    BY <1>2 DEF RequestStates
  <2> HIDE DEF slot
  <2> QED
    BY <2>1 DEF WellFormed, ExceptionAtHand, JobOps, OrderOps
<1>5. /\ req' = [req EXCEPT ![r] = slot] /\ begun' \in Nat
      /\ UNCHANGED <<stock, opening, ledger, orders, supplier, jobs, exceptions>>
  BY <1>1 DEF AcceptRead, CompleteRead, TypeInv, TypeOK
<1> HIDE DEF slot
<1> QED
  BY <1>3, <1>4, <1>5, SlotStep

LEMMA JobLockTypeInv ==
  ASSUME TypeInv, NEW r \in Requests, AcceptLock(r) \/ CompleteLock(r)
  PROVE  TypeInv'
<1>1. /\ req[r] \in RequestStates /\ WellFormed(req[r])
      /\ ExceptionAtHand(req[r])
  BY SlotType
<1>2. /\ req[r].op \in {"reserve", "consume"} /\ req[r].job \in Jobs
  BY <1>1 DEF AcceptLock, CompleteLock, At, WellFormed, JobOps
<1>3. PICK todo : /\ todo \in Seq(Changes)
                  /\ req[r].op = "reserve" => todo \in Seq(Increases)
                  /\ req[r].op = "consume" => todo \in Seq(Decreases)
                  /\ req' = [req EXCEPT ![r].step = "read", ![r].todo = todo]
  <2>1. /\ PartChanges(req[r].job, 1) \in Seq(Increases)
        /\ PartChanges(req[r].job, 1) \in Seq(Changes)
        /\ PartChanges(req[r].job, -1) \in Seq(Decreases)
        /\ PartChanges(req[r].job, -1) \in Seq(Changes)
    BY <1>2, PartsType, SignedAreChanges
  <2>2. /\ <<>> \in Seq(Increases) /\ <<>> \in Seq(Decreases)
        /\ <<>> \in Seq(Changes)
    OBVIOUS
  <2>3. CASE AcceptLock(r)
    BY <2>1, <2>2, <2>3 DEF AcceptLock, At
  <2>4. CASE CompleteLock(r)
    BY <2>1, <2>2, <2>4 DEF CompleteLock, At
  <2> QED
    BY <2>3, <2>4
<1> DEFINE slot == [req[r] EXCEPT !.step = "read", !.todo = todo]
<1>4. slot \in RequestStates
  BY <1>1, <1>3 DEF RequestStates
<1>5. WellFormed(slot) /\ ExceptionAtHand(slot)
  <2>1. /\ slot.op = req[r].op /\ slot.step = "read" /\ slot.todo = todo
        /\ slot.job = req[r].job
    BY <1>1 DEF RequestStates
  <2> HIDE DEF slot
  <2> QED
    BY <1>2, <1>3, <2>1 DEF WellFormed, ExceptionAtHand, JobOps, OrderOps
<1>6. /\ req' = [req EXCEPT ![r] = slot] /\ begun' \in Nat
      /\ UNCHANGED <<stock, opening, ledger, orders, supplier, jobs, exceptions>>
  BY <1>3 DEF AcceptLock, CompleteLock, TypeInv, TypeOK
<1> HIDE DEF slot
<1> QED
  BY <1>4, <1>5, <1>6, SlotStep

LEMMA ResolveReadTypeInv ==
  ASSUME TypeInv, NEW r \in Requests, ResolveRead(r)
  PROVE  TypeInv'
<1>1. PICK j \in Jobs, s \in Skus, n \in UNION {Pending(k) : k \in Jobs} :
        LET i == <<JobBranch[j], s>>
            base == [Begin(r, "resolve", "read") EXCEPT
                       !.job = j, !.exc = n,
                       !.todo = <<Change(i, -exceptions[j][n].qty)>>]
        IN  /\ n \in Pending(j)
            /\ \/ req' = [req EXCEPT ![r] = base]
               \/ req' = [req EXCEPT ![r] = [base EXCEPT !.rows[i] = NewItem(0)]]
  BY DEF ResolveRead
<1> DEFINE i == <<JobBranch[j], s>>
           begin == Begin(r, "resolve", "read")
           todo == <<Change(i, -exceptions[j][n].qty)>>
           base == [begin EXCEPT !.job = j, !.exc = n, !.todo = todo]
           slot == req'[r]
<1>2. i \in Items /\ n \in DOMAIN exceptions[j] /\ n \in Nat
  <2>1. exceptions[j] \in Seq(ExceptionRows)
    BY DEF TypeInv, TypeOK
  <2> QED
    BY <1>1, <2>1, ElementsOf, ConstantsAssumption
    DEF ConstantsAssumption, Items, Pending
<1>3. todo \in Seq(Changes) /\ todo \in Seq(Decreases) /\ todo # <<>>
  <2>1. exceptions[j] \in Seq(ExceptionRows)
    BY DEF TypeInv, TypeOK
  <2>2. exceptions[j][n] \in ExceptionRows
    BY <1>2, <2>1, ElementsOf
  <2>3. -exceptions[j][n].qty \in Int /\ -exceptions[j][n].qty <= 0
    BY <2>2 DEF ExceptionRows
  <2>4. Change(i, -exceptions[j][n].qty) \in Changes \cap Decreases
    BY <1>2, <2>3, ChangeType
  <2> QED
    BY <2>4
<1>4. begin \in RequestStates /\ begin.op = "resolve" /\ begin.step = "read"
  BY BeginType DEF Ops, Begin, Idle
<1>5. /\ base \in RequestStates
      /\ base.op = "resolve" /\ base.step = "read" /\ base.todo = todo
      /\ base.job = j /\ base.exc = n
  <2> HIDE DEF begin, todo
  <2> QED
    BY <1>2, <1>3, <1>4 DEF RequestStates
<1>6. slot = base \/ slot = [base EXCEPT !.rows[i] = NewItem(0)]
  BY <1>1 DEF TypeInv, TypeOK
<1>7. /\ slot \in RequestStates
      /\ slot.op = "resolve" /\ slot.step = "read" /\ slot.todo = todo
      /\ slot.job = j /\ slot.exc = n
  <2> DEFINE rows == [base.rows EXCEPT ![i] = NewItem(0)]
             fresh == [base EXCEPT !.rows = rows]
  <2>1. NewItem(0) \in StockRows
    BY RowTypes
  <2>2. slot = base \/ slot = fresh
    <3> HIDE DEF slot, base
    <3> QED
      BY <1>5, <1>6 DEF RequestStates
  <2>3. rows \in [Items -> StockRows \cup {None}]
    <3> HIDE DEF base, i
    <3> QED
      BY <1>2, <1>5, <2>1 DEF RequestStates
  <2>4. /\ fresh \in RequestStates
        /\ fresh.op = base.op /\ fresh.step = base.step
        /\ fresh.todo = base.todo /\ fresh.job = base.job
        /\ fresh.exc = base.exc
    <3> HIDE DEF base, rows
    <3> QED
      BY <1>5, <2>3 DEF RequestStates
  <2> HIDE DEF slot, base, fresh, todo
  <2> QED
    BY <1>5, <2>2, <2>4
<1>10. WellFormed(slot) /\ ExceptionAtHand(slot)
  <2> HIDE DEF slot, todo
  <2> QED
    BY <1>1, <1>2, <1>3, <1>7 DEF WellFormed, ExceptionAtHand, JobOps, OrderOps
<1>8. /\ begun' \in Nat
      /\ UNCHANGED <<stock, opening, ledger, orders, supplier, jobs, exceptions>>
  BY DEF ResolveRead, TypeInv, TypeOK
<1>9. req' = [req EXCEPT ![r] = slot]
  BY <1>1 DEF TypeInv, TypeOK
<1> HIDE DEF slot
<1> QED
  BY <1>7, <1>8, <1>9, <1>10, SlotStep

LEMMA IgnoreReadTypeInv ==
  ASSUME TypeInv, NEW r \in Requests, IgnoreRead(r)
  PROVE  TypeInv'
<1>1. PICK j \in Jobs, n \in UNION {Pending(k) : k \in Jobs} :
        n \in Pending(j) /\ req' = [req EXCEPT ![r] = [Begin(r, "ignore", "write") EXCEPT
                                     !.job = j, !.exc = n]]
  BY DEF IgnoreRead
<1> DEFINE begin == Begin(r, "ignore", "write")
           slot == [begin EXCEPT !.job = j, !.exc = n]
<1>2. n \in DOMAIN exceptions[j] /\ n \in Nat
  <2>1. exceptions[j] \in Seq(ExceptionRows)
    BY DEF TypeInv, TypeOK
  <2> QED
    BY <1>1, <2>1, ElementsOf DEF Pending
<1>3. begin \in RequestStates /\ begin.op = "ignore"
  BY BeginType DEF Ops, Begin, Idle
<1>4. slot \in RequestStates
  <2> HIDE DEF begin
  <2> QED
    BY <1>2, <1>3 DEF RequestStates
<1>5. WellFormed(slot) /\ ExceptionAtHand(slot)
  <2>1. slot.op = "ignore" /\ slot.job = j /\ slot.exc = n
    BY <1>3 DEF RequestStates
  <2> HIDE DEF slot
  <2> QED
    BY <1>2, <2>1 DEF WellFormed, ExceptionAtHand, ItemOps, OrderOps
<1>6. /\ req' = [req EXCEPT ![r] = slot] /\ begun' \in Nat
      /\ UNCHANGED <<stock, opening, ledger, orders, supplier, jobs, exceptions>>
  BY <1>1 DEF IgnoreRead, TypeInv, TypeOK
<1> HIDE DEF slot
<1> QED
  BY <1>4, <1>5, <1>6, SlotStep

LEMMA JobCommitTypeInv ==
  ASSUME TypeInv, NEW r \in Requests,
         AcceptCommit(r) \/ CompleteCommit(r) \/ ResolveCommit(r)
  PROVE  TypeInv'
<1> DEFINE j == req[r].job
<1>1. /\ req[r] \in RequestStates /\ WellFormed(req[r])
      /\ ExceptionAtHand(req[r])
  BY SlotType
<1>2. req[r].op \in {"reserve", "consume", "resolve"} /\ j \in Jobs
  BY <1>1 DEF AcceptCommit, CompleteCommit, ResolveCommit, Written, At,
              WellFormed, JobOps
<1>3. stock' \in [Items -> StockRows] /\ moved' \in [Items -> Int]
  BY StoreType DEF AcceptCommit, CompleteCommit, ResolveCommit
<1>4. jobs' \in [Jobs -> JobRows]
  <2>1. jobs \in [Jobs -> JobRows] /\ req[r].held \in BOOLEAN
    BY <1>1 DEF TypeInv, TypeOK, RequestStates
  <2> DEFINE held == jobs[j].reserved \/ req[r].held
             took == jobs[j].consumed \/ req[r].used > 0
  <2>2. jobs[j] \in JobRows
    BY <1>2, <2>1
  <2>3. held \in BOOLEAN /\ took \in BOOLEAN
    OBVIOUS
  <2>4. ASSUME NEW h \in BOOLEAN
        PROVE  /\ [jobs[j] EXCEPT !.accepted = TRUE, !.reserved = h] \in JobRows
               /\ [jobs[j] EXCEPT !.completed = TRUE, !.consumed = h] \in JobRows
               /\ [jobs[j] EXCEPT !.consumed = TRUE] \in JobRows
    BY <2>2 DEF JobRows
  <2>5. CASE AcceptCommit(r)
    <3>1. jobs' = [jobs EXCEPT ![j] =
                     [jobs[j] EXCEPT !.accepted = TRUE, !.reserved = held]]
      BY <1>2, <2>1, <2>5 DEF AcceptCommit
    <3> HIDE DEF held
    <3> QED
      BY <2>1, <2>3, <2>4, <3>1
  <2>6. CASE CompleteCommit(r)
    <3>1. jobs' = [jobs EXCEPT ![j] =
                     [jobs[j] EXCEPT !.completed = TRUE, !.consumed = took]]
      BY <1>2, <2>1, <2>6 DEF CompleteCommit
    <3> HIDE DEF took
    <3> QED
      BY <2>1, <2>3, <2>4, <3>1
  <2>7. CASE ResolveCommit(r)
    <3>1. jobs' = [jobs EXCEPT ![j] = [jobs[j] EXCEPT !.consumed = TRUE]]
      BY <1>2, <2>1, <2>7 DEF ResolveCommit
    <3> QED
      BY <2>1, <2>4, <3>1
  <2> QED
    BY <2>5, <2>6, <2>7
<1>5. used' \in [Jobs -> Nat]
  <2>1. used \in [Jobs -> Nat] /\ req[r].used \in Nat
    BY <1>1 DEF TypeInv, TypeOK, RequestStates
  <2>2. CASE AcceptCommit(r)
    BY <2>1, <2>2 DEF AcceptCommit
  <2>3. CASE ~AcceptCommit(r)
    <3>1. used' = [used EXCEPT ![j] = @ + req[r].used]
      BY <2>3 DEF CompleteCommit, ResolveCommit
    <3> QED
      BY <1>2, <2>1, <3>1
  <2> QED
    BY <2>2, <2>3
<1>6. /\ exceptions' \in [Jobs -> Seq(ExceptionRows)]
      /\ \A k \in Jobs : DOMAIN exceptions[k] \subseteq DOMAIN exceptions'[k]
  <2>1. exceptions \in [Jobs -> Seq(ExceptionRows)]
    BY DEF TypeInv, TypeOK
  <2>2. exceptions[j] \in Seq(ExceptionRows)
    BY <1>2, <2>1
  <2>3. CASE AcceptCommit(r)
    BY <2>1, <2>3 DEF AcceptCommit
  <2>4. CASE CompleteCommit(r)
    <3> DEFINE after == exceptions[j] \o req[r].missed
    <3>1. req[r].missed \in Seq(ExceptionRows)
      BY <1>1 DEF RequestStates
    <3>2. after \in Seq(ExceptionRows) /\ DOMAIN exceptions[j] \subseteq DOMAIN after
      BY <2>2, <3>1, Appended
    <3>3. exceptions' = [exceptions EXCEPT ![j] = after]
      BY <2>4 DEF CompleteCommit
    <3> HIDE DEF after
    <3> QED
      BY <1>2, <2>1, <3>2, <3>3
  <2>5. CASE ResolveCommit(r)
    <3> DEFINE n == req[r].exc
               after == [exceptions[j] EXCEPT ![n].status = "resolved"]
    <3>1. n \in DOMAIN exceptions[j]
      BY <1>1, <2>5 DEF ResolveCommit, Written, At, ExceptionAtHand
    <3>2. exceptions[j][n] \in ExceptionRows
      BY <2>2, <3>1, ElementsOf
    <3>3. [exceptions[j][n] EXCEPT !.status = "resolved"] \in ExceptionRows
      BY <3>2 DEF ExceptionRows
    <3>4. after \in Seq(ExceptionRows) /\ DOMAIN after = DOMAIN exceptions[j]
      BY <2>2, <3>1, <3>3
    <3>5. exceptions' = [exceptions EXCEPT ![j] = after]
      BY <2>5 DEF ResolveCommit
    <3> HIDE DEF after
    <3> QED
      BY <1>2, <2>1, <3>4, <3>5
  <2> QED
    BY <2>3, <2>4, <2>5
<1>7. /\ End(r)
      /\ UNCHANGED <<opening, transfers, receipts, orders, supplier, begun>>
  BY DEF AcceptCommit, CompleteCommit, ResolveCommit
<1>8. req' \in [Requests -> RequestStates] /\ ArgumentsPresent'
  BY <1>6, <1>7, EndType
<1> QED
  BY <1>3, <1>4, <1>5, <1>6, <1>7, <1>8 DEF TypeInv, TypeOK

LEMMA IgnoreWriteTypeInv ==
  ASSUME TypeInv, NEW r \in Requests, IgnoreWrite(r)
  PROVE  TypeInv'
<1> DEFINE j == req[r].job
           n == req[r].exc
           after == [exceptions[j] EXCEPT ![n].status = "ignored"]
<1>1. j \in Jobs /\ n \in DOMAIN exceptions[j]
  BY SlotType DEF IgnoreWrite, At, WellFormed, ExceptionAtHand, JobOps
<1>2. exceptions \in [Jobs -> Seq(ExceptionRows)]
      /\ exceptions[j] \in Seq(ExceptionRows)
  BY <1>1 DEF TypeInv, TypeOK
<1>3. exceptions[j][n] \in ExceptionRows
  BY <1>1, <1>2, ElementsOf
<1>4. [exceptions[j][n] EXCEPT !.status = "ignored"] \in ExceptionRows
  BY <1>3 DEF ExceptionRows
<1>5. after \in Seq(ExceptionRows) /\ DOMAIN after = DOMAIN exceptions[j]
  BY <1>1, <1>2, <1>4
<1>6. exceptions' = [exceptions EXCEPT ![j] = after]
  BY DEF IgnoreWrite
<1>7. /\ exceptions' \in [Jobs -> Seq(ExceptionRows)]
      /\ \A k \in Jobs : DOMAIN exceptions[k] \subseteq DOMAIN exceptions'[k]
  <2> HIDE DEF after
  <2> QED
    BY <1>1, <1>2, <1>5, <1>6
<1>8. req' \in [Requests -> RequestStates] /\ ArgumentsPresent'
  BY <1>7, EndType DEF IgnoreWrite
<1> QED
  BY <1>7, <1>8 DEF IgnoreWrite, TypeInv, TypeOK, ledger

LEMMA WorkTypeInv ==
  ASSUME TypeInv, NEW r \in Requests, Work(r)
  PROVE  TypeInv'
  BY JobReadTypeInv, JobLockTypeInv, JobCommitTypeInv, ResolveReadTypeInv,
     IgnoreReadTypeInv, IgnoreWriteTypeInv DEF Work

(* Lines are made from quantities, and give them back. *)
LEMMA LinesType ==
  /\ \A qty \in SomeLines : OrderLines(qty) \in Lines
  /\ \A lines \in Lines : Quantities(lines) \in [Skus -> Nat]
<1>1. Qty \cup {0} \subseteq Nat
  BY ConstantsAssumption DEF ConstantsAssumption
<1> QED
  BY <1>1 DEF SomeLines, OrderLines, Lines, Quantities

LEMMA CreateOrderTypeInv ==
  ASSUME TypeInv, NEW o \in Orders, CreateOrder(o)
  PROVE  TypeInv'
<1>1. PICK qty \in SomeLines :
        orders' = [orders EXCEPT ![o].status = "draft",
                                 ![o].lines = OrderLines(qty)]
  BY DEF CreateOrder
<1>2. orders' \in [Orders -> OrderRows]
  BY <1>1, LinesType DEF TypeInv, TypeOK, OrderRows, OrderStatus
<1>3. UNCHANGED <<stock, opening, ledger, supplier, jobs, exceptions, begun, req>>
  BY DEF CreateOrder
<1>4. TypeOK'
  BY <1>2, <1>3 DEF TypeInv, TypeOK, ledger
<1>5. ArgumentsPresent'
  BY <1>3 DEF TypeInv, ArgumentsPresent, WellFormed, ExceptionAtHand
<1> QED
  BY <1>4, <1>5 DEF TypeInv

LEMMA ReadOrderTypeInv ==
  ASSUME TypeInv, NEW r \in Requests, NEW o \in Orders,
         NEW op \in {"edit", "submit", "push", "cancel"},
         ReadOrder(r, o, op, "write"), begun' \in Nat
  PROVE  TypeInv'
<1> DEFINE begin == Begin(r, op, "write")
           slot == [begin EXCEPT !.order = o, !.row = orders[o]]
<1>1. begin \in RequestStates /\ begin.op = op
  BY BeginType DEF Ops, Begin, Idle
<1>2. orders[o] \in OrderRows
  BY DEF TypeInv, TypeOK
<1>3. slot \in RequestStates /\ slot.op = op /\ slot.order = o
  <2> HIDE DEF begin
  <2> QED
    BY <1>1, <1>2 DEF RequestStates
<1>4. WellFormed(slot) /\ ExceptionAtHand(slot)
  <2> HIDE DEF slot
  <2> QED
    BY <1>3 DEF WellFormed, ExceptionAtHand, ItemOps, JobOps
<1>5. /\ req' = [req EXCEPT ![r] = slot]
      /\ UNCHANGED <<stock, opening, ledger, orders, supplier, jobs, exceptions>>
  BY DEF ReadOrder
<1> HIDE DEF slot
<1> QED
  BY <1>3, <1>4, <1>5, SlotStep

LEMMA ReceiveReadTypeInv ==
  ASSUME TypeInv, NEW r \in Requests, ReceiveRead(r)
  PROVE  TypeInv'
<1> DEFINE Starts(o, n, over, lines) ==
             req' = [req EXCEPT ![r] = [Begin(r, "receive", "read") EXCEPT
                       !.order = o, !.row = orders[o], !.over = over,
                       !.todo = [k \in 1..n |->
                         Change(<<OrderBranch[o], lines[k][1]>>, lines[k][2])]]]
<1>1. \E o \in Orders, n \in 1..MaxLines, over \in BOOLEAN :
        /\ orders[o].status \in {"submitted", "partial"}
        /\ \E lines \in [1..n -> Skus \X Qty] : Starts(o, n, over, lines)
  BY DEF ReceiveRead
<1>2. PICK o \in Orders, n \in 1..MaxLines, over \in BOOLEAN :
        \E lines \in [1..n -> Skus \X Qty] : Starts(o, n, over, lines)
  <2> HIDE DEF Starts
  <2> QED
    BY <1>1
<1>0. PICK lines \in [1..n -> Skus \X Qty] : Starts(o, n, over, lines)
  <2> HIDE DEF Starts
  <2> QED
    BY <1>2
<1> DEFINE begin == Begin(r, "receive", "read")
           todo == [k \in 1..n |->
                     Change(<<OrderBranch[o], lines[k][1]>>, lines[k][2])]
           slot == [begin EXCEPT !.order = o, !.row = orders[o],
                                 !.over = over, !.todo = todo]
<1>3. todo \in Seq(Increases) /\ todo \in Seq(Changes)
  <2>1. Qty \subseteq Nat /\ OrderBranch[o] \in Branches /\ n \in Nat
    BY ConstantsAssumption DEF ConstantsAssumption
  <2>2. \A k \in 1..n : lines[k][1] \in Skus /\ lines[k][2] \in Qty
    OBVIOUS
  <2>3. \A k \in 1..n :
          Change(<<OrderBranch[o], lines[k][1]>>, lines[k][2]) \in Increases
    BY <2>1, <2>2 DEF Change, Increases, Items
  <2>4. todo \in Seq(Increases)
    BY <2>1, <2>3
  <2> HIDE DEF todo
  <2> QED
    BY <2>4, SignedAreChanges
<1>4. /\ begin \in RequestStates /\ begin.op = "receive"
      /\ begin.step = "read" /\ begin.moves = [i \in Items |-> 0]
  BY BeginType DEF Ops, Begin, Idle
<1>5. orders[o] \in OrderRows
  BY DEF TypeInv, TypeOK
<1>6. /\ slot \in RequestStates
      /\ slot.op = "receive" /\ slot.order = o /\ slot.step = "read"
      /\ slot.todo = todo /\ slot.moves \in [Items -> Nat]
  <2>1. slot = [begin EXCEPT !.order = o, !.row = orders[o],
                             !.over = over, !.todo = todo]
    OBVIOUS
  <2> HIDE DEF begin, todo, slot
  <2>2. slot \in RequestStates
    BY <1>3, <1>4, <1>5, <2>1 DEF RequestStates
  <2>3. /\ slot.op = begin.op /\ slot.order = o /\ slot.step = begin.step
        /\ slot.todo = todo /\ slot.moves = begin.moves
    BY <1>4, <2>1 DEF RequestStates
  <2>4. [i \in Items |-> 0] \in [Items -> Nat]
    OBVIOUS
  <2> QED
    BY <1>4, <2>2, <2>3, <2>4
<1>7. WellFormed(slot) /\ ExceptionAtHand(slot)
  <2> HIDE DEF slot, todo
  <2> QED
    BY <1>3, <1>6 DEF WellFormed, ExceptionAtHand, JobOps, ItemOps
<1>8. /\ req' = [req EXCEPT ![r] = slot] /\ begun' \in Nat
      /\ UNCHANGED <<stock, opening, ledger, orders, supplier, jobs, exceptions>>
  BY <1>0, BegunType DEF ReceiveRead
<1> HIDE DEF slot
<1> QED
  BY <1>6, <1>7, <1>8, SlotStep

(* The lines a receipt leaves are lines, and its movements add up. *)
LEMMA ReceiveEndTypeInv ==
  ASSUME TypeInv, NEW r \in Requests, req[r].op = "receive",
         NEW status \in OrderStatus, ReceiveEnd(r, status)
  PROVE  TypeInv'
<1> DEFINE o == req[r].order
<1>1. req[r] \in RequestStates /\ o \in Orders /\ req[r].moves \in [Items -> Nat]
  BY SlotType DEF WellFormed, OrderOps
<1>2. stock' \in [Items -> StockRows] /\ moved' \in [Items -> Int]
  BY StoreType DEF ReceiveEnd
<1>3. Receipted(r) \in Lines
  <2>1. orders[o].lines \in Lines /\ req[r].row.lines \in Lines
    BY <1>1 DEF TypeInv, TypeOK, OrderRows, RequestStates
  <2> QED
    BY <2>1 DEF Receipted, Lines
<1>4. orders' \in [Orders -> OrderRows]
  <2>1. orders \in [Orders -> OrderRows]
    BY DEF TypeInv, TypeOK
  <2>2. orders' = [orders EXCEPT ![o].lines = Receipted(r), ![o].status = status]
    BY DEF ReceiveEnd
  <2> QED
    BY <1>1, <1>3, <2>1, <2>2 DEF OrderRows
<1>5. receipts' \in [Orders -> [Skus -> Nat]]
  <2> DEFINE sums == [s \in Skus |->
                        receipts[o][s] + req[r].moves[<<OrderBranch[o], s>>]]
  <2>1. receipts \in [Orders -> [Skus -> Nat]]
    BY DEF TypeInv, TypeOK
  <2>2. \A s \in Skus : <<OrderBranch[o], s>> \in Items
    BY <1>1, ConstantsAssumption DEF ConstantsAssumption, Items
  <2>3. sums \in [Skus -> Nat]
    BY <1>1, <2>1, <2>2
  <2>4. receipts' = [receipts EXCEPT ![o] = sums]
    BY DEF ReceiveEnd
  <2> HIDE DEF sums
  <2> QED
    BY <2>1, <2>3, <2>4
<1>6. /\ End(r)
      /\ UNCHANGED <<opening, transfers, used, supplier, jobs, exceptions, begun>>
  BY DEF ReceiveEnd
<1>7. req' \in [Requests -> RequestStates] /\ ArgumentsPresent'
  BY <1>6, EndType
<1> QED
  BY <1>2, <1>4, <1>5, <1>6, <1>7 DEF TypeInv, TypeOK

(* Steps that write the order and end. *)
LEMMA OrderWriteTypeInv ==
  ASSUME TypeInv, NEW r \in Requests,
         EditLinesWrite(r) \/ Stamp(r) \/ CancelWrite(r)
  PROVE  TypeInv'
<1> DEFINE o == req[r].order
<1>1. o \in Orders
  BY SlotType DEF EditLinesWrite, Stamp, CancelWrite, At, WellFormed, OrderOps
<1>2. orders' \in [Orders -> OrderRows]
  <2>1. orders \in [Orders -> OrderRows]
    BY DEF TypeInv, TypeOK
  <2>2. CASE EditLinesWrite(r)
    <3>1. PICK qty \in SomeLines :
            orders' = [orders EXCEPT ![o].lines = OrderLines(qty),
                                     ![o].edition = @ + 1]
      BY <2>2 DEF EditLinesWrite
    <3> QED
      BY <1>1, <2>1, <3>1, LinesType DEF OrderRows
  <2>3. CASE Stamp(r)
    BY <1>1, <2>1, <2>3 DEF Stamp, OrderRows
  <2>4. CASE CancelWrite(r)
    BY <1>1, <2>1, <2>4 DEF CancelWrite, OrderRows, OrderStatus
  <2> QED
    BY <2>2, <2>3, <2>4
<1>3. /\ End(r)
      /\ UNCHANGED <<stock, opening, ledger, supplier, jobs, exceptions, begun>>
  BY DEF EditLinesWrite, Stamp, CancelWrite
<1>4. req' \in [Requests -> RequestStates] /\ ArgumentsPresent'
  BY <1>3, EndType
<1> QED
  BY <1>2, <1>3, <1>4 DEF TypeInv, TypeOK, ledger

LEMMA SubmitWriteTypeInv ==
  ASSUME TypeInv, NEW r \in Requests, SubmitWrite(r)
  PROVE  TypeInv'
<1> DEFINE o == req[r].order
           row == orders'[o]
           slot == [req[r] EXCEPT !.op = "push", !.row = row]
<1>1. req[r] \in RequestStates /\ o \in Orders
  BY SlotType DEF SubmitWrite, At, WellFormed, OrderOps
<1>2. orders' \in [Orders -> OrderRows]
  BY <1>1 DEF SubmitWrite, TypeInv, TypeOK, OrderRows, OrderStatus
<1>3. slot \in RequestStates /\ slot.op = "push" /\ slot.order = o
  BY <1>1, <1>2 DEF RequestStates, Ops
<1>4. WellFormed(slot) /\ ExceptionAtHand(slot)
  <2> HIDE DEF slot
  <2> QED
    BY <1>1, <1>3 DEF WellFormed, ExceptionAtHand, ItemOps, JobOps
<1>5. /\ req' = [req EXCEPT ![r] = slot]
      /\ UNCHANGED <<stock, opening, ledger, supplier, jobs, exceptions, begun>>
  <2>1. req' = [req EXCEPT ![r].op = "push", ![r].row = row]
    BY DEF SubmitWrite
  <2>2. req \in [Requests -> RequestStates]
    BY DEF TypeInv, TypeOK
  <2>3. req' = [req EXCEPT ![r] = slot]
    <3> HIDE DEF row
    <3> QED
      BY <2>1, <2>2
  <2> QED
    BY <2>3 DEF SubmitWrite
<1> HIDE DEF slot
<1>6. req' \in [Requests -> RequestStates] /\ ArgumentsPresent'
  BY <1>3, <1>4, <1>5, SlotReplaced
<1> QED
  BY <1>2, <1>5, <1>6 DEF TypeInv, TypeOK, ledger

LEMMA PushTypeInv ==
  ASSUME TypeInv, NEW r \in Requests, Push(r)
  PROVE  TypeInv'
<1> DEFINE o == req[r].order
           slot == [req[r] EXCEPT !.step = "stamp"]
<1>1. req[r] \in RequestStates /\ o \in Orders /\ req[r].op = "push"
  BY SlotType DEF Push, At, WellFormed, OrderOps
<1>2. supplier' \in [Orders -> [Skus -> Nat] \cup {None}]
  <2>1. Quantities(req[r].row.lines) \in [Skus -> Nat]
    BY <1>1, LinesType DEF RequestStates, OrderRows
  <2> QED
    BY <1>1, <2>1 DEF Push, TypeInv, TypeOK
<1>3. slot \in RequestStates /\ slot.op = "push" /\ slot.order = o
  BY <1>1 DEF RequestStates
<1>4. WellFormed(slot) /\ ExceptionAtHand(slot)
  <2> HIDE DEF slot
  <2> QED
    BY <1>1, <1>3 DEF WellFormed, ExceptionAtHand, ItemOps, JobOps
<1>5. /\ req' = [req EXCEPT ![r] = slot]
      /\ UNCHANGED <<stock, opening, ledger, orders, jobs, exceptions, begun>>
  BY DEF Push
<1> HIDE DEF slot
<1>6. req' \in [Requests -> RequestStates] /\ ArgumentsPresent'
  BY <1>3, <1>4, <1>5, SlotReplaced
<1> QED
  BY <1>2, <1>5, <1>6 DEF TypeInv, TypeOK, ledger

LEMMA PurchaseTypeInv ==
  ASSUME TypeInv, NEW r \in Requests, Purchase(r)
  PROVE  TypeInv'
<1>1. CASE EditLinesRead(r) \/ SubmitRead(r) \/ SyncRead(r) \/ CancelRead(r)
  <2>1. begun' \in Nat
    BY <1>1, BegunType DEF EditLinesRead, SubmitRead, SyncRead, CancelRead,
                           TypeInv, TypeOK
  <2> QED
    BY <1>1, <2>1, ReadOrderTypeInv
    DEF EditLinesRead, SubmitRead, SyncRead, CancelRead
<1>2. CASE EditLinesWrite(r) \/ Stamp(r) \/ CancelWrite(r)
  BY <1>2, OrderWriteTypeInv
<1>3. CASE SubmitWrite(r) \/ Push(r)
  BY <1>3, SubmitWriteTypeInv, PushTypeInv
<1>4. CASE ReceiveRead(r)
  BY <1>4, ReceiveReadTypeInv
<1>5. CASE ReceiveCommit(r)
  <2>1. req[r] \in RequestStates
    BY SlotType
  <2>2. NextStatus(req[r].row) \in OrderStatus
    BY <2>1 DEF NextStatus, RequestStates, OrderRows, OrderStatus
  <2> QED
    BY <1>5, <2>2, ReceiveEndTypeInv DEF ReceiveCommit, Written, At
<1>6. CASE ReceiveRefused(r)
  <2>1. req[r].op = "receive" /\ req[r].order \in Orders
    BY <1>6, SlotType DEF ReceiveRefused, Refused, At, WellFormed, OrderOps
  <2>2. orders[req[r].order].status \in OrderStatus
    BY <2>1 DEF TypeInv, TypeOK, OrderRows
  <2> QED
    BY <1>6, <2>1, <2>2, ReceiveEndTypeInv DEF ReceiveRefused
<1> QED
  BY <1>1, <1>2, <1>3, <1>4, <1>5, <1>6 DEF Purchase

LEMMA AbortTypeInv ==
  ASSUME TypeInv, NEW r \in Requests, Abort(r)
  PROVE  TypeInv'
<1>1. req' \in [Requests -> RequestStates] /\ ArgumentsPresent'
  BY EndType DEF Abort
<1> QED
  BY <1>1 DEF Abort, TypeInv, TypeOK, ledger

LEMMA NextTypeInv == TypeInv /\ [Next]_vars => TypeInv'
<1> SUFFICES ASSUME TypeInv, [Next]_vars PROVE TypeInv'
  OBVIOUS
<1>1. CASE UNCHANGED vars
  <2>1. TypeOK'
    BY <1>1 DEF vars, ledger, TypeInv, TypeOK
  <2>2. ArgumentsPresent'
    BY <1>1 DEF vars, TypeInv, ArgumentsPresent, WellFormed, ExceptionAtHand
  <2> QED
    BY <2>1, <2>2 DEF TypeInv
<1>2. CASE \E i \in Items : CreateItem(i) \/ EditItem(i)
  BY <1>2, ItemTypeInv
<1>3. CASE \E o \in Orders : CreateOrder(o)
  BY <1>3, CreateOrderTypeInv
<1>4. ASSUME NEW r \in Requests,
             Move(r) \/ Stock(r) \/ Work(r) \/ Purchase(r) \/ Abort(r)
      PROVE  TypeInv'
  BY <1>4, MoveTypeInv, StockTypeInv, WorkTypeInv, PurchaseTypeInv,
     AbortTypeInv
<1> QED
  BY <1>1, <1>2, <1>3, <1>4 DEF Next

(* Whatever interleaves, every row, order, document and exception keeps its *)
(* shape: no reservation below zero, no negative receipt or consumption.    *)
THEOREM TypeCorrect == Spec => []TypeOK
<1>1. TypeInv => TypeOK
  BY DEF TypeInv
<1> QED
  BY <1>1, InitTypeInv, NextTypeInv, PTL DEF Spec

-----------------------------------------------------------------------------
(* When handlers take turns, stock equals its movements.                    *)

OneSlot == \A a, b \in Requests : a = b

(* Row of Inventory, for a slot. *)
RowOf(q, i) == IF q.rows[i] # None THEN q.rows[i] ELSE stock[i]

(* What a transaction wrote differs from what is committed by its moves.    *)
Tracked(q) ==
  \A i \in Items :
    /\ RowOf(q, i).onHand = stock[i].onHand + q.moves[i]
    /\ stock[i].exists => RowOf(q, i).exists
    /\ ~RowOf(q, i).exists => RowOf(q, i).onHand = 0

(* The quantity read for the next write is still that of the row. *)
Current(q) ==
  q.op \in ItemOps /\ q.step = "write" =>
    /\ q.seen.exists =>
         /\ RowOf(q, Head(q.todo).item).exists
         /\ RowOf(q, Head(q.todo).item).onHand = q.seen.onHand
    /\ q.op \in {"reserve", "consume"} => q.seen.exists

(* An item that is not there has no quantity and no movements. *)
Balanced ==
  \A i \in Items :
    /\ stock[i].onHand = opening[i] + moved[i]
    /\ ~stock[i].exists => stock[i].onHand = 0 /\ opening[i] = 0

SlotsTrue == \A r \in Requests : Tracked(req[r]) /\ Current(req[r])

BalanceInv == Balanced /\ SlotsTrue

-----------------------------------------------------------------------------
(* Steps by their effect on the slot.                                       *)

LEMMA InitBalance == Init => BalanceInv
<1> SUFFICES ASSUME Init PROVE BalanceInv
  OBVIOUS
<1>1. Balanced
  BY DEF Init, Balanced, NoItem
<1>2. Tracked(Idle)
  BY DEF Init, Tracked, RowOf, Idle, NoItem
<1>3. Current(Idle)
  BY DEF Current, Idle, ItemOps
<1> QED
  BY <1>1, <1>2, <1>3 DEF Init, BalanceInv, SlotsTrue

(* The slot is replaced and nothing is stored. *)
LEMMA SlotTrue ==
  ASSUME OneSlot, TypeInv, BalanceInv, NEW r \in Requests, NEW q,
         req' = [req EXCEPT ![r] = q], UNCHANGED <<stock, opening, moved>>,
         Tracked(q), Current(q)
  PROVE  BalanceInv'
<1>1. Balanced'
  BY DEF BalanceInv, Balanced
<1>2. ASSUME NEW p \in Requests
      PROVE  Tracked(req[p])' /\ Current(req[p])'
  <2>1. req'[p] = q
    BY DEF OneSlot, TypeInv, TypeOK
  <2>2. Tracked(req[p])'
    BY <2>1 DEF Tracked, RowOf
  <2>3. Current(req[p])'
    BY <2>1 DEF Current, RowOf
  <2> QED
    BY <2>2, <2>3
<1> QED
  BY <1>1, <1>2 DEF BalanceInv, SlotsTrue

LEMMA FreshSlot ==
  ASSUME TypeInv, BalanceInv, NEW q, q.rows = [i \in Items |-> None],
         q.moves = [i \in Items |-> 0]
  PROVE  Tracked(q) /\ \A i \in Items : RowOf(q, i) = stock[i]
<1>1. \A i \in Items : stock[i].onHand \in Int
  BY DEF TypeInv, TypeOK, StockRows
<1>2. \A i \in Items : RowOf(q, i) = stock[i]
  BY DEF RowOf
<1> QED
  BY <1>1, <1>2 DEF Tracked, BalanceInv, Balanced

(* A transaction that ends without storing anything. *)
LEMMA EndTrue ==
  ASSUME OneSlot, TypeInv, BalanceInv, NEW r \in Requests, End(r),
         UNCHANGED <<stock, opening, moved>>
  PROVE  BalanceInv'
<1>1. Tracked(Idle) /\ Current(Idle)
  BY FreshSlot DEF Idle, Current, ItemOps
<1> QED
  BY <1>1, SlotTrue DEF End

(* A transaction that stores what it wrote, and its movements. *)
LEMMA StoreTrue ==
  ASSUME OneSlot, TypeInv, BalanceInv, NEW r \in Requests, Store(r), End(r),
         UNCHANGED opening
  PROVE  BalanceInv'
<1>1. /\ Tracked(req[r]) /\ \A i \in Items : Row(r, i) = RowOf(req[r], i)
      /\ req \in [Requests -> RequestStates]
  BY DEF BalanceInv, SlotsTrue, Row, RowOf, TypeInv, TypeOK
<1>2. ASSUME NEW i \in Items
      PROVE  /\ stock'[i].onHand = opening'[i] + moved'[i]
             /\ ~stock'[i].exists => stock'[i].onHand = 0 /\ opening'[i] = 0
             /\ stock'[i].onHand \in Int
  <2>1. stock'[i] = RowOf(req[r], i) /\ moved'[i] = moved[i] + req[r].moves[i]
    BY <1>1 DEF Store
  <2>2. /\ stock[i].onHand \in Int /\ moved[i] \in Int /\ opening[i] \in Int
        /\ req[r].moves[i] \in Int
    BY <1>1 DEF TypeInv, TypeOK, StockRows, RequestStates
  <2>3. RowOf(req[r], i).onHand = stock[i].onHand + req[r].moves[i]
    BY <1>1 DEF Tracked
  <2>4. ~RowOf(req[r], i).exists => ~stock[i].exists /\ RowOf(req[r], i).onHand = 0
    BY <1>1 DEF Tracked
  <2> QED
    BY <2>1, <2>2, <2>3, <2>4 DEF BalanceInv, Balanced
<1>3. Balanced'
  BY <1>2 DEF Balanced
<1>4. ASSUME NEW p \in Requests
      PROVE  Tracked(req[p])' /\ Current(req[p])'
  <2>1. req'[p] = Idle
    BY <1>1 DEF OneSlot, End
  <2>2. Tracked(req[p])'
    BY <1>2, <2>1 DEF Tracked, RowOf, Idle
  <2>3. Current(req[p])'
    BY <2>1 DEF Current, Idle, ItemOps
  <2> QED
    BY <2>2, <2>3
<1> QED
  BY <1>3, <1>4 DEF BalanceInv, SlotsTrue

(* A step that neither reads nor writes items keeps rows, moves and op, and *)
(* is not at a write.                                                       *)
LEMMA SlotMoved ==
  ASSUME OneSlot, TypeInv, BalanceInv, NEW r \in Requests, NEW q,
         q.rows = req[r].rows, q.moves = req[r].moves,
         q.op \notin ItemOps \/ q.step # "write",
         req' = [req EXCEPT ![r] = q], UNCHANGED <<stock, opening, moved>>
  PROVE  BalanceInv'
<1>1. Tracked(req[r])
  BY DEF BalanceInv, SlotsTrue
<1>2. Tracked(q) /\ Current(q)
  BY <1>1 DEF Tracked, RowOf, Current
<1> QED
  BY <1>2, SlotTrue

(* A write of an existing row that moves onHand by delta. *)
LEMMA WroteTracked ==
  ASSUME TypeInv, NEW q \in RequestStates, WellFormed(q), q.op \in ItemOps,
         q.step = "write", Tracked(q), NEW row \in StockRows, NEW delta \in Int,
         row.exists, row.onHand = RowOf(q, Head(q.todo).item).onHand + delta
  PROVE  Tracked(Wrote(q, row, delta)) /\ Current(Wrote(q, row, delta))
<1> DEFINE i == Head(q.todo).item
           p == Wrote(q, row, delta)
<1>1. i \in Items
  BY NextChange
<1>2. p.step = "read"
  BY DEF Wrote, RequestStates
<1>3. p.rows = [q.rows EXCEPT ![i] = row] /\ p.moves = [q.moves EXCEPT ![i] = @ + delta]
  BY DEF Wrote, RequestStates
<1>4. q.rows \in [Items -> StockRows \cup {None}] /\ q.moves \in [Items -> Int]
  BY DEF RequestStates
<1>5. row # None
  BY NoneAssumption
<1> HIDE DEF p
<1>6. ASSUME NEW k \in Items
      PROVE  /\ RowOf(p, k).onHand = stock[k].onHand + p.moves[k]
             /\ stock[k].exists => RowOf(p, k).exists
             /\ ~RowOf(p, k).exists => RowOf(p, k).onHand = 0
  <2>1. CASE k = i
    <3>1. RowOf(p, k) = row /\ p.moves[k] = q.moves[i] + delta
      BY <1>1, <1>3, <1>4, <1>5, <2>1 DEF RowOf
    <3>2. RowOf(q, i).onHand = stock[i].onHand + q.moves[i]
      BY <1>1 DEF Tracked
    <3>3. stock[i].onHand \in Int /\ q.moves[i] \in Int
      BY <1>1, <1>4 DEF TypeInv, TypeOK, StockRows
    <3>4. row.onHand = RowOf(q, i).onHand + delta
      OBVIOUS
    <3> HIDE DEF i
    <3> QED
      BY <2>1, <3>1, <3>2, <3>3, <3>4
  <2>2. CASE k # i
    <3>1. p.rows[k] = q.rows[k] /\ p.moves[k] = q.moves[k]
      BY <1>3, <1>4, <2>2
    <3> QED
      BY <3>1 DEF Tracked, RowOf
  <2> QED
    BY <2>1, <2>2
<1>7. Tracked(p) /\ Current(p)
  BY <1>2, <1>6 DEF Tracked, Current
<1> QED
  BY <1>7 DEF p

LEMMA MoveBalance ==
  ASSUME OneSlot, TypeInv, BalanceInv, NEW r \in Requests, Move(r)
  PROVE  BalanceInv'
<1> DEFINE q == req[r]
           i == Head(q.todo).item
           delta == Head(q.todo).delta
<1>1. /\ q \in RequestStates /\ WellFormed(q) /\ Tracked(q) /\ Current(q)
      /\ \A k \in Items : Row(r, k) \in StockRows /\ Row(r, k) = RowOf(q, k)
      /\ q.seen \in StockRows
  BY SlotType DEF BalanceInv, SlotsTrue, Row, RowOf, RequestStates
<1>2. CASE ReadItem(r)
  <2> DEFINE slot == [q EXCEPT !.step = "write", !.seen = Row(r, i)]
  <2>1. /\ slot.rows = q.rows /\ slot.moves = q.moves /\ slot.todo = q.todo
        /\ slot.op = q.op /\ slot.seen = Row(r, i)
    BY <1>1 DEF RequestStates
  <2>2. q.op \in {"reserve", "consume"} => Row(r, i).exists
    BY <1>2 DEF ReadItem, Stocked
  <2>3. Row(r, i) = RowOf(q, i)
    BY DEF Row, RowOf
  <2>4. req' = [req EXCEPT ![r] = slot] /\ UNCHANGED <<stock, opening, moved>>
    BY <1>2 DEF ReadItem, ledger
  <2> HIDE DEF slot
  <2>5. Tracked(slot) /\ Current(slot)
    BY <1>1, <2>1, <2>2, <2>3 DEF Tracked, Current, RowOf
  <2> QED
    BY <2>4, <2>5, SlotTrue
<1>3. CASE SkipItem(r)
  <2> DEFINE slot == req'[r]
  <2>1. req' = [req EXCEPT ![r] = slot] /\ UNCHANGED <<stock, opening, moved>>
    BY <1>3 DEF SkipItem, ledger, TypeInv, TypeOK
  <2>2. slot.rows = q.rows /\ slot.moves = q.moves /\ slot.step # "write"
    BY <1>1, <1>3 DEF SkipItem, TypeInv, TypeOK, RequestStates
  <2> HIDE DEF slot
  <2> QED
    BY <2>1, <2>2, SlotMoved
<1>4. ASSUME NEW row \in StockRows, NEW d \in Int, q.op \in ItemOps,
             q.step = "write", Write(r, row, d), row.exists,
             row.onHand = RowOf(q, i).onHand + d
      PROVE  BalanceInv'
  <2>1. Tracked(Wrote(q, row, d)) /\ Current(Wrote(q, row, d))
    BY <1>1, <1>4, WroteTracked
  <2>2. req' = [req EXCEPT ![r] = Wrote(q, row, d)] /\ UNCHANGED <<stock, opening, moved>>
    BY <1>4 DEF Write, ledger
  <2> QED
    BY <2>1, <2>2, SlotTrue
<1>5. CASE WriteOnHand(r)
  <2>1. q.op \in ItemOps /\ q.step = "write"
    BY <1>5 DEF WriteOnHand, ItemOps
  <2>2. i \in Items /\ delta \in Int /\ Row(r, i) \in StockRows /\ Row(r, i) = RowOf(q, i)
    BY <1>1, <2>1, NextChange
  <2>3. CASE q.seen.exists
    <3> DEFINE row == [Row(r, i) EXCEPT !.onHand = q.seen.onHand + delta]
    <3>1. row \in StockRows /\ row.exists /\ row.onHand = RowOf(q, i).onHand + delta
      BY <1>1, <2>1, <2>2, <2>3 DEF StockRows, Current
    <3>2. Write(r, row, delta)
      BY <1>5, <2>3 DEF WriteOnHand
    <3> HIDE DEF row, delta
    <3> QED
      BY <1>4, <2>1, <2>2, <3>1, <3>2
  <2>4. CASE ~q.seen.exists
    <3>1. Write(r, NewItem(delta), delta) /\ ~RowOf(q, i).exists
      BY <1>5, <2>2, <2>4 DEF WriteOnHand
    <3>2. RowOf(q, i).onHand = 0
      BY <1>1, <2>2, <3>1 DEF Tracked
    <3>3. /\ NewItem(delta) \in StockRows /\ NewItem(delta).exists
          /\ NewItem(delta).onHand = RowOf(q, i).onHand + delta
      BY <2>2, <3>2, RowTypes DEF NewItem
    <3> QED
      BY <1>4, <2>1, <2>2, <3>1, <3>3
  <2> QED
    BY <2>3, <2>4
<1>6. CASE WriteReserved(r)
  <2>1. q.op = "reserve" /\ q.op \in ItemOps /\ q.step = "write"
    BY <1>6 DEF WriteReserved, At, ItemOps
  <2>2. /\ i \in Items /\ delta \in Nat /\ Row(r, i) \in StockRows
        /\ Row(r, i) = RowOf(q, i) /\ q.seen.exists
    BY <1>1, <2>1, NextChange DEF Current
  <2> DEFINE row == [Row(r, i) EXCEPT !.reserved = q.seen.reserved + delta]
  <2>3. row \in StockRows /\ row.exists /\ row.onHand = RowOf(q, i).onHand + 0
    BY <1>1, <2>1, <2>2 DEF StockRows, Current
  <2>4. Write(r, row, 0)
    BY <1>6 DEF WriteReserved
  <2> HIDE DEF row
  <2> QED
    BY <1>4, <2>1, <2>3, <2>4
<1>7. CASE WriteConsumed(r)
  <2>1. q.op = "consume" /\ q.op \in ItemOps /\ q.step = "write"
    BY <1>7 DEF WriteConsumed, At, ItemOps
  <2>2. /\ i \in Items /\ delta \in Int /\ delta <= 0 /\ Row(r, i) \in StockRows
        /\ Row(r, i) = RowOf(q, i) /\ q.seen.exists
    BY <1>1, <2>1, NextChange DEF Current
  <2> DEFINE qty == -delta
             left == IF q.seen.reserved > qty THEN q.seen.reserved - qty ELSE 0
             row == [Row(r, i) EXCEPT !.onHand = q.seen.onHand - qty,
                                      !.reserved = left]
  <2>3. /\ qty \in Nat /\ left \in Nat /\ q.seen.onHand - qty \in Int
        /\ q.seen.onHand - qty = q.seen.onHand + (-qty) /\ -qty \in Int
    BY <1>1, <2>2 DEF StockRows
  <2>4. Write(r, row, -qty)
    BY <1>7 DEF WriteConsumed
  <2>5. RowOf(q, i).exists /\ RowOf(q, i).onHand = q.seen.onHand
    BY <1>1, <2>1, <2>2 DEF Current
  <2> HIDE DEF qty, left
  <2>6. row \in StockRows /\ row.exists /\ row.onHand = RowOf(q, i).onHand + (-qty)
    BY <2>2, <2>3, <2>5 DEF StockRows
  <2> HIDE DEF row
  <2> QED
    BY <1>4, <2>1, <2>3, <2>4, <2>6
<1> QED
  BY <1>2, <1>3, <1>5, <1>6, <1>7 DEF Move

-----------------------------------------------------------------------------
(* The handlers.                                                            *)

LEMMA StockBalance ==
  ASSUME OneSlot, TypeInv, BalanceInv, NEW r \in Requests, Stock(r)
  PROVE  BalanceInv'
<1>1. ASSUME NEW op \in {"adjust", "transfer"}, NEW i \in Items, NEW todo,
             todo # <<>>, Head(todo).item = i, stock[i].exists,
             req' = [req EXCEPT ![r] = [Begin(r, op, "write") EXCEPT
                       !.todo = todo, !.seen = stock[i]]],
             UNCHANGED <<stock, opening, moved>>
      PROVE  BalanceInv'
  <2> DEFINE slot == [Begin(r, op, "write") EXCEPT !.todo = todo, !.seen = stock[i]]
  <2>1. /\ slot.op = op /\ slot.todo = todo /\ slot.seen = stock[i]
        /\ slot.rows = [k \in Items |-> None] /\ slot.moves = [k \in Items |-> 0]
    BY DEF Begin, Idle
  <2>2. req' = [req EXCEPT ![r] = slot]
    BY <1>1
  <2> HIDE DEF slot
  <2>3. Tracked(slot) /\ RowOf(slot, i) = stock[i]
    BY <2>1, FreshSlot
  <2>4. Current(slot)
    BY <1>1, <2>1, <2>3 DEF Current
  <2> QED
    BY <1>1, <2>2, <2>3, <2>4, SlotTrue
<1>2. CASE AdjustRead(r)
  <2>1. PICK i \in Items, delta \in Qty \cup {-q : q \in Qty} :
          /\ stock[i].exists
          /\ req' = [req EXCEPT ![r] = [Begin(r, "adjust", "write") EXCEPT
                       !.todo = <<Change(i, delta)>>, !.seen = stock[i]]]
    BY <1>2 DEF AdjustRead
  <2>2. <<Change(i, delta)>> # <<>> /\ Head(<<Change(i, delta)>>).item = i
    BY DEF Change
  <2>3. UNCHANGED <<stock, opening, moved>>
    BY <1>2 DEF AdjustRead, ledger
  <2> QED
    BY <1>1, <2>1, <2>2, <2>3
<1>3. CASE TransferRead(r)
  <2>1. PICK s \in Skus, from \in Branches, to \in Branches, qty \in Qty :
          /\ stock[<<from, s>>].exists
          /\ req' = [req EXCEPT ![r] = [Begin(r, "transfer", "write") EXCEPT
               !.todo = <<Change(<<from, s>>, -qty), Change(<<to, s>>, qty)>>,
               !.seen = stock[<<from, s>>]]]
    BY <1>3 DEF TransferRead
  <2> DEFINE todo == <<Change(<<from, s>>, -qty), Change(<<to, s>>, qty)>>
  <2>2. todo # <<>> /\ Head(todo).item = <<from, s>> /\ <<from, s>> \in Items
    BY DEF Change, Items
  <2>3. UNCHANGED <<stock, opening, moved>>
    BY <1>3 DEF TransferRead, ledger
  <2> QED
    BY <1>1, <2>1, <2>2, <2>3
<1>4. CASE AdjustCommit(r) \/ TransferCommit(r)
  BY <1>4, StoreTrue DEF AdjustCommit, TransferCommit
<1> QED
  BY <1>2, <1>3, <1>4 DEF Stock

LEMMA WorkBalance ==
  ASSUME OneSlot, TypeInv, BalanceInv, NEW r \in Requests, Work(r)
  PROVE  BalanceInv'
<1> DEFINE slot == req'[r]
<1>1. req \in [Requests -> RequestStates] /\ req[r] \in RequestStates
  BY SlotType DEF TypeInv, TypeOK
<1>2. CASE AcceptRead(r) \/ CompleteRead(r) \/ IgnoreRead(r)
  <2>1. /\ slot.rows = [i \in Items |-> None] /\ slot.moves = [i \in Items |-> 0]
        /\ slot.op \notin ItemOps \/ slot.step # "write"
        /\ req' = [req EXCEPT ![r] = slot]
    <3>1. CASE AcceptRead(r) \/ CompleteRead(r)
      <4>1. PICK j \in Jobs, op \in {"reserve", "consume"} :
              req' = [req EXCEPT ![r] = [Begin(r, op, "lock") EXCEPT !.job = j]]
        BY <3>1 DEF AcceptRead, CompleteRead
      <4>2. slot = [Begin(r, op, "lock") EXCEPT !.job = j]
        BY <1>1, <4>1
      <4>3. /\ slot.rows = [i \in Items |-> None]
            /\ slot.moves = [i \in Items |-> 0] /\ slot.step = "lock"
        BY <4>2 DEF Begin, Idle
      <4> QED
        BY <4>1, <4>2, <4>3
    <3>2. CASE IgnoreRead(r)
      <4>1. PICK j \in Jobs, n \in UNION {Pending(k) : k \in Jobs} :
              req' = [req EXCEPT ![r] = [Begin(r, "ignore", "write") EXCEPT
                                           !.job = j, !.exc = n]]
        BY <3>2 DEF IgnoreRead
      <4>2. slot = [Begin(r, "ignore", "write") EXCEPT !.job = j, !.exc = n]
        BY <1>1, <4>1
      <4>3. /\ slot.rows = [i \in Items |-> None]
            /\ slot.moves = [i \in Items |-> 0] /\ slot.op = "ignore"
        BY <4>2 DEF Begin, Idle
      <4> QED
        BY <4>1, <4>2, <4>3 DEF ItemOps
    <3> QED
      BY <1>2, <3>1, <3>2
  <2>2. UNCHANGED <<stock, opening, moved>>
    BY <1>2 DEF AcceptRead, CompleteRead, IgnoreRead, ledger
  <2> HIDE DEF slot
  <2>3. Tracked(slot) /\ Current(slot)
    BY <2>1, FreshSlot DEF Current
  <2> QED
    BY <2>1, <2>2, <2>3, SlotTrue
<1>3. CASE AcceptLock(r) \/ CompleteLock(r)
  <2>1. /\ slot.rows = req[r].rows /\ slot.moves = req[r].moves
        /\ slot.step = "read" /\ req' = [req EXCEPT ![r] = slot]
    BY <1>1, <1>3 DEF AcceptLock, CompleteLock, RequestStates
  <2>2. UNCHANGED <<stock, opening, moved>>
    BY <1>3 DEF AcceptLock, CompleteLock, ledger
  <2> HIDE DEF slot
  <2> QED
    BY <2>1, <2>2, SlotMoved
<1>4. CASE AcceptCommit(r) \/ CompleteCommit(r) \/ ResolveCommit(r)
  BY <1>4, StoreTrue DEF AcceptCommit, CompleteCommit, ResolveCommit
<1>5. CASE IgnoreWrite(r)
  BY <1>5, EndTrue DEF IgnoreWrite, ledger
<1>6. CASE ResolveRead(r)
  <2>1. PICK j \in Jobs, s \in Skus, n \in UNION {Pending(k) : k \in Jobs} :
          LET i == <<JobBranch[j], s>>
              begin == [Begin(r, "resolve", "read") EXCEPT
                          !.job = j, !.exc = n,
                          !.todo = <<Change(i, -exceptions[j][n].qty)>>]
          IN  \/ req' = [req EXCEPT ![r] = begin]
              \/ /\ ~stock[i].exists
                 /\ req' = [req EXCEPT ![r] = [begin EXCEPT !.rows[i] = NewItem(0)]]
    BY <1>6 DEF ResolveRead
  <2> DEFINE i == <<JobBranch[j], s>>
             none == [k \in Items |-> None]
             base == [Begin(r, "resolve", "read") EXCEPT
                        !.job = j, !.exc = n,
                        !.todo = <<Change(i, -exceptions[j][n].qty)>>]
             full == [base EXCEPT !.rows[i] = NewItem(0)]
  <2>2. i \in Items
    BY ConstantsAssumption DEF ConstantsAssumption, Items
  <2>3. /\ slot.step = "read" /\ slot.moves = [k \in Items |-> 0]
        /\ req' = [req EXCEPT ![r] = slot]
        /\ \/ slot.rows = none
           \/ ~stock[i].exists /\ slot.rows = [none EXCEPT ![i] = NewItem(0)]
    <3>1. /\ req' = [req EXCEPT ![r] = slot]
          /\ (slot = base \/ (~stock[i].exists /\ slot = full))
      BY <1>1, <2>1
    <3>2. /\ base.step = "read" /\ base.moves = [k \in Items |-> 0]
          /\ base.rows = none
      BY DEF Begin, Idle
    <3>3. /\ full.step = "read" /\ full.moves = [k \in Items |-> 0]
          /\ full.rows = [none EXCEPT ![i] = NewItem(0)]
      BY DEF Begin, Idle
    <3> HIDE DEF base, full, none, slot
    <3> QED
      BY <3>1, <3>2, <3>3
  <2>4. UNCHANGED <<stock, opening, moved>>
    BY <1>6 DEF ResolveRead, ledger
  <2> HIDE DEF slot
  <2>5. Tracked(slot)
    <3>1. CASE slot.rows = none
      BY <2>3, <3>1, FreshSlot
    <3>2. CASE ~stock[i].exists /\ slot.rows = [none EXCEPT ![i] = NewItem(0)]
      <4>1. ASSUME NEW k \in Items
            PROVE  /\ RowOf(slot, k).onHand = stock[k].onHand + slot.moves[k]
                   /\ stock[k].exists => RowOf(slot, k).exists
                   /\ ~RowOf(slot, k).exists => RowOf(slot, k).onHand = 0
        <5>1. /\ ~stock[k].exists => stock[k].onHand = 0
              /\ stock[k].onHand \in Int /\ slot.moves[k] = 0
          BY <2>3 DEF BalanceInv, Balanced, TypeInv, TypeOK, StockRows
        <5>2. NewItem(0).exists /\ NewItem(0).onHand = 0
          BY DEF NewItem
        <5>3. \/ RowOf(slot, k) = stock[k]
              \/ k = i /\ RowOf(slot, k) = NewItem(0)
          BY <2>2, <3>2 DEF RowOf
        <5> HIDE DEF i
        <5> QED
          BY <3>2, <5>1, <5>2, <5>3
      <4> QED
        BY <4>1 DEF Tracked
    <3> QED
      BY <2>3, <3>1, <3>2
  <2>6. Current(slot)
    BY <2>3 DEF Current
  <2> QED
    BY <2>3, <2>4, <2>5, <2>6, SlotTrue
<1> QED
  BY <1>2, <1>3, <1>4, <1>5, <1>6 DEF Work

LEMMA PurchaseBalance ==
  ASSUME OneSlot, TypeInv, BalanceInv, NEW r \in Requests, Purchase(r)
  PROVE  BalanceInv'
<1> DEFINE slot == req'[r]
<1>1. req \in [Requests -> RequestStates] /\ req[r] \in RequestStates
  BY SlotType DEF TypeInv, TypeOK
<1>2. ASSUME NEW o \in Orders, NEW op \in {"edit", "submit", "push", "cancel"},
             ReadOrder(r, o, op, "write")
      PROVE  BalanceInv'
  <2> DEFINE begin == [Begin(r, op, "write") EXCEPT !.order = o, !.row = orders[o]]
  <2>1. /\ begin.rows = [i \in Items |-> None]
        /\ begin.moves = [i \in Items |-> 0] /\ begin.op \notin ItemOps
    BY DEF Begin, Idle, ItemOps
  <2>2. req' = [req EXCEPT ![r] = begin] /\ UNCHANGED <<stock, opening, moved>>
    BY <1>2 DEF ReadOrder, ledger
  <2> HIDE DEF begin
  <2>3. Tracked(begin) /\ Current(begin)
    BY <2>1, FreshSlot DEF Current
  <2> QED
    BY <2>2, <2>3, SlotTrue
<1>3. CASE EditLinesRead(r) \/ SubmitRead(r) \/ SyncRead(r) \/ CancelRead(r)
  BY <1>2, <1>3 DEF EditLinesRead, SubmitRead, SyncRead, CancelRead
<1>4. CASE EditLinesWrite(r) \/ Stamp(r) \/ CancelWrite(r)
  BY <1>4, EndTrue DEF EditLinesWrite, Stamp, CancelWrite, ledger
<1>5. CASE SubmitWrite(r) \/ Push(r)
  <2>1. /\ slot.rows = req[r].rows /\ slot.moves = req[r].moves
        /\ slot.op = "push" /\ req' = [req EXCEPT ![r] = slot]
    BY <1>1, <1>5 DEF SubmitWrite, Push, At, RequestStates
  <2>2. UNCHANGED <<stock, opening, moved>>
    BY <1>5 DEF SubmitWrite, Push, ledger
  <2> HIDE DEF slot
  <2> QED
    BY <2>1, <2>2, SlotMoved DEF ItemOps
<1>6. CASE ReceiveRead(r)
  <2> DEFINE Opens(o, n, over, lines) ==
               req' = [req EXCEPT ![r] = [Begin(r, "receive", "read") EXCEPT
                         !.order = o, !.row = orders[o], !.over = over,
                         !.todo = [k \in 1..n |->
                           Change(<<OrderBranch[o], lines[k][1]>>, lines[k][2])]]]
  <2>1. \E o \in Orders, n \in 1..MaxLines, over \in BOOLEAN :
          \E lines : Opens(o, n, over, lines)
    <3>1. \E o \in Orders, n \in 1..MaxLines, over \in BOOLEAN :
            /\ orders[o].status \in {"submitted", "partial"}
            /\ \E lines \in [1..n -> Skus \X Qty] : Opens(o, n, over, lines)
      BY <1>6 DEF ReceiveRead
    <3> HIDE DEF Opens
    <3> QED
      BY <3>1
  <2>2. ASSUME NEW o, NEW n, NEW over, NEW lines, Opens(o, n, over, lines)
        PROVE  /\ slot.rows = [i \in Items |-> None]
               /\ slot.moves = [i \in Items |-> 0] /\ slot.step = "read"
               /\ req' = [req EXCEPT ![r] = slot]
    BY <1>1, <2>2 DEF Begin, Idle
  <2> HIDE DEF Opens
  <2>3. /\ slot.rows = [i \in Items |-> None]
        /\ slot.moves = [i \in Items |-> 0] /\ slot.step = "read"
        /\ req' = [req EXCEPT ![r] = slot]
    <3> HIDE DEF slot
    <3> QED
      BY <2>1, <2>2
  <2>4. UNCHANGED <<stock, opening, moved>>
    BY <1>6 DEF ReceiveRead, ledger
  <2> HIDE DEF slot
  <2>5. Tracked(slot) /\ Current(slot)
    BY <2>3, FreshSlot DEF Current
  <2> QED
    BY <2>3, <2>4, <2>5, SlotTrue
<1>7. CASE ReceiveCommit(r) \/ ReceiveRefused(r)
  BY <1>7, StoreTrue DEF ReceiveCommit, ReceiveRefused, ReceiveEnd
<1> QED
  BY <1>3, <1>4, <1>5, <1>6, <1>7 DEF Purchase

(* An item is made, or changes activity, while no transaction has it. *)
LEMMA ItemBalance ==
  ASSUME TypeInv, BalanceInv, NEW i \in Items, CreateItem(i) \/ EditItem(i)
  PROVE  BalanceInv'
<1>1. /\ req' = req /\ moved' = moved /\ stock \in [Items -> StockRows]
      /\ opening \in [Items -> Int] /\ moved[i] \in Int
      /\ \A r \in Requests : req[r].rows[i] = None /\ req[r].moves[i] \in Int
  BY DEF CreateItem, EditItem, Unlocked, ledger, TypeInv, TypeOK, RequestStates
<1>2. /\ \A k \in Items \ {i} : stock'[k] = stock[k] /\ opening'[k] = opening[k]
      /\ stock'[i].exists
      /\ stock'[i].onHand - stock[i].onHand = opening'[i] - opening[i]
      /\ stock[i].exists => stock'[i].onHand = stock[i].onHand
      /\ stock'[i].onHand \in Int /\ opening'[i] \in Int
  <2>1. CASE CreateItem(i)
    <3>1. PICK qty \in Qty \cup {0} :
            /\ stock' = [stock EXCEPT ![i] = NewItem(qty)]
            /\ opening' = [opening EXCEPT ![i] = qty]
      BY <2>1 DEF CreateItem
    <3>2. qty \in Int /\ ~stock[i].exists /\ stock[i].onHand = 0 /\ opening[i] = 0
      <4>1. qty \in Int
        BY ConstantsAssumption DEF ConstantsAssumption
      <4> QED
        BY <2>1, <4>1 DEF CreateItem, BalanceInv, Balanced
    <3> QED
      BY <1>1, <3>1, <3>2 DEF NewItem
  <2>2. CASE EditItem(i)
    <3>1. stock[i] \in StockRows /\ opening[i] \in Int
      BY <1>1
    <3> QED
      BY <1>1, <2>2, <3>1 DEF EditItem, StockRows
  <2> QED
    BY <2>1, <2>2
<1>3. Balanced'
  <2>1. ASSUME NEW k \in Items
        PROVE  /\ stock'[k].onHand = opening'[k] + moved[k]
               /\ ~stock'[k].exists => stock'[k].onHand = 0 /\ opening'[k] = 0
    <3>1. CASE k = i
      <4>1. stock[i].onHand = opening[i] + moved[i]
        BY DEF BalanceInv, Balanced
      <4>2. stock[i].onHand \in Int /\ opening[i] \in Int
        BY <1>1 DEF StockRows
      <4> QED
        BY <1>1, <1>2, <3>1, <4>1, <4>2
    <3>2. CASE k # i
      BY <1>2, <3>2 DEF BalanceInv, Balanced
    <3> QED
      BY <3>1, <3>2
  <2> QED
    BY <1>1, <2>1 DEF Balanced
<1>4. ASSUME NEW r \in Requests
      PROVE  Tracked(req[r])' /\ Current(req[r])'
  <2>1. /\ Tracked(req[r]) /\ Current(req[r]) /\ req[r] \in RequestStates
        /\ WellFormed(req[r])
    BY SlotType DEF BalanceInv, SlotsTrue
  <2>2. /\ \A k \in Items \ {i} : RowOf(req[r], k)' = RowOf(req[r], k)
        /\ RowOf(req[r], i) = stock[i] /\ RowOf(req[r], i)' = stock'[i]
    BY <1>1, <1>2 DEF RowOf
  <2>3. req[r].moves[i] = 0
    <3>1. stock[i].onHand = stock[i].onHand + req[r].moves[i]
      BY <2>1, <2>2 DEF Tracked
    <3>2. stock[i].onHand \in Int
      BY <1>1 DEF StockRows
    <3> QED
      BY <1>1, <3>1, <3>2
  <2>4. Tracked(req[r])'
    <3>1. ASSUME NEW k \in Items
          PROVE  /\ RowOf(req[r], k)'.onHand = stock'[k].onHand + req[r].moves[k]
                 /\ stock'[k].exists => RowOf(req[r], k)'.exists
                 /\ ~RowOf(req[r], k)'.exists => RowOf(req[r], k)'.onHand = 0
      <4>1. CASE k = i
        BY <1>2, <2>2, <2>3, <4>1
      <4>2. CASE k # i
        BY <1>2, <2>1, <2>2, <4>2 DEF Tracked
      <4> QED
        BY <4>1, <4>2
    <3> QED
      BY <1>1, <3>1 DEF Tracked
  <2>5. Current(req[r])'
    <3>1. ASSUME req[r].op \in ItemOps, req[r].step = "write", req[r].seen.exists
          PROVE  /\ RowOf(req[r], Head(req[r].todo).item)'.exists
                 /\ RowOf(req[r], Head(req[r].todo).item)'.onHand = req[r].seen.onHand
      <4> DEFINE k == Head(req[r].todo).item
      <4>1. k \in Items
        BY <2>1, <3>1, NextChange
      <4>2. RowOf(req[r], k).exists /\ RowOf(req[r], k).onHand = req[r].seen.onHand
        BY <2>1, <3>1 DEF Current
      <4>3. /\ RowOf(req[r], k)'.exists
            /\ RowOf(req[r], k)'.onHand = req[r].seen.onHand
        <5>1. Head(req[r].todo)' = Head(req[r].todo)
          BY <1>1
        <5> QED
          BY <1>1, <1>2, <2>2, <4>1, <4>2, <5>1
      <4> QED
        BY <4>3
    <3>2. req[r].op \in {"reserve", "consume"} /\ req[r].op \in ItemOps
          /\ req[r].step = "write" => req[r].seen.exists
      BY <2>1 DEF Current
    <3> QED
      BY <1>1, <3>1, <3>2 DEF Current
  <2> QED
    BY <2>4, <2>5
<1> QED
  BY <1>3, <1>4 DEF BalanceInv, SlotsTrue

-----------------------------------------------------------------------------

LEMMA NextBalance ==
  OneSlot /\ TypeInv /\ BalanceInv /\ [Next]_vars => BalanceInv'
<1> SUFFICES ASSUME OneSlot, TypeInv, BalanceInv, [Next]_vars PROVE BalanceInv'
  OBVIOUS
<1>1. CASE UNCHANGED <<stock, opening, moved, req>>
  <2>1. Balanced'
    BY <1>1 DEF BalanceInv, Balanced
  <2>2. SlotsTrue'
    BY <1>1 DEF BalanceInv, SlotsTrue, Tracked, Current, RowOf
  <2> QED
    BY <2>1, <2>2 DEF BalanceInv
<1>2. CASE UNCHANGED vars \/ \E o \in Orders : CreateOrder(o)
  BY <1>1, <1>2 DEF vars, CreateOrder, ledger
<1>3. CASE \E i \in Items : CreateItem(i) \/ EditItem(i)
  BY <1>3, ItemBalance
<1>4. ASSUME NEW r \in Requests,
             Move(r) \/ Stock(r) \/ Work(r) \/ Purchase(r) \/ Abort(r)
      PROVE  BalanceInv'
  <2>1. CASE Abort(r)
    BY <2>1, EndTrue DEF Abort, ledger
  <2> QED
    BY <1>4, <2>1, MoveBalance, StockBalance, WorkBalance, PurchaseBalance
<1> QED
  BY <1>2, <1>3, <1>4 DEF Next

(* With one handler at a time, qty_on_hand of every item is the quantity it *)
(* was created with plus its movements: transfers, receipts cut short,      *)
(* consumption, exceptions resolved and handlers rolled back included.      *)
THEOREM BalanceAlwaysKept == OneSlot => (Spec => []BalanceKept)
<1> SUFFICES ASSUME OneSlot PROVE Spec => []BalanceKept
  OBVIOUS
<1>1. Init => TypeInv /\ BalanceInv
  BY InitTypeInv, InitBalance
<1>2. TypeInv /\ BalanceInv /\ [Next]_vars => (TypeInv /\ BalanceInv)'
  BY NextTypeInv, NextBalance
<1>3. TypeInv /\ BalanceInv => BalanceKept
  BY DEF BalanceInv, Balanced, BalanceKept
<1> QED
  BY <1>1, <1>2, <1>3, PTL DEF Spec

-----------------------------------------------------------------------------
(* What the steps do to their slot.                                         *)

LEMMA WroteKept ==
  ASSUME NEW q \in RequestStates, NEW row, NEW delta, NEW p,
         p = Wrote(q, row, delta)
  PROVE  /\ p.op = q.op /\ p.step = "read" /\ p.todo = Tail(q.todo)
         /\ p.job = q.job /\ p.exc = q.exc /\ p.missed = q.missed
         /\ p.order = q.order /\ p.over = q.over
BY DEF Wrote, RequestStates

LEMMA WroteItem ==
  ASSUME NEW q \in RequestStates, NEW row, NEW delta, NEW p,
         p = Wrote(q, row, delta), NEW i \in Items
  PROVE  /\ p.rows[i] = IF i = Head(q.todo).item THEN row ELSE q.rows[i]
         /\ p.moves[i] = IF i = Head(q.todo).item THEN q.moves[i] + delta
                         ELSE q.moves[i]
BY DEF Wrote, RequestStates

LEMMA WroteCounts ==
  ASSUME NEW q \in RequestStates, NEW row, NEW delta, NEW p,
         p = Wrote(q, row, delta)
  PROVE  /\ p.held = (q.held \/ q.op = "reserve")
         /\ p.used = IF q.op \in {"consume", "resolve"} THEN q.used - delta
                     ELSE q.used
         /\ p.row = IF q.op = "receive"
                    THEN Received(q.row, Head(q.todo).item[2], delta) ELSE q.row
BY DEF Wrote, RequestStates

Fresh(q, op) ==
  /\ q.op = op
  /\ q.rows = [i \in Items |-> None] /\ q.moves = [i \in Items |-> 0]
  /\ ~q.held /\ q.used = 0 /\ q.missed = <<>>

LEMMA BeginFields ==
  ASSUME NEW r, NEW op, NEW step, NEW q, q = Begin(r, op, step)
  PROVE  Fresh(q, op) /\ q.step = step
BY DEF Begin, Idle, Fresh

(* A step of a handler is of its slot only. *)
LEMMA OneSlotMoves ==
  ASSUME TypeInv, NEW r \in Requests,
         Move(r) \/ Stock(r) \/ Work(r) \/ Purchase(r) \/ Abort(r)
  PROVE  req' = [req EXCEPT ![r] = req'[r]]
<1>1. req \in [Requests -> RequestStates]
  BY DEF TypeInv, TypeOK
<1>2. \A q : req' = [req EXCEPT ![r] = q] => req' = [req EXCEPT ![r] = req'[r]]
  BY <1>1
<1>3. CASE Move(r)
  <2>1. \E q : req' = [req EXCEPT ![r] = q]
    BY <1>1, <1>3 DEF Move, ReadItem, SkipItem, WriteOnHand, WriteReserved,
       WriteConsumed, Write
  <2> QED
    BY <1>2, <2>1
<1>4. CASE Stock(r)
  <2>1. \E q : req' = [req EXCEPT ![r] = q]
    BY <1>1, <1>4 DEF Stock, AdjustRead, AdjustCommit, TransferRead,
       TransferCommit, End
  <2> QED
    BY <1>2, <2>1
<1>5. CASE Work(r)
  <2>1. \E q : req' = [req EXCEPT ![r] = q]
    BY <1>1, <1>5 DEF Work, AcceptRead, AcceptLock, AcceptCommit, CompleteRead,
       CompleteLock, CompleteCommit, ResolveRead, ResolveCommit, IgnoreRead,
       IgnoreWrite, End
  <2> QED
    BY <1>2, <2>1
<1>6. CASE Purchase(r)
  <2>1. \E q : req' = [req EXCEPT ![r] = q]
    BY <1>1, <1>6 DEF Purchase, EditLinesRead, EditLinesWrite, SubmitRead,
       SubmitWrite, SyncRead, Push, Stamp, CancelRead, CancelWrite, ReceiveRead,
       ReceiveCommit, ReceiveRefused, ReadOrder, ReceiveEnd, End
  <2> QED
    BY <1>2, <2>1
<1>7. CASE Abort(r)
  BY <1>2, <1>7 DEF Abort, End
<1> QED
  BY <1>3, <1>4, <1>5, <1>6, <1>7

(* What operation the slot is at after the first step of a handler. *)
LEMMA Starts ==
  ASSUME TypeInv, NEW r \in Requests
  PROVE  /\ AdjustRead(r) => Fresh(req'[r], "adjust")
         /\ AcceptRead(r) => Fresh(req'[r], "reserve") /\ req'[r].step = "lock"
         /\ CompleteRead(r) => Fresh(req'[r], "consume") /\ req'[r].step = "lock"
         /\ IgnoreRead(r) => Fresh(req'[r], "ignore")
<1>1. req \in [Requests -> RequestStates]
  BY DEF TypeInv, TypeOK
<1>2. AdjustRead(r) => Fresh(req'[r], "adjust")
  <2> SUFFICES ASSUME AdjustRead(r) PROVE Fresh(req'[r], "adjust")
    OBVIOUS
  <2>1. PICK todo, seen : req' = [req EXCEPT ![r] =
          [Begin(r, "adjust", "write") EXCEPT !.todo = todo, !.seen = seen]]
    BY DEF AdjustRead
  <2> QED
    BY <1>1, <2>1 DEF Begin, Idle, Fresh
<1>3. /\ AcceptRead(r) => Fresh(req'[r], "reserve") /\ req'[r].step = "lock"
      /\ CompleteRead(r) => Fresh(req'[r], "consume") /\ req'[r].step = "lock"
  BY <1>1 DEF AcceptRead, CompleteRead, Begin, Idle, Fresh
<1>4. IgnoreRead(r) => Fresh(req'[r], "ignore")
  <2> SUFFICES ASSUME IgnoreRead(r) PROVE Fresh(req'[r], "ignore")
    OBVIOUS
  <2>1. PICK j, n : req' = [req EXCEPT ![r] =
          [Begin(r, "ignore", "write") EXCEPT !.job = j, !.exc = n]]
    BY DEF IgnoreRead
  <2> QED
    BY <1>1, <2>1 DEF Begin, Idle, Fresh
<1> QED
  BY <1>2, <1>3, <1>4

(* A handler that stores, or gives up, ends; the others go on at their own. *)
LEMMA Ends ==
  ASSUME TypeInv, NEW r \in Requests,
         \/ AdjustCommit(r) \/ TransferCommit(r) \/ AcceptCommit(r)
         \/ CompleteCommit(r) \/ ResolveCommit(r) \/ IgnoreWrite(r)
         \/ EditLinesWrite(r) \/ Stamp(r) \/ CancelWrite(r)
         \/ ReceiveCommit(r) \/ ReceiveRefused(r) \/ Abort(r)
  PROVE  req' = [req EXCEPT ![r] = Idle] /\ req'[r] = Idle
<1>1. req' = [req EXCEPT ![r] = Idle]
  BY DEF AdjustCommit, TransferCommit, AcceptCommit, CompleteCommit,
     ResolveCommit, IgnoreWrite, EditLinesWrite, Stamp, CancelWrite,
     ReceiveCommit, ReceiveRefused, ReceiveEnd, Abort, End
<1> QED
  BY <1>1 DEF TypeInv, TypeOK

(* The operation of a slot after each step on it. *)
LEMMA WorkOps ==
  ASSUME TypeInv, NEW r \in Requests, Work(r)
  PROVE  req'[r].op \in {"idle", "reserve", "consume", "resolve", "ignore"}
<1>1. req \in [Requests -> RequestStates] /\ req[r] \in RequestStates
  BY DEF TypeInv, TypeOK
<1>2. CASE AcceptCommit(r) \/ CompleteCommit(r) \/ ResolveCommit(r) \/ IgnoreWrite(r)
  BY <1>2, Ends DEF Idle
<1>3. CASE AcceptRead(r) \/ CompleteRead(r) \/ IgnoreRead(r)
  BY <1>3, Starts DEF Fresh
<1>4. CASE AcceptLock(r) \/ CompleteLock(r)
  BY <1>1, <1>4 DEF AcceptLock, CompleteLock, At, RequestStates
<1>5. CASE ResolveRead(r)
  <2>1. PICK j \in Jobs, s \in Skus, n \in UNION {Pending(k) : k \in Jobs} :
          LET i == <<JobBranch[j], s>>
              begin == [Begin(r, "resolve", "read") EXCEPT
                          !.job = j, !.exc = n,
                          !.todo = <<Change(i, -exceptions[j][n].qty)>>]
          IN  \/ req' = [req EXCEPT ![r] = begin]
              \/ req' = [req EXCEPT ![r] = [begin EXCEPT !.rows[i] = NewItem(0)]]
    BY <1>5 DEF ResolveRead
  <2> DEFINE i == <<JobBranch[j], s>>
             base == [Begin(r, "resolve", "read") EXCEPT
                        !.job = j, !.exc = n,
                        !.todo = <<Change(i, -exceptions[j][n].qty)>>]
             full == [base EXCEPT !.rows[i] = NewItem(0)]
  <2>2. req'[r].op = "resolve"
    <3>1. req'[r] = base \/ req'[r] = full
      BY <1>1, <2>1
    <3>2. base.op = "resolve" /\ full.op = "resolve"
      BY DEF Begin, Idle
    <3> HIDE DEF base, full
    <3> QED
      BY <3>1, <3>2
  <2> QED
    BY <2>2
<1> QED
  BY <1>2, <1>3, <1>4, <1>5 DEF Work

LEMMA StockOps ==
  ASSUME TypeInv, NEW r \in Requests, Stock(r)
  PROVE  req'[r].op \in {"idle", "adjust", "transfer"}
<1>1. req \in [Requests -> RequestStates]
  BY DEF TypeInv, TypeOK
<1>2. CASE AdjustRead(r)
  BY <1>2, Starts DEF Fresh
<1>3. CASE TransferRead(r)
  <2>1. PICK todo, seen : req' = [req EXCEPT ![r] =
          [Begin(r, "transfer", "write") EXCEPT !.todo = todo, !.seen = seen]]
    BY <1>3 DEF TransferRead
  <2> QED
    BY <1>1, <2>1 DEF Begin, Idle
<1>4. CASE AdjustCommit(r) \/ TransferCommit(r)
  BY <1>4, Ends DEF Idle
<1> QED
  BY <1>2, <1>3, <1>4 DEF Stock

LEMMA PurchaseOps ==
  ASSUME TypeInv, NEW r \in Requests, Purchase(r)
  PROVE  req'[r].op \in {"idle", "edit", "submit", "push", "cancel", "receive"}
<1>1. req \in [Requests -> RequestStates] /\ req[r] \in RequestStates
  BY DEF TypeInv, TypeOK
<1>2. CASE EditLinesWrite(r) \/ Stamp(r) \/ CancelWrite(r) \/ ReceiveCommit(r)
           \/ ReceiveRefused(r)
  BY <1>2, Ends DEF Idle
<1>3. CASE EditLinesRead(r) \/ SubmitRead(r) \/ SyncRead(r) \/ CancelRead(r)
  BY <1>1, <1>3 DEF EditLinesRead, SubmitRead, SyncRead, CancelRead, ReadOrder,
     Begin, Idle
<1>4. CASE SubmitWrite(r) \/ Push(r)
  BY <1>1, <1>4 DEF SubmitWrite, Push, At, RequestStates
<1>5. CASE ReceiveRead(r)
  <2> DEFINE Opens(o, n, over, lines) ==
               req' = [req EXCEPT ![r] = [Begin(r, "receive", "read") EXCEPT
                         !.order = o, !.row = orders[o], !.over = over,
                         !.todo = [k \in 1..n |->
                           Change(<<OrderBranch[o], lines[k][1]>>, lines[k][2])]]]
  <2>1. \E o \in Orders, n \in 1..MaxLines, over \in BOOLEAN :
          /\ orders[o].status \in {"submitted", "partial"}
          /\ \E lines \in [1..n -> Skus \X Qty] : Opens(o, n, over, lines)
    BY <1>5 DEF ReceiveRead
  <2>2. ASSUME NEW o, NEW n, NEW over, NEW lines, Opens(o, n, over, lines)
        PROVE  req'[r].op = "receive"
    BY <1>1, <2>2 DEF Begin, Idle
  <2> HIDE DEF Opens
  <2> QED
    BY <2>1, <2>2
<1> QED
  BY <1>2, <1>3, <1>4, <1>5 DEF Purchase

-----------------------------------------------------------------------------
(* TransfersCancel.  What is left of a transfer undoes what it has written. *)

NoMoves == [i \in Items |-> 0]

BothLeft(q, a, b, n) ==
  q.todo = <<Change(a, -n), Change(b, n)>> /\ q.moves = NoMoves
OneLeft(q, a, b, n) ==
  q.todo = <<Change(b, n)>> /\ q.moves = [NoMoves EXCEPT ![a] = -n]
NoneLeft(q, a, b, n) ==
  q.todo = <<>> /\ q.moves = [NoMoves EXCEPT ![a] = -n, ![b] = n]

LegsOf(q, a, b, n) ==
  BothLeft(q, a, b, n) \/ OneLeft(q, a, b, n) \/ NoneLeft(q, a, b, n)

Legs(q) ==
  q.op = "transfer" =>
    \E s \in Skus, from \in Branches, to \in Branches, n \in Nat :
      from # to /\ LegsOf(q, <<from, s>>, <<to, s>>, n)

TransferInv == TransfersCancel /\ \A r \in Requests : Legs(req[r])

(* What a finished transfer moved cancels out. *)
LEMMA LegsCancel ==
  ASSUME NEW q \in RequestStates, Legs(q), q.op = "transfer", q.todo = <<>>,
         NEW s \in Skus
  PROVE  SumFunctionOnSet([b \in Branches |-> q.moves[<<b, s>>]], Branches) = 0
<1> DEFINE f == [b \in Branches |-> q.moves[<<b, s>>]]
           zero == [b \in Branches |-> 0]
<1>1. IsFiniteSet(Branches)
  BY ConstantsAssumption DEF ConstantsAssumption
<1>2. PICK sku \in Skus, from \in Branches, to \in Branches, n \in Nat :
        from # to /\ NoneLeft(q, <<from, sku>>, <<to, sku>>, n)
  <2>1. \A a, b, n : ~BothLeft(q, a, b, n) /\ ~OneLeft(q, a, b, n)
    BY DEF BothLeft, OneLeft
  <2> QED
    BY <2>1 DEF Legs, LegsOf
<1>3. SumFunctionOnSet(zero, Branches) = 0
  BY <1>1, SumZero
<1>4. CASE s = sku
  <2> DEFINE g == [zero EXCEPT ![from] = -n]
  <2>1. \A b \in Branches :
          f[b] = IF b = from THEN -n ELSE IF b = to THEN n ELSE 0
    BY <1>2, <1>4 DEF Items, NoneLeft, NoMoves
  <2>2. \A b \in Branches : g[b] = IF b = from THEN -n ELSE 0
    OBVIOUS
  <2>3. \A b \in Branches : f[b] \in Int /\ g[b] \in Int /\ zero[b] \in Int
    BY <2>1, <2>2
  <2>4. zero[from] = 0 /\ g[from] = -n /\ g[to] = 0 /\ f[to] = n
    BY <1>2, <2>1, <2>2
  <2>5. \A b \in Branches \ {from} : g[b] = zero[b]
    BY <2>2
  <2>6. \A b \in Branches \ {to} : f[b] = g[b]
    BY <2>1, <2>2
  <2> HIDE DEF f, g, zero
  <2>7. SumFunctionOnSet(g, Branches)
          = SumFunctionOnSet(zero, Branches) + g[from] - zero[from]
    BY <1>1, <2>3, <2>5, SumChange
  <2>8. SumFunctionOnSet(f, Branches) = SumFunctionOnSet(g, Branches) + f[to] - g[to]
    BY <1>1, <2>3, <2>6, SumChange
  <2> QED
    BY <1>3, <2>4, <2>7, <2>8 DEF f
<1>5. CASE s # sku
  <2>1. \A b \in Branches : f[b] = zero[b]
    BY <1>2, <1>5 DEF Items, NoneLeft, NoMoves
  <2> HIDE DEF f, zero
  <2>2. SumFunctionOnSet(f, Branches) = SumFunctionOnSet(zero, Branches)
    BY <1>1, <2>1, SumSame
  <2> QED
    BY <1>3, <2>2 DEF f
<1> QED
  BY <1>4, <1>5

(* A write takes the next leg. *)
LEMMA LegTaken ==
  ASSUME NEW q \in RequestStates, WellFormed(q), Legs(q), q.op = "transfer",
         q.step = "write", NEW row, NEW p,
         p = Wrote(q, row, Head(q.todo).delta)
  PROVE  Legs(p)
<1>1. PICK s \in Skus, from \in Branches, to \in Branches, n \in Nat :
        from # to /\ LegsOf(q, <<from, s>>, <<to, s>>, n)
  BY DEF Legs
<1>2. PICK a \in Items, b \in Items : a = <<from, s>> /\ b = <<to, s>> /\ a # b
  BY <1>1 DEF Items
<1>3. /\ p.todo = Tail(q.todo)
      /\ p.moves = [q.moves EXCEPT
           ![Head(q.todo).item] = @ + Head(q.todo).delta]
  <2>1. PICK delta : delta = Head(q.todo).delta
    OBVIOUS
  <2>2. p = Wrote(q, row, delta)
    BY <2>1
  <2>3. p.todo = Tail(q.todo)
    BY <2>2, WroteKept
  <2>4. p.moves = [q.moves EXCEPT ![Head(q.todo).item] =
                     q.moves[Head(q.todo).item] + delta]
    BY <2>2 DEF Wrote, RequestStates
  <2> QED
    BY <2>1, <2>3, <2>4
<1>4. q.todo # <<>>
  BY DEF WellFormed, ItemOps
<1>5. CASE BothLeft(q, a, b, n)
  <2>1. /\ Head(q.todo) = Change(a, -n) /\ p.todo = <<Change(b, n)>>
        /\ q.moves = NoMoves
    BY <1>3, <1>5 DEF BothLeft
  <2>2. Head(q.todo).item = a /\ Head(q.todo).delta = -n
    BY <2>1 DEF Change
  <2>3. p.moves = [NoMoves EXCEPT ![a] = -n]
    <3>1. p.moves = [NoMoves EXCEPT ![a] = @ + (-n)]
      BY <1>3, <2>1, <2>2
    <3>2. NoMoves[a] + (-n) = -n
      BY <1>2 DEF NoMoves
    <3> QED
      BY <3>1, <3>2
  <2>4. OneLeft(p, <<from, s>>, <<to, s>>, n)
    BY <1>2, <2>1, <2>3 DEF OneLeft
  <2> QED
    BY <1>1, <2>4 DEF Legs, LegsOf
<1>6. CASE OneLeft(q, a, b, n)
  <2>1. /\ Head(q.todo) = Change(b, n) /\ p.todo = <<>>
        /\ q.moves = [NoMoves EXCEPT ![a] = -n]
    BY <1>3, <1>6 DEF OneLeft
  <2>2. Head(q.todo).item = b /\ Head(q.todo).delta = n
    BY <2>1 DEF Change
  <2>3. p.moves = [NoMoves EXCEPT ![a] = -n, ![b] = n]
    <3> DEFINE out == [NoMoves EXCEPT ![a] = -n]
    <3>1. p.moves = [out EXCEPT ![b] = @ + n]
      BY <1>3, <2>1, <2>2
    <3>2. out[b] + n = n
      BY <1>2 DEF NoMoves
    <3> QED
      BY <3>1, <3>2
  <2>4. NoneLeft(p, <<from, s>>, <<to, s>>, n)
    BY <1>2, <2>1, <2>3 DEF NoneLeft
  <2> QED
    BY <1>1, <2>4 DEF Legs, LegsOf
<1>7. ~NoneLeft(q, a, b, n)
  BY <1>4 DEF NoneLeft
<1> QED
  BY <1>1, <1>2, <1>5, <1>6, <1>7 DEF LegsOf

LEMMA MoveLegs ==
  ASSUME TypeInv, NEW r \in Requests, Legs(req[r]), Move(r)
  PROVE  Legs(req'[r])
<1>1. req \in [Requests -> RequestStates] /\ req[r] \in RequestStates
      /\ WellFormed(req[r])
  BY SlotType DEF TypeInv, TypeOK
<1>2. PICK q, p : q = req[r] /\ p = req'[r]
  OBVIOUS
<1>3. CASE ReadItem(r)
  <2>1. p.op = q.op /\ p.todo = q.todo /\ p.moves = q.moves
    BY <1>1, <1>2, <1>3 DEF ReadItem, RequestStates
  <2>2. \A a, b, n : LegsOf(q, a, b, n) => LegsOf(p, a, b, n)
    BY <2>1 DEF LegsOf, BothLeft, OneLeft, NoneLeft
  <2>3. Legs(p)
    BY <1>2, <2>1, <2>2 DEF Legs
  <2> QED
    BY <1>2, <2>3
<1>4. CASE SkipItem(r) \/ WriteReserved(r) \/ WriteConsumed(r)
  <2>1. q.op # "transfer"
    BY <1>2, <1>4 DEF SkipItem, WriteReserved, WriteConsumed, At
  <2>2. p.op = q.op
    <3>1. CASE SkipItem(r)
      BY <1>1, <1>2, <3>1 DEF SkipItem, RequestStates
    <3>2. CASE WriteReserved(r) \/ WriteConsumed(r)
      <4>1. PICK row, delta : req' = [req EXCEPT ![r] = Wrote(req[r], row, delta)]
        BY <3>2 DEF WriteReserved, WriteConsumed, Write
      <4>2. p = Wrote(q, row, delta)
        BY <1>1, <1>2, <4>1
      <4> QED
        BY <1>1, <1>2, <4>2, WroteKept
    <3> QED
      BY <1>4, <3>1, <3>2
  <2> QED
    BY <1>2, <2>1, <2>2 DEF Legs
<1>5. CASE WriteOnHand(r)
  <2>1. PICK row : Write(r, row, Head(q.todo).delta)
    BY <1>2, <1>5 DEF WriteOnHand
  <2>2. p = Wrote(q, row, Head(q.todo).delta) /\ q.step = "write"
    BY <1>1, <1>2, <1>5, <2>1 DEF Write, WriteOnHand
  <2>3. p.op = q.op
    <3>1. PICK delta : delta = Head(q.todo).delta
      OBVIOUS
    <3> QED
      BY <1>1, <1>2, <2>2, <3>1, WroteKept
  <2>4. Legs(p)
    <3>1. CASE q.op = "transfer"
      BY <1>1, <1>2, <2>2, <3>1, LegTaken
    <3>2. CASE q.op # "transfer"
      BY <2>3, <3>2 DEF Legs
    <3> QED
      BY <3>1, <3>2
  <2> QED
    BY <1>2, <2>4
<1> QED
  BY <1>3, <1>4, <1>5 DEF Move

LEMMA TransferReadLegs ==
  ASSUME TypeInv, NEW r \in Requests, TransferRead(r)
  PROVE  Legs(req'[r])
<1>1. PICK s \in Skus, from \in Branches, to \in Branches, n \in Qty :
        /\ from # to
        /\ req' = [req EXCEPT ![r] = [Begin(r, "transfer", "write") EXCEPT
             !.todo = <<Change(<<from, s>>, -n), Change(<<to, s>>, n)>>,
             !.seen = stock[<<from, s>>]]]
  BY DEF TransferRead
<1>2. PICK p : p = req'[r]
  OBVIOUS
<1>3. /\ p.todo = <<Change(<<from, s>>, -n), Change(<<to, s>>, n)>>
      /\ p.moves = NoMoves
  BY <1>1, <1>2 DEF TypeInv, TypeOK, Begin, Idle, NoMoves
<1>4. n \in Nat
  BY ConstantsAssumption DEF ConstantsAssumption
<1>5. Legs(p)
  BY <1>1, <1>3, <1>4 DEF Legs, LegsOf, BothLeft
<1> QED
  BY <1>2, <1>5

LEMMA CommitCancels ==
  ASSUME TypeInv, TransferInv, NEW r \in Requests, TransferCommit(r)
  PROVE  TransfersCancel'
<1>1. /\ req[r] \in RequestStates /\ Legs(req[r]) /\ req[r].op = "transfer"
      /\ req[r].todo = <<>> /\ transfers \in [Items -> Int]
      /\ req[r].moves \in [Items -> Int]
  BY DEF TypeInv, TypeOK, TransferInv, TransferCommit, Written, At, RequestStates
<1>2. \A i \in Items : transfers'[i] = transfers[i] + req[r].moves[i]
  BY DEF TransferCommit
<1>3. ASSUME NEW s \in Skus
      PROVE  SumFunctionOnSet([b \in Branches |-> transfers'[<<b, s>>]], Branches) = 0
  <2> DEFINE f == [b \in Branches |-> transfers[<<b, s>>]]
             g == [b \in Branches |-> req[r].moves[<<b, s>>]]
             h == [b \in Branches |-> transfers'[<<b, s>>]]
  <2>1. \A b \in Branches : f[b] \in Int /\ g[b] \in Int /\ h[b] = f[b] + g[b]
    BY <1>1, <1>2 DEF Items
  <2>2. SumFunctionOnSet(f, Branches) = 0
    BY DEF TransferInv, TransfersCancel, SumFunction
  <2>3. SumFunctionOnSet(g, Branches) = 0
    BY <1>1, LegsCancel
  <2> HIDE DEF f, g, h
  <2>4. IsFiniteSet(Branches)
    BY ConstantsAssumption DEF ConstantsAssumption
  <2>5. SumFunctionOnSet(h, Branches)
          = SumFunctionOnSet(f, Branches) + SumFunctionOnSet(g, Branches)
    BY <2>1, <2>4, SumPlus
  <2>6. SumFunctionOnSet(h, Branches) = 0
    BY <2>2, <2>3, <2>5
  <2> QED
    BY <2>6 DEF h
<1> QED
  BY <1>3 DEF TransfersCancel, SumFunction

LEMMA NextTransfers ==
  TypeInv /\ TransferInv /\ [Next]_vars => TransferInv'
<1> SUFFICES ASSUME TypeInv, TransferInv, [Next]_vars PROVE TransferInv'
  OBVIOUS
<1>1. ASSUME UNCHANGED <<transfers, req>>
      PROVE  TransferInv'
  <2>1. TransfersCancel'
    BY <1>1 DEF TransferInv, TransfersCancel
  <2>2. \A r \in Requests : Legs(req'[r])
    BY <1>1 DEF TransferInv
  <2> QED
    BY <2>1, <2>2 DEF TransferInv, Legs, LegsOf, BothLeft, OneLeft, NoneLeft,
       NoMoves
<1>2. ASSUME NEW r \in Requests,
             Move(r) \/ Stock(r) \/ Work(r) \/ Purchase(r) \/ Abort(r)
      PROVE  TransferInv'
  <2>1. \A q \in Requests \ {r} : req'[q] = req[q]
    BY <1>2, OneSlotMoves DEF TypeInv, TypeOK
  <2>2. Legs(req'[r])
    <3>1. CASE Move(r)
      BY <3>1, MoveLegs DEF TransferInv
    <3>2. CASE Stock(r)
      <4>1. CASE AdjustRead(r)
        BY <4>1, Starts DEF Fresh, Legs
      <4>2. CASE AdjustCommit(r) \/ TransferCommit(r)
        BY <4>2, Ends DEF Idle, Legs
      <4> QED
        BY <3>2, <4>1, <4>2, TransferReadLegs DEF Stock
    <3>3. CASE Work(r) \/ Purchase(r)
      BY <3>3, WorkOps, PurchaseOps DEF Legs
    <3>4. CASE Abort(r)
      BY <3>4, Ends DEF Idle, Legs
    <3> QED
      BY <1>2, <3>1, <3>2, <3>3, <3>4
  <2>3. \A q \in Requests : Legs(req'[q])
    BY <2>1, <2>2 DEF TransferInv
  <2>4. TransfersCancel'
    <3>1. CASE TransferCommit(r)
      BY <3>1, CommitCancels
    <3>2. CASE ~TransferCommit(r)
      <4>1. transfers' = transfers
        BY <1>2, <3>2 DEF Move, ReadItem, SkipItem, WriteOnHand, WriteReserved,
           WriteConsumed, Write, Stock, AdjustRead, AdjustCommit, TransferRead,
           Work, AcceptRead, AcceptLock, AcceptCommit, CompleteRead,
           CompleteLock, CompleteCommit, ResolveRead, ResolveCommit,
           IgnoreRead, IgnoreWrite, Purchase, EditLinesRead, EditLinesWrite,
           SubmitRead, SubmitWrite, SyncRead, Push, Stamp, CancelRead,
           CancelWrite, ReceiveRead, ReceiveCommit, ReceiveRefused, ReadOrder,
           ReceiveEnd, Abort, ledger
      <4> QED
        BY <4>1 DEF TransferInv, TransfersCancel
    <3> QED
      BY <3>1, <3>2
  <2> QED
    BY <2>3, <2>4 DEF TransferInv, Legs, LegsOf, BothLeft, OneLeft, NoneLeft,
       NoMoves
<1>3. CASE UNCHANGED vars \/ (\E o \in Orders : CreateOrder(o))
            \/ \E i \in Items : CreateItem(i) \/ EditItem(i)
  BY <1>1, <1>3 DEF vars, CreateOrder, CreateItem, EditItem, ledger
<1> QED
  BY <1>2, <1>3 DEF Next

(* What transfers take out of some branches they put into others: their     *)
(* movements of an item cancel out over the branches, whatever interleaves  *)
(* with a transfer between its two legs, and however often one rolls back.  *)
THEOREM TransfersAlwaysCancel == Spec => []TransfersCancel
<1>1. Init => TransferInv
  <2> SUFFICES ASSUME Init PROVE TransferInv
    OBVIOUS
  <2>1. ASSUME NEW s \in Skus
        PROVE  SumFunctionOnSet([b \in Branches |-> transfers[<<b, s>>]], Branches) = 0
    <3> DEFINE f == [b \in Branches |-> transfers[<<b, s>>]]
    <3>1. \A b \in Branches : f[b] = 0
      BY DEF Init, Items
    <3> HIDE DEF f
    <3>2. SumFunctionOnSet(f, Branches) = 0
      BY <3>1, SumZero, ConstantsAssumption DEF ConstantsAssumption
    <3> QED
      BY <3>2 DEF f
  <2>2. \A r \in Requests : Legs(req[r])
    BY DEF Init, Legs, Idle
  <2> QED
    BY <2>1, <2>2 DEF TransferInv, TransfersCancel, SumFunction
<1>2. TransferInv => TransfersCancel
  BY DEF TransferInv
<1> QED
  BY <1>1, <1>2, InitTypeInv, NextTypeInv, NextTransfers, PTL DEF Spec

-----------------------------------------------------------------------------
(* ReceivedAsMoved, ReceivedIsComplete and SupplierHasLines, when handlers  *)
(* take turns.  A handler of an order finds it as it was read.              *)

OrderTrue(o) ==
  /\ \A s \in Skus : orders[o].lines[s].received = receipts[o][s]
  /\ orders[o].status = "received" =>
       \A s \in Skus : orders[o].lines[s].received >= orders[o].lines[s].qty
  /\ supplier[o] # None => supplier[o] = Quantities(orders[o].lines)
  /\ orders[o].status \in {"none", "draft"} =>
       supplier[o] = None /\ \A s \in Skus : receipts[o][s] = 0

(* The lines read have since received what the receipt has written.         *)
LineAtHand(q, s) ==
  LET i == <<OrderBranch[q.order], s>>
  IN  /\ q.row.lines[s].qty = orders[q.order].lines[s].qty
      /\ q.row.lines[s].received = orders[q.order].lines[s].received + q.moves[i]
      /\ q.rows[i] = None => q.moves[i] = 0

ReceiptAtHand(q) ==
  /\ orders[q.order].status \in {"submitted", "partial"}
  /\ q.row.status = orders[q.order].status
  /\ q.row.edition = orders[q.order].edition
  /\ \A n \in DOMAIN q.todo : q.todo[n].item[1] = OrderBranch[q.order]
  /\ \A s \in Skus : LineAtHand(q, s)

OrderAtHand(q) ==
  /\ q.op \in OrderOps => orders[q.order].status # "none"
  /\ q.op \in {"edit", "submit"} => orders[q.order].status = "draft"
  /\ q.op = "push" =>
       /\ orders[q.order].status # "draft"
       /\ \A s \in Skus : q.row.lines[s].qty = orders[q.order].lines[s].qty
  /\ q.op = "receive" => ReceiptAtHand(q)

OrderInv ==
  /\ \A o \in Orders : OrderTrue(o)
  /\ \A r \in Requests : OrderAtHand(req[r])

LEMMA OrderTypes ==
  ASSUME TypeInv, NEW o \in Orders
  PROVE  /\ orders[o] \in OrderRows /\ orders[o].lines \in Lines
         /\ OrderBranch[o] \in Branches
         /\ \A s \in Skus : /\ orders[o].lines[s] \in [qty : Nat, received : Nat]
                            /\ receipts[o][s] \in Nat
                            /\ <<OrderBranch[o], s>> \in Items
<1>1. orders[o] \in OrderRows /\ orders[o].lines \in Lines /\ receipts[o] \in [Skus -> Nat]
  BY DEF TypeInv, TypeOK, OrderRows
<1>2. OrderBranch[o] \in Branches
  BY ConstantsAssumption DEF ConstantsAssumption
<1> QED
  BY <1>1, <1>2 DEF Lines, Items

(* A step of the handler in flight that keeps every order true. *)
LEMMA OrderStep ==
  ASSUME OneSlot, TypeInv, NEW r \in Requests, \A o \in Orders : OrderTrue(o)',
         OrderAtHand(req[r])'
  PROVE  OrderInv'
BY DEF OneSlot, OrderInv

(* One that reads or writes no order: the slot at hand decides. *)
LEMMA QuietOrders ==
  ASSUME OneSlot, TypeInv, OrderInv, NEW r \in Requests,
         UNCHANGED <<orders, receipts, supplier>>, OrderAtHand(req[r])'
  PROVE  OrderInv'
<1>1. \A o \in Orders : OrderTrue(o)'
  BY DEF OrderInv, OrderTrue
<1> QED
  BY <1>1, OrderStep

LEMMA NoOrderAtHand ==
  ASSUME NEW q, q.op \notin OrderOps
  PROVE  OrderAtHand(q)
BY DEF OrderAtHand, OrderOps

(* A write of a receipt moves what its line has then received. *)
LEMMA ReceiptWritten ==
  ASSUME TypeInv, NEW q \in RequestStates, WellFormed(q), OrderAtHand(q),
         q.op = "receive", q.step = "write", NEW row \in StockRows, NEW p,
         p = Wrote(q, row, Head(q.todo).delta)
  PROVE  ReceiptAtHand(p)
<1>1. PICK delta, i : delta = Head(q.todo).delta /\ i = Head(q.todo).item
  OBVIOUS
<1>2. PICK o : o = q.order
  OBVIOUS
<1>3. ReceiptAtHand(q) /\ o \in Orders
  BY <1>2 DEF OrderAtHand, WellFormed, OrderOps
<1>4. /\ q.todo \in Seq(Changes) /\ q.todo # <<>> /\ Tail(q.todo) \in Seq(Changes)
      /\ i \in Items /\ delta \in Nat
  BY <1>1, NextChange DEF RequestStates, WellFormed, ItemOps
<1>5. p = Wrote(q, row, delta)
  BY <1>1
<1>6. p.todo = Tail(q.todo) /\ p.order = o
  BY <1>2, <1>5, WroteKept
<1>7. \A n \in DOMAIN p.todo : p.todo[n].item[1] = OrderBranch[o]
  <2>1. Len(q.todo) \in Nat /\ DOMAIN q.todo = 1..Len(q.todo)
    BY <1>4
  <2>2. \A n \in DOMAIN p.todo : \E m \in DOMAIN q.todo : p.todo[n] = q.todo[m]
    <3>1. \A n \in DOMAIN Tail(q.todo) :
            n + 1 \in DOMAIN q.todo /\ Tail(q.todo)[n] = q.todo[n + 1]
      BY <1>4, <2>1
    <3>2. PICK tail : tail = Tail(q.todo)
      OBVIOUS
    <3>3. \A n \in DOMAIN tail : \E m \in DOMAIN q.todo : tail[n] = q.todo[m]
      BY <3>1, <3>2
    <3> QED
      BY <1>6, <3>2, <3>3
  <2>3. \A m \in DOMAIN q.todo : q.todo[m].item[1] = OrderBranch[o]
    BY <1>2, <1>3 DEF ReceiptAtHand
  <2> QED
    BY <2>2, <2>3
<1>8. i[1] = OrderBranch[o] /\ i[2] \in Skus
  <2>1. 1 \in DOMAIN q.todo /\ Head(q.todo) = q.todo[1]
    BY <1>4
  <2> QED
    BY <1>1, <1>2, <1>3, <1>4, <2>1 DEF ReceiptAtHand, Items
<1>9. p.row = Received(q.row, i[2], delta)
  BY <1>1, <1>5, WroteCounts
<1>10. q.row \in OrderRows /\ q.row.lines \in Lines
  BY DEF RequestStates, OrderRows
<1>11. /\ p.row.status = q.row.status /\ p.row.edition = q.row.edition
       /\ \A s \in Skus :
            /\ p.row.lines[s].qty = q.row.lines[s].qty
            /\ p.row.lines[s].received =
                 IF s = i[2] THEN q.row.lines[s].received + delta
                 ELSE q.row.lines[s].received
  BY <1>8, <1>9, <1>10 DEF Received, OrderRows, Lines
<1>12. ASSUME NEW s \in Skus
       PROVE  LineAtHand(p, s)
  <2>1. PICK k \in Items : k = <<OrderBranch[o], s>>
    BY <1>3, OrderTypes
  <2>2. k = i <=> s = i[2]
    BY <1>4, <1>8, <2>1 DEF Items
  <2>3. /\ p.rows[k] = IF k = i THEN row ELSE q.rows[k]
        /\ p.moves[k] = IF k = i THEN q.moves[k] + delta ELSE q.moves[k]
    BY <1>1, <1>5, WroteItem
  <2>4. /\ q.row.lines[s].qty = orders[o].lines[s].qty
        /\ q.row.lines[s].received = orders[o].lines[s].received + q.moves[k]
        /\ q.rows[k] = None => q.moves[k] = 0
    BY <1>2, <1>3, <2>1 DEF ReceiptAtHand, LineAtHand
  <2>5. orders[o].lines[s].received \in Nat /\ q.moves[k] \in Int
    BY <1>3, OrderTypes DEF RequestStates
  <2>6. row # None
    BY NoneAssumption
  <2>7. /\ p.row.lines[s].qty = orders[o].lines[s].qty
        /\ p.row.lines[s].received = orders[o].lines[s].received + p.moves[k]
        /\ p.rows[k] = None => p.moves[k] = 0
    BY <1>4, <1>11, <2>2, <2>3, <2>4, <2>5, <2>6
  <2> QED
    BY <1>6, <2>1, <2>7 DEF LineAtHand
<1> QED
  BY <1>2, <1>3, <1>6, <1>7, <1>11, <1>12 DEF ReceiptAtHand

LEMMA MoveOrders ==
  ASSUME OneSlot, TypeInv, OrderInv, NEW r \in Requests, Move(r)
  PROVE  OrderInv'
<1>1. req \in [Requests -> RequestStates] /\ req[r] \in RequestStates
      /\ WellFormed(req[r]) /\ OrderAtHand(req[r])
  BY SlotType DEF TypeInv, TypeOK, OrderInv
<1>2. PICK q, p : q = req[r] /\ p = req'[r]
  OBVIOUS
<1>3. UNCHANGED <<orders, receipts, supplier>>
  BY DEF Move, ReadItem, SkipItem, WriteOnHand, WriteReserved, WriteConsumed,
     Write, ledger
<1>4. OrderAtHand(p)
  <2>1. CASE ReadItem(r)
    <3>1. /\ p.op = q.op /\ p.todo = q.todo /\ p.moves = q.moves
          /\ p.rows = q.rows /\ p.row = q.row /\ p.order = q.order
      BY <1>1, <1>2, <2>1 DEF ReadItem, RequestStates
    <3> QED
      BY <1>1, <1>2, <3>1 DEF OrderAtHand, ReceiptAtHand, LineAtHand
  <2>2. CASE SkipItem(r)
    <3>1. p.op = q.op /\ q.op \in {"reserve", "consume"}
      BY <1>1, <1>2, <2>2 DEF SkipItem, RequestStates
    <3> QED
      BY <3>1, NoOrderAtHand DEF OrderOps
  <2>3. CASE WriteReserved(r) \/ WriteConsumed(r)
    <3>1. PICK row, delta : req' = [req EXCEPT ![r] = Wrote(req[r], row, delta)]
      BY <2>3 DEF WriteReserved, WriteConsumed, Write
    <3>2. p = Wrote(q, row, delta)
      BY <1>1, <1>2, <3>1
    <3>3. p.op = q.op /\ q.op \in {"reserve", "consume"}
      BY <1>1, <1>2, <2>3, <3>2, WroteKept DEF WriteReserved, WriteConsumed, At
    <3> QED
      BY <3>3, NoOrderAtHand DEF OrderOps
  <2>4. CASE WriteOnHand(r)
    <3>1. PICK row \in StockRows : Write(r, row, Head(q.todo).delta)
      <4>1. PICK i, delta, seen : i = Head(q.todo).item /\ delta = Head(q.todo).delta
                                  /\ seen = q.seen
        OBVIOUS
      <4>2. i \in Items /\ delta \in Int /\ seen \in StockRows /\ Row(r, i) \in StockRows
        <5>1. q.op \in ItemOps /\ q.step = "write"
          BY <1>2, <2>4 DEF WriteOnHand, ItemOps
        <5>2. i \in Items /\ delta \in Int
          BY <1>1, <1>2, <4>1, <5>1, NextChange
        <5> QED
          BY <1>1, <1>2, <4>1, <5>2, SlotType DEF RequestStates
      <4>3. PICK own : own = Row(r, i)
        OBVIOUS
      <4>4. \/ Write(r, [own EXCEPT !.onHand = seen.onHand + delta], delta)
            \/ Write(r, NewItem(delta), delta)
        BY <1>2, <2>4, <4>1, <4>3 DEF WriteOnHand
      <4>5. /\ [own EXCEPT !.onHand = seen.onHand + delta] \in StockRows
            /\ NewItem(delta) \in StockRows
        BY <4>2, <4>3, RowTypes DEF StockRows
      <4> QED
        BY <4>1, <4>4, <4>5
    <3>2. p = Wrote(q, row, Head(q.todo).delta) /\ q.step = "write"
      BY <1>1, <1>2, <2>4, <3>1 DEF Write, WriteOnHand
    <3>3. p.op = q.op /\ q.op \in {"adjust", "transfer", "receive", "resolve"}
      <4>1. PICK delta : delta = Head(q.todo).delta
        OBVIOUS
      <4>2. p = Wrote(q, row, delta)
        BY <3>2, <4>1
      <4> QED
        BY <1>1, <1>2, <2>4, <4>2, WroteKept DEF WriteOnHand
    <3>4. CASE q.op = "receive"
      <4>1. ReceiptAtHand(p)
        BY <1>1, <1>2, <3>2, <3>4, ReceiptWritten
      <4> QED
        BY <3>3, <3>4, <4>1 DEF OrderAtHand, ReceiptAtHand, OrderOps
    <3> QED
      BY <3>3, <3>4, NoOrderAtHand DEF OrderOps
  <2> QED
    BY <2>1, <2>2, <2>3, <2>4 DEF Move
<1>5. OrderAtHand(req[r])'
  BY <1>2, <1>3, <1>4 DEF OrderAtHand, ReceiptAtHand, LineAtHand
<1> QED
  BY <1>3, <1>5, QuietOrders

(* Once it is the order's turn: the steps that write it. *)
LEMMA OrderWritten ==
  ASSUME TypeInv, OrderInv, NEW r \in Requests, NEW o \in Orders, o = req[r].order,
         SubmitWrite(r) \/ Push(r) \/ Stamp(r) \/ CancelWrite(r) \/ EditLinesWrite(r)
  PROVE  \A x \in Orders : OrderTrue(x)'
<1>1. /\ orders \in [Orders -> OrderRows] /\ receipts \in [Orders -> [Skus -> Nat]]
      /\ supplier \in [Orders -> [Skus -> Nat] \cup {None}]
      /\ orders[o] \in OrderRows /\ orders[o].lines \in Lines
  BY DEF TypeInv, TypeOK, OrderRows
<1>2. OrderTrue(o) /\ OrderAtHand(req[r])
  BY DEF OrderInv
<1>3. \A x \in Orders \ {o} :
        orders'[x] = orders[x] /\ supplier'[x] = supplier[x] /\ receipts'[x] = receipts[x]
  BY <1>1 DEF SubmitWrite, Push, Stamp, CancelWrite, EditLinesWrite, ledger
<1>4. \A x \in Orders \ {o} : OrderTrue(x)'
  BY <1>3 DEF OrderInv, OrderTrue
<1>5. CASE SubmitWrite(r)
  <2>1. /\ orders'[o].status = "submitted" /\ orders'[o].lines = orders[o].lines
        /\ supplier'[o] = supplier[o] /\ receipts'[o] = receipts[o]
    BY <1>1, <1>5 DEF SubmitWrite, OrderRows, ledger
  <2> QED
    BY <1>2, <2>1, <1>4 DEF OrderTrue
<1>6. CASE Stamp(r)
  <2>1. /\ orders'[o].status = orders[o].status /\ orders'[o].lines = orders[o].lines
        /\ supplier'[o] = supplier[o] /\ receipts'[o] = receipts[o]
    BY <1>1, <1>6 DEF Stamp, OrderRows, ledger
  <2> QED
    BY <1>2, <2>1, <1>4 DEF OrderTrue
<1>7. CASE CancelWrite(r)
  <2>1. /\ orders'[o].status = "canceled" /\ orders'[o].lines = orders[o].lines
        /\ supplier'[o] = supplier[o] /\ receipts'[o] = receipts[o]
    BY <1>1, <1>7 DEF CancelWrite, OrderRows, ledger
  <2> QED
    BY <1>2, <2>1, <1>4 DEF OrderTrue
<1>8. CASE Push(r)
  <2>1. /\ orders'[o] = orders[o] /\ receipts'[o] = receipts[o]
        /\ supplier'[o] = IF supplier[o] = None THEN Quantities(req[r].row.lines)
                          ELSE supplier[o]
    BY <1>1, <1>8 DEF Push, ledger
  <2>2. req[r].op = "push"
    BY <1>8 DEF Push, At
  <2>3. /\ orders[o].status \notin {"none", "draft"}
        /\ \A s \in Skus : req[r].row.lines[s].qty = orders[o].lines[s].qty
    BY <1>2, <2>2 DEF OrderAtHand, OrderOps
  <2>4. Quantities(req[r].row.lines) = Quantities(orders[o].lines)
    BY <2>3 DEF Quantities
  <2> QED
    BY <1>2, <1>4, <2>1, <2>3, <2>4 DEF OrderTrue
<1>9. CASE EditLinesWrite(r)
  <2>1. req[r].op = "edit"
    BY <1>9 DEF EditLinesWrite, At
  <2>2. orders[o].status = "draft"
    BY <1>2, <2>1 DEF OrderAtHand
  <2>3. PICK qty : orders' = [orders EXCEPT ![o].lines = OrderLines(qty),
                                            ![o].edition = @ + 1]
    BY <1>9 DEF EditLinesWrite
  <2>4. /\ orders'[o].status = "draft" /\ orders'[o].lines = OrderLines(qty)
        /\ supplier'[o] = supplier[o] /\ receipts'[o] = receipts[o]
    BY <1>1, <1>9, <2>2, <2>3 DEF EditLinesWrite, OrderRows, ledger
  <2>5. \A s \in Skus : OrderLines(qty)[s].received = 0
    BY DEF OrderLines
  <2>6. supplier[o] = None /\ \A s \in Skus : receipts[o][s] = 0
    BY <1>2, <2>2 DEF OrderTrue
  <2> QED
    BY <1>4, <2>4, <2>5, <2>6 DEF OrderTrue
<1> QED
  BY <1>5, <1>6, <1>7, <1>8, <1>9

(* What a receipt writes back is what it moved. *)
LEMMA ReceiptStored ==
  ASSUME TypeInv, OrderInv, NEW r \in Requests, NEW o \in Orders,
         o = req[r].order, ReceiveCommit(r) \/ ReceiveRefused(r)
  PROVE  \A x \in Orders : OrderTrue(x)'
<1>1. /\ orders \in [Orders -> OrderRows] /\ receipts \in [Orders -> [Skus -> Nat]]
      /\ orders[o] \in OrderRows /\ orders[o].lines \in Lines
      /\ req[r] \in RequestStates
  BY DEF TypeInv, TypeOK, OrderRows
<1>2. PICK q : q = req[r]
  OBVIOUS
<1>3. PICK row, status : /\ row = q.row /\ ReceiveEnd(r, status)
                         /\ status = NextStatus(row) \/ status = orders[o].status
  BY <1>2 DEF ReceiveCommit, ReceiveRefused
<1>4. q.op = "receive"
  BY <1>2 DEF ReceiveCommit, ReceiveRefused, Written, Refused, At
<1>5. OrderTrue(o) /\ ReceiptAtHand(q)
  BY <1>2, <1>4 DEF OrderInv, OrderAtHand
<1>6. /\ row.status = orders[o].status /\ row.edition = orders[o].edition
      /\ orders[o].status \in {"submitted", "partial"}
  BY <1>2, <1>3, <1>5 DEF ReceiptAtHand
<1>7. PICK lines : lines = Receipted(r)
  OBVIOUS
<1>8. /\ orders' = [orders EXCEPT ![o].lines = lines, ![o].status = status]
      /\ receipts' = [receipts EXCEPT ![o] =
           [s \in Skus |-> receipts[o][s] + q.moves[<<OrderBranch[o], s>>]]]
      /\ supplier' = supplier
  BY <1>2, <1>3, <1>7 DEF ReceiveEnd
<1>9. ASSUME NEW s \in Skus
      PROVE  /\ lines[s].qty = orders[o].lines[s].qty
             /\ lines[s].received = row.lines[s].received
             /\ lines[s].received = receipts'[o][s]
  <2>1. PICK k \in Items : k = <<OrderBranch[o], s>>
    BY OrderTypes
  <2>2. /\ row.lines[s].qty = orders[o].lines[s].qty
        /\ row.lines[s].received = orders[o].lines[s].received + q.moves[k]
        /\ q.rows[k] = None => q.moves[k] = 0
    BY <1>2, <1>3, <1>5, <2>1 DEF ReceiptAtHand, LineAtHand
  <2>3. lines[s] = IF q.rows[k] # None
                   THEN [orders[o].lines[s] EXCEPT !.received = row.lines[s].received]
                   ELSE orders[o].lines[s]
    BY <1>2, <1>3, <1>6, <1>7, <2>1 DEF Receipted
  <2>4. receipts'[o][s] = receipts[o][s] + q.moves[k]
    BY <1>1, <1>8, <2>1
  <2>5. orders[o].lines[s].received = receipts[o][s]
    BY <1>5 DEF OrderTrue
  <2>6. /\ orders[o].lines[s] \in [qty : Nat, received : Nat]
        /\ q.moves[k] \in Int /\ receipts[o][s] \in Nat
    BY <1>1, <1>2, OrderTypes DEF RequestStates
  <2> QED
    BY <2>2, <2>3, <2>4, <2>5, <2>6
<1>10. /\ orders'[o].status = status /\ orders'[o].lines = lines
       /\ supplier'[o] = supplier[o]
  BY <1>1, <1>8 DEF OrderRows
<1>11. status = "received" => \A s \in Skus : lines[s].received >= lines[s].qty
  <2>1. ASSUME status = "received"
        PROVE  \A s \in Skus : row.lines[s].received >= row.lines[s].qty
    <3>1. NextStatus(row) = "received"
      BY <1>3, <1>6, <2>1
    <3>2. CASE \A s \in Skus : row.lines[s].received >= row.lines[s].qty
      BY <3>2
    <3>3. CASE ~(\A s \in Skus : row.lines[s].received >= row.lines[s].qty)
      <4>1. NextStatus(row) \in {"partial", row.status}
        BY <3>3 DEF NextStatus
      <4> QED
        BY <1>6, <3>1, <4>1
    <3> QED
      BY <3>2, <3>3
  <2>2. \A s \in Skus : row.lines[s].qty = orders[o].lines[s].qty
    BY <1>2, <1>3, <1>5 DEF ReceiptAtHand, LineAtHand
  <2> QED
    BY <1>9, <2>1, <2>2
<1>12. status \in {"received", "partial", "submitted"}
  BY <1>3, <1>6 DEF NextStatus
<1>13. Quantities(lines) = Quantities(orders[o].lines)
  BY <1>9 DEF Quantities
<1>14. OrderTrue(o)'
  BY <1>5, <1>9, <1>10, <1>11, <1>12, <1>13 DEF OrderTrue
<1>15. \A x \in Orders \ {o} :
         orders'[x] = orders[x] /\ supplier'[x] = supplier[x] /\ receipts'[x] = receipts[x]
  BY <1>1, <1>8
<1>16. \A x \in Orders \ {o} : OrderTrue(x)'
  BY <1>15 DEF OrderInv, OrderTrue
<1> QED
  BY <1>14, <1>16

(* A handler that has just read its order finds it so. *)
LEMMA OrderRead ==
  ASSUME TypeInv, NEW r \in Requests,
         EditLinesRead(r) \/ SubmitRead(r) \/ SyncRead(r) \/ CancelRead(r)
         \/ ReceiveRead(r)
  PROVE  OrderAtHand(req[r])'
<1>1. req \in [Requests -> RequestStates]
  BY DEF TypeInv, TypeOK
<1>2. orders' = orders
  BY DEF EditLinesRead, SubmitRead, SyncRead, CancelRead, ReadOrder, ReceiveRead
<1>3. PICK p : p = req'[r]
  OBVIOUS
<1>4. ASSUME NEW o \in Orders, NEW op \in {"edit", "submit", "push", "cancel"},
             NEW step, ReadOrder(r, o, op, step)
      PROVE  p.op = op /\ p.order = o /\ p.row = orders[o]
  BY <1>1, <1>3, <1>4 DEF ReadOrder, Begin, Idle
<1>5. CASE EditLinesRead(r)
  <2>1. PICK o \in Orders : orders[o].status = "draft" /\ ReadOrder(r, o, "edit", "write")
    BY <1>5 DEF EditLinesRead
  <2> QED
    BY <1>2, <1>3, <1>4, <2>1 DEF OrderAtHand
<1>6. CASE SubmitRead(r)
  <2>1. PICK o \in Orders : orders[o].status = "draft" /\ ReadOrder(r, o, "submit", "write")
    BY <1>6 DEF SubmitRead
  <2> QED
    BY <1>2, <1>3, <1>4, <2>1 DEF OrderAtHand
<1>7. CASE SyncRead(r)
  <2>1. PICK o \in Orders : /\ orders[o].status \notin {"none", "draft", "canceled"}
                            /\ ReadOrder(r, o, "push", "write")
    BY <1>7 DEF SyncRead
  <2> QED
    BY <1>2, <1>3, <1>4, <2>1 DEF OrderAtHand
<1>8. CASE CancelRead(r)
  <2>1. PICK o \in Orders : /\ orders[o].status \in {"draft", "submitted", "partial"}
                            /\ ReadOrder(r, o, "cancel", "write")
    BY <1>8 DEF CancelRead
  <2> QED
    BY <1>2, <1>3, <1>4, <2>1 DEF OrderAtHand
<1>9. CASE ReceiveRead(r)
  <2> DEFINE Opens(o, n, over, lines) ==
               req' = [req EXCEPT ![r] = [Begin(r, "receive", "read") EXCEPT
                         !.order = o, !.row = orders[o], !.over = over,
                         !.todo = [k \in 1..n |->
                           Change(<<OrderBranch[o], lines[k][1]>>, lines[k][2])]]]
             Opened(o) == /\ p.op = "receive" /\ p.order = o /\ p.row = orders[o]
                          /\ p.moves = [i \in Items |-> 0]
                          /\ \A n \in DOMAIN p.todo : p.todo[n].item[1] = OrderBranch[o]
  <2>1. \E o \in Orders, n \in 1..MaxLines, over \in BOOLEAN :
          /\ orders[o].status \in {"submitted", "partial"}
          /\ \E lines \in [1..n -> Skus \X Qty] : Opens(o, n, over, lines)
    BY <1>9 DEF ReceiveRead
  <2>2. ASSUME NEW o, NEW n, NEW over, NEW lines, Opens(o, n, over, lines)
        PROVE  Opened(o)
    <3>1. /\ p.op = "receive" /\ p.order = o /\ p.row = orders[o]
          /\ p.moves = [i \in Items |-> 0]
      BY <1>1, <1>3, <2>2 DEF Begin, Idle
    <3>2. p.todo = [k \in 1..n |->
                      Change(<<OrderBranch[o], lines[k][1]>>, lines[k][2])]
      BY <1>1, <1>3, <2>2 DEF Begin, Idle
    <3>3. \A k \in DOMAIN p.todo : p.todo[k].item[1] = OrderBranch[o]
      BY <3>2 DEF Change
    <3> QED
      BY <3>1, <3>3
  <2> HIDE DEF Opens, Opened
  <2>3. PICK o \in Orders : orders[o].status \in {"submitted", "partial"} /\ Opened(o)
    BY <2>1, <2>2
  <2>4. \A s \in Skus : p.moves[<<OrderBranch[o], s>>] = 0
    BY <2>3, OrderTypes DEF Opened
  <2>5. \A s \in Skus : orders[o].lines[s].received \in Nat
    BY OrderTypes
  <2>6. /\ p.op = "receive" /\ p.order = o /\ p.row = orders[o]
        /\ \A n \in DOMAIN p.todo : p.todo[n].item[1] = OrderBranch[o]
    BY <2>3 DEF Opened
  <2>7. \A s \in Skus : LineAtHand(p, s)'
    BY <1>2, <2>4, <2>5, <2>6 DEF LineAtHand
  <2>8. ReceiptAtHand(p)'
    BY <1>2, <2>3, <2>6, <2>7 DEF ReceiptAtHand
  <2>9. OrderAtHand(p)'
    BY <1>2, <2>3, <2>6, <2>8 DEF OrderAtHand
  <2> QED
    BY <1>3, <2>9 DEF OrderAtHand, ReceiptAtHand, LineAtHand
<1> QED
  BY <1>5, <1>6, <1>7, <1>8, <1>9

LEMMA PurchaseOrders ==
  ASSUME OneSlot, TypeInv, OrderInv, NEW r \in Requests, Purchase(r)
  PROVE  OrderInv'
<1>1. req \in [Requests -> RequestStates] /\ req[r] \in RequestStates
      /\ WellFormed(req[r]) /\ OrderAtHand(req[r]) /\ orders \in [Orders -> OrderRows]
  BY SlotType DEF TypeInv, TypeOK, OrderInv
<1>2. CASE EditLinesRead(r) \/ SubmitRead(r) \/ SyncRead(r) \/ CancelRead(r)
           \/ ReceiveRead(r)
  <2>1. UNCHANGED <<orders, receipts, supplier>>
    BY <1>2 DEF EditLinesRead, SubmitRead, SyncRead, CancelRead, ReadOrder,
       ReceiveRead, ledger
  <2> QED
    BY <1>2, <2>1, OrderRead, QuietOrders
<1>3. CASE SubmitWrite(r) \/ Push(r) \/ Stamp(r) \/ CancelWrite(r) \/ EditLinesWrite(r)
  <2>1. PICK o \in Orders : o = req[r].order
    BY <1>1, <1>3 DEF SubmitWrite, Push, Stamp, CancelWrite, EditLinesWrite, At,
       WellFormed, OrderOps
  <2>2. \A x \in Orders : OrderTrue(x)'
    BY <1>3, <2>1, OrderWritten
  <2>3. OrderAtHand(req[r])'
    <3>1. CASE Stamp(r) \/ CancelWrite(r) \/ EditLinesWrite(r)
      BY <3>1, Ends DEF Idle, OrderAtHand, OrderOps
    <3>2. CASE SubmitWrite(r)
      <4>1. /\ req'[r].op = "push" /\ req'[r].order = o /\ req'[r].row = orders'[o]
            /\ orders'[o].status = "submitted"
        BY <1>1, <2>1, <3>2 DEF SubmitWrite, RequestStates, OrderRows
      <4> QED
        BY <4>1 DEF OrderAtHand
    <3>3. CASE Push(r)
      <4>1. /\ req'[r].op = "push" /\ req'[r].order = o /\ req'[r].row = req[r].row
            /\ orders' = orders /\ req[r].op = "push"
        BY <1>1, <2>1, <3>3 DEF Push, At, RequestStates
      <4> QED
        BY <1>1, <2>1, <4>1 DEF OrderAtHand, OrderOps
    <3> QED
      BY <1>3, <3>1, <3>2, <3>3
  <2> QED
    BY <2>2, <2>3, OrderStep
<1>4. CASE ReceiveCommit(r) \/ ReceiveRefused(r)
  <2>1. PICK o \in Orders : o = req[r].order
    BY <1>1, <1>4 DEF ReceiveCommit, ReceiveRefused, Written, Refused, At,
       WellFormed, OrderOps
  <2>2. \A x \in Orders : OrderTrue(x)'
    BY <1>4, <2>1, ReceiptStored
  <2>3. OrderAtHand(req[r])'
    BY <1>4, Ends DEF Idle, OrderAtHand, OrderOps
  <2> QED
    BY <2>2, <2>3, OrderStep
<1> QED
  BY <1>2, <1>3, <1>4 DEF Purchase

(* A draft is written under no handler's eyes: it was not there to be read. *)
LEMMA CreatedOrder ==
  ASSUME TypeInv, OrderInv, NEW o \in Orders, CreateOrder(o)
  PROVE  OrderInv'
<1>1. orders \in [Orders -> OrderRows] /\ orders[o].status = "none" /\ OrderTrue(o)
      /\ orders[o] \in OrderRows
  BY DEF TypeInv, TypeOK, OrderInv, CreateOrder
<1>2. PICK qty : orders' = [orders EXCEPT ![o].status = "draft",
                                          ![o].lines = OrderLines(qty)]
  BY DEF CreateOrder
<1>3. UNCHANGED <<receipts, supplier, req>>
  BY DEF CreateOrder, ledger
<1>4. /\ orders'[o].status = "draft" /\ orders'[o].lines = OrderLines(qty)
      /\ \A x \in Orders \ {o} : orders'[x] = orders[x]
  BY <1>1, <1>2 DEF OrderRows
<1>5. \A s \in Skus : OrderLines(qty)[s].received = 0
  BY DEF OrderLines
<1>6. OrderTrue(o)'
  BY <1>1, <1>3, <1>4, <1>5 DEF OrderTrue
<1>7. \A x \in Orders \ {o} : OrderTrue(x)'
  BY <1>3, <1>4 DEF OrderInv, OrderTrue
<1>8. ASSUME NEW r \in Requests
      PROVE  OrderAtHand(req[r])'
  <2>1. PICK q : q = req[r] /\ q = req'[r]
    BY <1>3
  <2>2. OrderAtHand(q) /\ WellFormed(q)
    BY <2>1, SlotType DEF OrderInv
  <2>3. CASE q.op \in OrderOps
    <3>1. q.order \in Orders \ {o}
      BY <1>1, <2>2, <2>3 DEF OrderAtHand, WellFormed
    <3>2. orders'[q.order] = orders[q.order]
      BY <1>4, <3>1
    <3>3. OrderAtHand(q)'
      BY <2>2, <3>2 DEF OrderAtHand, ReceiptAtHand, LineAtHand
    <3> QED
      BY <2>1, <3>3 DEF OrderAtHand, ReceiptAtHand, LineAtHand
  <2>4. CASE q.op \notin OrderOps
    BY <2>1, <2>4 DEF OrderAtHand, OrderOps
  <2> QED
    BY <2>3, <2>4
<1> QED
  BY <1>6, <1>7, <1>8 DEF OrderInv

LEMMA NextOrders ==
  OneSlot /\ TypeInv /\ OrderInv /\ [Next]_vars => OrderInv'
<1> SUFFICES ASSUME OneSlot, TypeInv, OrderInv, [Next]_vars PROVE OrderInv'
  OBVIOUS
<1>1. CASE UNCHANGED vars \/ \E i \in Items : CreateItem(i) \/ EditItem(i)
  <2>1. UNCHANGED <<orders, receipts, supplier, req>>
    BY <1>1 DEF vars, CreateItem, EditItem, ledger
  <2>2. \A o \in Orders : OrderTrue(o)'
    BY <2>1 DEF OrderInv, OrderTrue
  <2>3. \A r \in Requests : OrderAtHand(req[r])'
    BY <2>1 DEF OrderInv, OrderAtHand, ReceiptAtHand, LineAtHand
  <2> QED
    BY <2>2, <2>3 DEF OrderInv
<1>2. ASSUME NEW r \in Requests, Stock(r) \/ Work(r) \/ Abort(r)
      PROVE  OrderInv'
  <2>1. UNCHANGED <<orders, receipts, supplier>>
    BY <1>2 DEF Stock, AdjustRead, AdjustCommit, TransferRead, TransferCommit,
       Work, AcceptRead, AcceptLock, AcceptCommit, CompleteRead, CompleteLock,
       CompleteCommit, ResolveRead, ResolveCommit, IgnoreRead, IgnoreWrite,
       Abort, ledger
  <2>2. req'[r].op \notin OrderOps
    BY <1>2, StockOps, WorkOps, Ends DEF Idle, OrderOps
  <2>3. OrderAtHand(req[r])'
    BY <2>2 DEF OrderAtHand, OrderOps
  <2> QED
    BY <2>1, <2>3, QuietOrders
<1>3. CASE \E o \in Orders : CreateOrder(o)
  BY <1>3, CreatedOrder
<1> QED
  BY <1>1, <1>2, <1>3, MoveOrders, PurchaseOrders DEF Next

LEMMA InitOrders == Init => OrderInv
<1> SUFFICES ASSUME Init PROVE OrderInv
  OBVIOUS
<1>1. \A o \in Orders : OrderTrue(o)
  BY DEF Init, OrderTrue, NoOrder, NoLines, OrderLines
<1>2. \A r \in Requests : OrderAtHand(req[r])
  BY DEF Init, Idle, OrderAtHand, OrderOps
<1> QED
  BY <1>1, <1>2 DEF OrderInv

(* received_qty of a line is the sum of the receipt movements of its order, *)
(* over receipts that were refused half way, edits and rollbacks, when      *)
(* handlers take turns.                                                     *)
THEOREM ReceiptsAlwaysMoved == OneSlot => (Spec => []ReceivedAsMoved)
<1> SUFFICES ASSUME OneSlot PROVE Spec => []ReceivedAsMoved
  OBVIOUS
<1>1. OrderInv => ReceivedAsMoved
  BY DEF OrderInv, OrderTrue, ReceivedAsMoved
<1>2. TypeInv /\ OrderInv /\ [Next]_vars => OrderInv'
  BY NextOrders
<1> QED
  BY <1>1, <1>2, InitTypeInv, InitOrders, NextTypeInv, PTL DEF Spec

(* An order is received only when each of its lines is, for the status      *)
(* follows from the lines a receipt read and wrote, when handlers take      *)
(* turns.                                                                   *)
THEOREM ReceivedAlwaysComplete == OneSlot => (Spec => []ReceivedIsComplete)
<1> SUFFICES ASSUME OneSlot PROVE Spec => []ReceivedIsComplete
  OBVIOUS
<1>1. OrderInv => ReceivedIsComplete
  BY DEF OrderInv, OrderTrue, ReceivedIsComplete
<1>2. TypeInv /\ OrderInv /\ [Next]_vars => OrderInv'
  BY NextOrders
<1> QED
  BY <1>1, <1>2, InitTypeInv, InitOrders, NextTypeInv, PTL DEF Spec

(* The document the supplier holds names the quantities of the order's      *)
(* lines, through failed, repeated and late pushes, when handlers take      *)
(* turns.                                                                   *)
THEOREM SupplierAlwaysHasLines == OneSlot => (Spec => []SupplierHasLines)
<1> SUFFICES ASSUME OneSlot PROVE Spec => []SupplierHasLines
  OBVIOUS
<1>1. OrderInv => SupplierHasLines
  BY DEF OrderInv, OrderTrue, SupplierHasLines
<1>2. TypeInv /\ OrderInv /\ [Next]_vars => OrderInv'
  BY NextOrders
<1> QED
  BY <1>1, <1>2, InitTypeInv, InitOrders, NextTypeInv, PTL DEF Spec

-----------------------------------------------------------------------------
(* The parts of a job, as a handler goes through them: Rest(j, k, sign) is  *)
(* left to do once the first k are done.                                    *)

Rest(j, k, sign) == [n \in 1..(Len(Parts[j]) - k) |-> Part(j, k + n, sign)]

LEMMA PartFacts ==
  ASSUME NEW j \in Jobs
  PROVE  /\ Len(Parts[j]) \in Nat /\ DOMAIN Parts[j] = 1..Len(Parts[j])
         /\ JobBranch[j] \in Branches
         /\ \A n \in 1..Len(Parts[j]) :
              Parts[j][n].sku \in Skus /\ Parts[j][n].qty \in Nat
<1> DEFINE parts == Parts[j]
<1>1. parts \in Seq([sku : Skus, qty : Nat \ {0}]) /\ JobBranch[j] \in Branches
  BY ConstantsAssumption DEF ConstantsAssumption
<1>2. /\ Len(parts) \in Nat /\ DOMAIN parts = 1..Len(parts)
      /\ \A n \in DOMAIN parts : parts[n] \in [sku : Skus, qty : Nat \ {0}]
  <2> HIDE DEF parts
  <2> QED
    BY <1>1, ElementsOf
<1> QED
  BY <1>1, <1>2

LEMMA PartOf ==
  ASSUME NEW j, NEW n, NEW sign
  PROVE  /\ Part(j, n, sign).item = <<JobBranch[j], Parts[j][n].sku>>
         /\ Part(j, n, sign).delta = sign * Parts[j][n].qty
BY DEF Part, Change

LEMMA RestAll ==
  ASSUME NEW j \in Jobs, NEW sign
  PROVE  PartChanges(j, sign) = Rest(j, 0, sign)
<1>1. Len(Parts[j]) \in Nat /\ DOMAIN Parts[j] = 1..Len(Parts[j])
  BY PartFacts
<1>2. \A n \in 1..Len(Parts[j]) : 0 + n = n
  OBVIOUS
<1>3. Len(Parts[j]) - 0 = Len(Parts[j])
  BY <1>1
<1> QED
  BY <1>1, <1>2, <1>3 DEF PartChanges, Rest

LEMMA TailOf ==
  ASSUME NEW S, NEW s \in Seq(S),
         s # <<>>
  PROVE  Tail(s) = [n \in 1..(Len(s) - 1) |-> s[n + 1]]
<1>1. PICK t : t = Tail(s)
  OBVIOUS
<1>2. t \in Seq(S) /\ Len(t) = Len(s) - 1 /\ \A n \in 1..(Len(s) - 1) : t[n] = s[n + 1]
  BY <1>1
<1>3. t = [n \in 1..Len(t) |-> t[n]]
  BY <1>2
<1>4. t = [n \in 1..(Len(s) - 1) |-> s[n + 1]]
  BY <1>2, <1>3
<1> QED
  BY <1>1, <1>4

LEMMA RestStep ==
  ASSUME NEW j \in Jobs, NEW sign, NEW k \in 0..Len(Parts[j]),
         NEW todo, todo = Rest(j, k, sign), todo # <<>>
  PROVE  /\ k + 1 \in 0..Len(Parts[j])
         /\ Head(todo) = Part(j, k + 1, sign)
         /\ Tail(todo) = Rest(j, k + 1, sign)
<1> DEFINE f(n) == Part(j, n, sign)
<1>1. PICK len \in Nat : len = Len(Parts[j])
  BY PartFacts
<1>2. todo = [n \in 1..(len - k) |-> f(k + n)] /\ len - k \in Nat
  BY <1>1 DEF Rest
<1> HIDE DEF f
<1>3. todo \in Seq({f(n) : n \in 1..len}) /\ Len(todo) = len - k
  BY <1>1, <1>2
<1>4. len - k > 0
  BY <1>1, <1>2, <1>3
<1>5. Head(todo) = f(k + 1)
  BY <1>1, <1>2, <1>3, <1>4
<1>6. Tail(todo) = [n \in 1..(len - (k + 1)) |-> f((k + 1) + n)]
  <2>1. PICK S : todo \in Seq(S)
    BY <1>3
  <2>2. Tail(todo) = [n \in 1..(Len(todo) - 1) |-> todo[n + 1]]
    BY <1>4, <2>1, TailOf
  <2>3. Len(todo) - 1 = len - (k + 1)
    BY <1>1, <1>3
  <2>4. \A n \in 1..(len - (k + 1)) : todo[n + 1] = f((k + 1) + n)
    BY <1>1, <1>2
  <2> QED
    BY <2>2, <2>3, <2>4
<1>7. k + 1 \in 0..Len(Parts[j])
  BY <1>1, <1>4
<1>8. Tail(todo) = Rest(j, k + 1, sign)
  BY <1>1, <1>6 DEF f, Rest
<1> QED
  BY <1>5, <1>7, <1>8 DEF f

LEMMA RestDone ==
  ASSUME NEW j \in Jobs, NEW sign, NEW k \in 0..Len(Parts[j]),
         Rest(j, k, sign) = <<>>
  PROVE  k = Len(Parts[j])
<1>1. PICK len \in Nat : len = Len(Parts[j])
  BY PartFacts
<1>2. DOMAIN Rest(j, k, sign) = 1..(len - k)
  BY <1>1 DEF Rest
<1>3. len - k >= 1 => 1 \in 1..(len - k)
  BY <1>1
<1>4. 1..(len - k) = {}
  BY <1>2
<1>5. k \in Int /\ k <= len
  BY <1>1
<1> QED
  BY <1>1, <1>3, <1>4, <1>5

(* What the first parts ask for grows by what the next one asks for. *)
LEMMA PartQties ==
  ASSUME NEW j \in Jobs, NEW k \in 0..Len(Parts[j])
  PROVE  /\ k \in Nat /\ IsFiniteSet(1..k)
         /\ \A n \in 1..k : PartQty(j)[n] \in Nat /\ PartQty(j)[n] = Parts[j][n].qty
<1>1. Len(Parts[j]) \in Nat
  BY PartFacts
<1>2. IsFiniteSet(1..k)
  BY <1>1, FS_Interval
<1>3. \A n \in 1..k : n \in 1..Len(Parts[j])
  BY <1>1
<1> QED
  BY <1>1, <1>2, <1>3, PartFacts DEF PartQty

LEMMA AskedSums ==
  ASSUME NEW j \in Jobs
  PROVE  /\ Asked(j, 0) = 0
         /\ \A k \in 0..Len(Parts[j]) : Asked(j, k) \in Nat
         /\ \A k \in 0..Len(Parts[j]) :
              k + 1 \in 0..Len(Parts[j]) =>
                Asked(j, k + 1) = Asked(j, k) + Parts[j][k + 1].qty
<1>1. Asked(j, 0) = 0
  <2>1. 1..0 = {}
    OBVIOUS
  <2> QED
    BY <2>1, SumEmpty DEF Asked
<1>2. ASSUME NEW k \in 0..Len(Parts[j])
      PROVE  Asked(j, k) \in Nat
  BY PartQties, SumType DEF Asked
<1>3. ASSUME NEW k \in 0..Len(Parts[j]), k + 1 \in 0..Len(Parts[j])
      PROVE  Asked(j, k + 1) = Asked(j, k) + Parts[j][k + 1].qty
  <2> DEFINE f == PartQty(j)
             n == k + 1
  <2>1. k \in Nat /\ IsFiniteSet(1..k)
    BY PartQties
  <2>2. 1..n = (1..k) \cup {n} /\ n \notin 1..k
    BY <2>1
  <2>3. \A m \in (1..k) \cup {n} : f[m] \in Int /\ f[m] = Parts[j][m].qty
    BY <1>3, <2>2, PartQties
  <2> HIDE DEF f, n
  <2>4. SumFunctionOnSet(f, (1..k) \cup {n}) = SumFunctionOnSet(f, 1..k) + f[n]
    BY <2>1, <2>2, <2>3, SumAdd
  <2> QED
    BY <2>2, <2>3, <2>4 DEF f, n, Asked
<1> QED
  BY <1>1, <1>2, <1>3

LEMMA AskedOfSums ==
  ASSUME NEW j \in Jobs, NEW s
  PROVE  /\ AskedOf(j, s, 0) = 0
         /\ \A k \in 0..Len(Parts[j]) : AskedOf(j, s, k) \in Nat
         /\ \A k \in 0..Len(Parts[j]) :
              k + 1 \in 0..Len(Parts[j]) =>
                AskedOf(j, s, k + 1) =
                  AskedOf(j, s, k)
                  + (IF Parts[j][k + 1].sku = s THEN Parts[j][k + 1].qty ELSE 0)
<1> DEFINE f == PartQty(j)
           S(k) == {n \in 1..k : Parts[j][n].sku = s}
<1>1. AskedOf(j, s, 0) = 0
  <2>1. S(0) = {}
    OBVIOUS
  <2> QED
    BY <2>1, SumEmpty DEF AskedOf
<1>2. ASSUME NEW k \in 0..Len(Parts[j])
      PROVE  k \in Nat /\ IsFiniteSet(S(k)) /\ \A n \in S(k) : f[n] \in Nat
  <2>1. S(k) \subseteq 1..k
    OBVIOUS
  <2>2. IsFiniteSet(S(k))
    BY <2>1, PartQties, FS_Subset
  <2> QED
    BY <2>1, <2>2, PartQties
<1>3. ASSUME NEW k \in 0..Len(Parts[j])
      PROVE  AskedOf(j, s, k) \in Nat
  <2> HIDE DEF f, S
  <2>1. SumFunctionOnSet(f, S(k)) \in Nat
    BY <1>2, SumType
  <2> QED
    BY <2>1 DEF AskedOf, f, S
<1>4. ASSUME NEW k \in 0..Len(Parts[j]), k + 1 \in 0..Len(Parts[j])
      PROVE  AskedOf(j, s, k + 1) =
               AskedOf(j, s, k)
               + (IF Parts[j][k + 1].sku = s THEN Parts[j][k + 1].qty ELSE 0)
  <2> DEFINE n == k + 1
  <2>1. 1..n = (1..k) \cup {n} /\ n \notin 1..k
    BY <1>2
  <2>2. n \notin S(k) /\ f[n] = Parts[j][n].qty /\ f[n] \in Nat
    BY <1>4, <2>1, PartQties
  <2>3. CASE Parts[j][n].sku = s
    <3>1. S(n) = S(k) \cup {n}
      BY <2>1, <2>3
    <3> HIDE DEF f, n, S
    <3>2. \A m \in S(k) \cup {n} : f[m] \in Int
      BY <1>2, <2>2
    <3>3. SumFunctionOnSet(f, S(k) \cup {n}) = SumFunctionOnSet(f, S(k)) + f[n]
      BY <1>2, <2>2, <3>2, SumAdd
    <3> QED
      BY <2>2, <2>3, <3>1, <3>3 DEF f, n, S, AskedOf
  <2>4. CASE Parts[j][n].sku # s
    <3>1. S(n) = S(k)
      BY <2>1, <2>4
    <3>2. SumFunctionOnSet(f, S(n)) = SumFunctionOnSet(f, S(k))
      BY <3>1
    <3>3. AskedOf(j, s, k) \in Nat
      BY <1>3
    <3> QED
      BY <2>4, <3>2, <3>3 DEF AskedOf
  <2> QED
    BY <2>3, <2>4
<1> QED
  BY <1>1, <1>3, <1>4

(* What a list of exceptions accounts for. *)
LEMMA UnresolvedSums ==
  ASSUME NEW list \in Seq(ExceptionRows)
  PROVE  /\ Unresolved(<<>>) = 0
         /\ Unresolved(list) \in Nat
         /\ \A qty \in Nat :
              Unresolved(Append(list, [qty |-> qty, status |-> "pending"]))
                = Unresolved(list) + qty
         /\ \A n \in DOMAIN list : list[n].status = "pending" =>
              /\ Unresolved([list EXCEPT ![n].status = "ignored"]) = Unresolved(list)
              /\ Unresolved([list EXCEPT ![n].status = "resolved"])
                   = Unresolved(list) - list[n].qty
<1> DEFINE f(l) == [n \in DOMAIN l |-> l[n].qty]
           S(l) == {n \in DOMAIN l : l[n].status # "resolved"}
           Sum(g, s) == SumFunctionOnSet(g, s)
<1>1. PICK len \in Nat : len = Len(list) /\ DOMAIN list = 1..len
  BY ElementsOf
<1>2. \A n \in 1..len : list[n] \in ExceptionRows /\ list[n].qty \in Nat
  <2>1. \A n \in 1..len : list[n] \in ExceptionRows
    BY <1>1, ElementsOf
  <2> QED
    BY <2>1 DEF ExceptionRows
<1>3. ASSUME NEW l, DOMAIN l \subseteq 1..(len + 1)
      PROVE  IsFiniteSet(S(l))
  <2>1. IsFiniteSet(1..(len + 1)) /\ S(l) \subseteq 1..(len + 1)
    BY <1>1, <1>3, FS_Interval
  <2> QED
    BY <2>1, FS_Subset
<1>4. IsFiniteSet(S(list)) /\ \A n \in S(list) : f(list)[n] \in Nat
  BY <1>1, <1>2, <1>3
<1>5. Unresolved(<<>>) = 0
  <2>1. S(<<>>) = {}
    OBVIOUS
  <2> QED
    BY <2>1, SumEmpty DEF Unresolved
<1>6. Unresolved(list) \in Nat
  <2> HIDE DEF f, S
  <2>1. SumFunctionOnSet(f(list), S(list)) \in Nat
    BY <1>4, SumType
  <2> QED
    BY <2>1 DEF f, S, Unresolved
<1>7. ASSUME NEW qty \in Nat
      PROVE  Unresolved(Append(list, [qty |-> qty, status |-> "pending"]))
               = Unresolved(list) + qty
  <2> DEFINE n == len + 1
             row == [qty |-> qty, status |-> "pending"]
  <2>1. PICK l : l = Append(list, row)
    OBVIOUS
  <2>2. /\ DOMAIN l = 1..n /\ l[n] = row /\ \A m \in 1..len : l[m] = list[m]
        /\ 1..n = (1..len) \cup {n} /\ n \notin 1..len
    BY <1>1, <2>1
  <2>3. S(l) = S(list) \cup {n} /\ n \notin S(list)
    BY <1>1, <2>2
  <2>4. f(l)[n] = qty /\ \A m \in S(list) : f(l)[m] = f(list)[m]
    BY <1>1, <2>2
  <2> HIDE DEF f, S, n
  <2>5. \A m \in S(list) \cup {n} : f(l)[m] \in Int
    BY <1>4, <2>4
  <2>6. SumFunctionOnSet(f(l), S(list) \cup {n})
          = SumFunctionOnSet(f(l), S(list)) + f(l)[n]
    BY <1>4, <2>3, <2>5, SumAdd
  <2>7. SumFunctionOnSet(f(l), S(list)) = SumFunctionOnSet(f(list), S(list))
    BY <1>4, <2>4, SumSame
  <2>8. SumFunctionOnSet(f(l), S(l)) = SumFunctionOnSet(f(list), S(list)) + qty
    BY <2>3, <2>4, <2>6, <2>7
  <2>9. Unresolved(l) = Unresolved(list) + qty
    BY <2>8 DEF f, S, Unresolved
  <2> QED
    BY <2>1, <2>9
<1>8. ASSUME NEW n \in DOMAIN list, list[n].status = "pending",
             NEW status \in {"ignored", "resolved"}, NEW l,
             l = [list EXCEPT ![n].status = status]
      PROVE  /\ DOMAIN l = 1..len
             /\ f(l) = f(list)
             /\ S(l) = IF status = "resolved" THEN S(list) \ {n} ELSE S(list)
             /\ n \in S(list)
  <2>1. DOMAIN l = 1..len /\ \A m \in 1..len : m # n => l[m] = list[m]
    BY <1>1, <1>8
  <2>2. l[n].status = status /\ l[n].qty = list[n].qty
    BY <1>1, <1>2, <1>8 DEF ExceptionRows
  <2>3. f(l) = f(list)
    <3>1. \A m \in 1..len : l[m].qty = list[m].qty
      BY <2>1, <2>2
    <3> QED
      BY <1>1, <2>1, <3>1
  <2>4. S(l) = IF status = "resolved" THEN S(list) \ {n} ELSE S(list)
    <3>1. \A m \in 1..len : m \in S(l) <=> m \in S(list) /\ (m = n => status # "resolved")
      BY <1>1, <1>8, <2>1, <2>2
    <3>2. S(l) \subseteq 1..len /\ S(list) \subseteq 1..len
      BY <1>1, <2>1
    <3> HIDE DEF S
    <3> QED
      BY <1>1, <3>1, <3>2
  <2> QED
    BY <1>8, <2>1, <2>3, <2>4
<1>9. ASSUME NEW n \in DOMAIN list, list[n].status = "pending"
      PROVE  /\ Unresolved([list EXCEPT ![n].status = "ignored"]) = Unresolved(list)
             /\ Unresolved([list EXCEPT ![n].status = "resolved"])
                  = Unresolved(list) - list[n].qty
  <2>1. PICK a, b : /\ a = [list EXCEPT ![n].status = "ignored"]
                    /\ b = [list EXCEPT ![n].status = "resolved"]
    OBVIOUS
  <2>2. f(a) = f(list) /\ S(a) = S(list)
    BY <1>8, <1>9, <2>1
  <2>3. f(b) = f(list) /\ S(b) = S(list) \ {n} /\ n \in S(list)
    BY <1>8, <1>9, <2>1
  <2>4. f(list)[n] = list[n].qty /\ list[n].qty \in Nat
    BY <1>1, <1>2
  <2> HIDE DEF f, S
  <2>5. SumFunctionOnSet(f(list), S(list))
          = SumFunctionOnSet(f(list), S(list) \ {n}) + f(list)[n]
    BY <1>4, <2>3, SumRemove
  <2>6. Unresolved(a) = Unresolved(list)
    BY <2>2 DEF f, S, Unresolved
  <2>7. Unresolved(list) = Unresolved(b) + list[n].qty
    BY <2>3, <2>4, <2>5 DEF f, S, Unresolved
  <2>8. SumFunctionOnSet(f(list), S(list) \ {n}) \in Int
    <3>1. IsFiniteSet(S(list) \ {n}) /\ \A m \in S(list) \ {n} : f(list)[m] \in Int
      BY <1>4, FS_Subset
    <3> QED
      BY <3>1, SumType
  <2>9. Unresolved(b) \in Int
    BY <2>3, <2>8 DEF f, S, Unresolved
  <2> QED
    BY <1>6, <2>1, <2>4, <2>6, <2>7, <2>9
<1> QED
  BY <1>5, <1>6, <1>7, <1>9

-----------------------------------------------------------------------------
(* PartsAccounted, when handlers take turns.  A completion has consumed the *)
(* first parts or put them into the inbox, and a resolution is of an        *)
(* exception that is still pending.                                         *)

JobTrue(j) ==
  /\ ~jobs[j].completed => used[j] = 0 /\ exceptions[j] = <<>> /\ ~jobs[j].consumed
  /\ jobs[j].completed =>
       used[j] + Unresolved(exceptions[j]) = Asked(j, Len(Parts[j]))

ConsumedTo(q, k) ==
  q.todo = Rest(q.job, k, -1) /\ q.used + Unresolved(q.missed) = Asked(q.job, k)

CompletionAtHand(q) ==
  /\ ~jobs[q.job].completed
  /\ q.step = "lock" => q.used = 0 /\ q.missed = <<>>
  /\ q.step # "lock" => \E k \in 0..Len(Parts[q.job]) : ConsumedTo(q, k)

InboxAtHand(q) ==
  /\ jobs[q.job].completed
  /\ exceptions[q.job][q.exc].status = "pending"
  /\ q.op = "resolve" =>
       \/ /\ q.used = 0 /\ Len(q.todo) = 1
          /\ q.todo[1].delta = -exceptions[q.job][q.exc].qty
       \/ q.used = exceptions[q.job][q.exc].qty /\ q.todo = <<>>

JobAtHand(q) ==
  /\ q.op = "consume" => CompletionAtHand(q)
  /\ q.op \in {"resolve", "ignore"} => InboxAtHand(q)

PartsInv ==
  /\ \A j \in Jobs : JobTrue(j)
  /\ \A r \in Requests : JobAtHand(req[r])

(* A step of the handler in flight that keeps every job true. *)
LEMMA JobStep ==
  ASSUME OneSlot, NEW r \in Requests, \A j \in Jobs : JobTrue(j)',
         JobAtHand(req[r])'
  PROVE  PartsInv'
BY DEF OneSlot, PartsInv

LEMMA QuietJobs ==
  ASSUME OneSlot, PartsInv, NEW r \in Requests, UNCHANGED <<jobs, used, exceptions>>,
         JobAtHand(req[r])'
  PROVE  PartsInv'
<1>1. \A j \in Jobs : JobTrue(j)'
  BY DEF PartsInv, JobTrue
<1> QED
  BY <1>1, JobStep

(* The next part is consumed, or is not there to be. *)
LEMMA PartConsumed ==
  ASSUME NEW q \in RequestStates, WellFormed(q), CompletionAtHand(q),
         q.op = "consume", q.step # "lock", q.todo # <<>>,
         NEW p, p.job = q.job, p.step # "lock", p.todo = Tail(q.todo),
         \/ p.used = q.used - Head(q.todo).delta /\ p.missed = q.missed
         \/ /\ p.used = q.used
            /\ p.missed = Append(q.missed, [qty    |-> -Head(q.todo).delta,
                                            status |-> "pending"])
  PROVE  CompletionAtHand(p)
<1>1. PICK j \in Jobs : j = q.job
  BY DEF WellFormed, JobOps
<1>2. PICK k \in 0..Len(Parts[j]) : ConsumedTo(q, k)
  BY <1>1 DEF CompletionAtHand
<1>3. PICK todo, delta : todo = q.todo /\ delta = Head(q.todo).delta
  OBVIOUS
<1>4. /\ k + 1 \in 0..Len(Parts[j]) /\ Head(todo) = Part(j, k + 1, -1)
      /\ Tail(todo) = Rest(j, k + 1, -1)
  BY <1>1, <1>2, <1>3, RestStep DEF ConsumedTo
<1>5. PICK n : n = k + 1 /\ n \in 1..Len(Parts[j])
  BY <1>4, PartFacts
<1>6. PICK qty \in Nat : qty = Parts[j][n].qty
  BY <1>5, PartFacts
<1>7. delta = -qty
  <2>1. Part(j, n, -1).delta = (-1) * Parts[j][n].qty
    BY PartOf
  <2>2. delta = (-1) * Parts[j][n].qty
    BY <1>3, <1>4, <1>5, <2>1
  <2> QED
    BY <1>6, <2>2
<1>8. Asked(j, n) = Asked(j, k) + qty /\ Asked(j, k) \in Nat
  BY <1>4, <1>5, <1>6, AskedSums
<1>9. q.missed \in Seq(ExceptionRows) /\ q.used \in Nat
  BY DEF RequestStates
<1>10. /\ Unresolved(q.missed) \in Nat
       /\ Unresolved(Append(q.missed, [qty |-> qty, status |-> "pending"]))
            = Unresolved(q.missed) + qty
  BY <1>6, <1>9, UnresolvedSums
<1>11. -delta = qty /\ q.used - delta = q.used + qty
  BY <1>6, <1>7, <1>9
<1>12. p.used + Unresolved(p.missed) = Asked(j, n)
  <2>1. q.used + Unresolved(q.missed) = Asked(j, k)
    BY <1>1, <1>2 DEF ConsumedTo
  <2>2. CASE p.used = q.used - delta /\ p.missed = q.missed
    BY <1>8, <1>9, <1>10, <1>11, <2>1, <2>2
  <2>3. CASE /\ p.used = q.used
             /\ p.missed = Append(q.missed, [qty |-> -delta, status |-> "pending"])
    <3>1. Unresolved(p.missed) = Unresolved(q.missed) + qty
      BY <1>10, <1>11, <2>3
    <3> QED
      BY <1>8, <1>9, <1>10, <2>1, <2>3, <3>1
  <2> QED
    BY <1>3, <2>2, <2>3
<1>13. p.todo = Rest(j, n, -1)
  BY <1>3, <1>4, <1>5
<1>14. n \in 0..Len(Parts[j]) /\ p.job = j
  BY <1>1, <1>4, <1>5
<1> QED
  BY <1>1, <1>12, <1>13, <1>14 DEF CompletionAtHand, ConsumedTo

LEMMA MoveJobs ==
  ASSUME OneSlot, TypeInv, PartsInv, NEW r \in Requests, Move(r)
  PROVE  PartsInv'
<1>1. req \in [Requests -> RequestStates] /\ req[r] \in RequestStates
      /\ WellFormed(req[r]) /\ JobAtHand(req[r])
  BY SlotType DEF TypeInv, TypeOK, PartsInv
<1>2. PICK q, p : q = req[r] /\ p = req'[r]
  OBVIOUS
<1>3. UNCHANGED <<jobs, used, exceptions>>
  BY DEF Move, ReadItem, SkipItem, WriteOnHand, WriteReserved, WriteConsumed,
     Write, ledger
<1>4. JobAtHand(p)
  <2>1. CASE ReadItem(r)
    <3>1. /\ p.op = q.op /\ p.todo = q.todo /\ p.used = q.used /\ p.job = q.job
          /\ p.exc = q.exc /\ p.missed = q.missed /\ p.step = "write"
          /\ q.step = "read"
      BY <1>1, <1>2, <2>1 DEF ReadItem, RequestStates
    <3>2. CompletionAtHand(q) => CompletionAtHand(p)
      BY <3>1 DEF CompletionAtHand, ConsumedTo
    <3>3. InboxAtHand(q) => InboxAtHand(p)
      BY <3>1 DEF InboxAtHand
    <3> QED
      BY <1>1, <1>2, <3>1, <3>2, <3>3 DEF JobAtHand
  <2>2. CASE SkipItem(r)
    <3>1. /\ q.op \in {"reserve", "consume"} /\ q.step = "read" /\ q.todo # <<>>
          /\ p.op = q.op /\ p.step = q.step /\ p.todo = Tail(q.todo) /\ p.used = q.used
          /\ p.job = q.job
      BY <1>1, <1>2, <2>2 DEF SkipItem, RequestStates
    <3>2. q.op = "consume" =>
            p.missed = Append(q.missed, [qty    |-> -Head(q.todo).delta,
                                         status |-> "pending"])
      BY <1>1, <1>2, <2>2 DEF SkipItem, RequestStates
    <3>3. CASE q.op = "consume"
      <4>1. CompletionAtHand(q)
        BY <1>1, <1>2, <3>3 DEF JobAtHand
      <4>2. CompletionAtHand(p)
        BY <1>1, <1>2, <3>1, <3>2, <3>3, <4>1, PartConsumed
      <4> QED
        BY <3>1, <3>3, <4>2 DEF JobAtHand
    <3> QED
      BY <3>1, <3>3 DEF JobAtHand
  <2>3. CASE WriteReserved(r)
    <3>1. PICK row, delta : req' = [req EXCEPT ![r] = Wrote(req[r], row, delta)]
      BY <2>3 DEF WriteReserved, Write
    <3>2. p = Wrote(q, row, delta)
      BY <1>1, <1>2, <3>1
    <3>3. p.op = "reserve"
      BY <1>1, <1>2, <2>3, <3>2, WroteKept DEF WriteReserved, At
    <3> QED
      BY <3>3 DEF JobAtHand
  <2>4. CASE WriteConsumed(r)
    <3>1. PICK delta : delta = Head(q.todo).delta
      OBVIOUS
    <3>2. q.op = "consume" /\ q.step = "write" /\ q.todo # <<>> /\ delta \in Int
      BY <1>1, <1>2, <2>4, <3>1, NextChange DEF WriteConsumed, At, ItemOps
    <3>3. PICK row, taken : taken = -(-delta) /\ Write(r, row, taken)
      BY <1>2, <2>4, <3>1 DEF WriteConsumed
    <3>4. p = Wrote(q, row, delta)
      BY <1>1, <1>2, <3>2, <3>3 DEF Write
    <3>5. /\ p.op = q.op /\ p.step = "read" /\ p.todo = Tail(q.todo)
          /\ p.job = q.job /\ p.missed = q.missed
      BY <1>1, <1>2, <3>4, WroteKept
    <3>6. p.used = q.used - delta
      BY <1>1, <1>2, <3>2, <3>4, WroteCounts
    <3>7. CompletionAtHand(q)
      BY <1>1, <1>2, <3>2 DEF JobAtHand
    <3>8. CompletionAtHand(p)
      BY <1>1, <1>2, <3>1, <3>2, <3>5, <3>6, <3>7, PartConsumed
    <3> QED
      BY <3>2, <3>5, <3>8 DEF JobAtHand
  <2>5. CASE WriteOnHand(r)
    <3>1. PICK delta : delta = Head(q.todo).delta
      OBVIOUS
    <3>2. /\ q.op \in {"adjust", "transfer", "receive", "resolve"}
          /\ q.step = "write"
      BY <1>2, <2>5 DEF WriteOnHand
    <3>3. PICK row : Write(r, row, delta)
      BY <1>2, <2>5, <3>1 DEF WriteOnHand
    <3>4. p = Wrote(q, row, delta)
      BY <1>1, <1>2, <3>3 DEF Write
    <3>5. /\ p.op = q.op /\ p.todo = Tail(q.todo) /\ p.job = q.job /\ p.exc = q.exc
      BY <1>1, <1>2, <3>4, WroteKept
    <3>6. CASE q.op = "resolve"
      <4>1. p.used = q.used - delta
        BY <1>1, <1>2, <3>4, <3>6, WroteCounts
      <4>2. q.todo \in Seq(Changes) /\ q.todo # <<>> /\ q.used \in Nat
        BY <1>1, <1>2, <3>2, <3>6 DEF RequestStates, WellFormed, ItemOps
      <4>3. PICK exc : exc = exceptions[q.job][q.exc]
        OBVIOUS
      <4>4. exc.qty \in Nat
        <5>1. q.exc \in DOMAIN exceptions[q.job] /\ q.job \in Jobs
          BY <1>1, <1>2, <3>6, SlotType DEF ExceptionAtHand, WellFormed, JobOps
        <5>2. exceptions[q.job] \in Seq(ExceptionRows)
          BY <5>1 DEF TypeInv, TypeOK
        <5>3. exc \in ExceptionRows
          BY <4>3, <5>1, <5>2, ElementsOf
        <5> QED
          BY <5>3 DEF ExceptionRows
      <4>5. InboxAtHand(q)
        BY <1>1, <1>2, <3>6 DEF JobAtHand
      <4>6. q.used = 0 /\ Len(q.todo) = 1 /\ q.todo[1].delta = -exc.qty
        BY <3>6, <4>2, <4>3, <4>5 DEF InboxAtHand
      <4>7. delta = -exc.qty /\ Tail(q.todo) = <<>>
        <5>1. PICK todo \in Seq(Changes) : todo = q.todo
          BY <4>2
        <5>2. PICK rest \in Seq(Changes) : rest = Tail(todo) /\ Len(rest) = 0
          <6>1. todo # <<>> /\ Len(todo) = 1
            BY <4>2, <4>6, <5>1
          <6>2. Tail(todo) \in Seq(Changes) /\ Len(Tail(todo)) = 0
            BY <5>1, <6>1
          <6> QED
            BY <6>2
        <5>3. Head(todo) = todo[1] /\ rest = <<>>
          BY <4>2, <5>1, <5>2
        <5> QED
          BY <3>1, <4>6, <5>1, <5>2, <5>3
      <4>8. p.used = exc.qty /\ p.todo = <<>>
        BY <3>5, <4>1, <4>4, <4>6, <4>7
      <4>9. InboxAtHand(p)
        BY <3>5, <4>3, <4>5, <4>8 DEF InboxAtHand
      <4> QED
        BY <3>5, <3>6, <4>9 DEF JobAtHand
    <3> QED
      BY <3>2, <3>5, <3>6 DEF JobAtHand
  <2> QED
    BY <2>1, <2>2, <2>3, <2>4, <2>5 DEF Move
<1>5. JobAtHand(req[r])'
  BY <1>2, <1>3, <1>4 DEF JobAtHand, CompletionAtHand, ConsumedTo, InboxAtHand
<1> QED
  BY <1>3, <1>5, QuietJobs

(* A handler that has just read its job or exception finds it so. *)
LEMMA JobRead ==
  ASSUME TypeInv, PartsInv, NEW r \in Requests,
         CompleteRead(r) \/ CompleteLock(r) \/ IgnoreRead(r) \/ ResolveRead(r)
  PROVE  JobAtHand(req[r])'
<1>1. /\ req \in [Requests -> RequestStates] /\ req[r] \in RequestStates
      /\ WellFormed(req[r]) /\ JobAtHand(req[r])
  BY SlotType DEF TypeInv, TypeOK, PartsInv
<1>2. jobs' = jobs /\ exceptions' = exceptions
  BY DEF CompleteRead, CompleteLock, IgnoreRead, ResolveRead
<1>3. PICK p : p = req'[r]
  OBVIOUS
<1>4. ASSUME NEW j \in Jobs, NEW n \in Pending(j)
      PROVE  jobs[j].completed /\ exceptions[j][n].status = "pending"
  <2>1. exceptions[j][n].status = "pending" /\ exceptions[j] # <<>>
    BY DEF Pending
  <2>2. jobs[j].completed
    BY <2>1 DEF PartsInv, JobTrue
  <2> QED
    BY <2>1, <2>2
<1>5. CASE CompleteRead(r)
  <2>1. PICK j \in Jobs : /\ ~jobs[j].completed
          /\ req' = [req EXCEPT ![r] = [Begin(r, "consume", "lock") EXCEPT !.job = j]]
    BY <1>5 DEF CompleteRead
  <2>2. /\ p.op = "consume" /\ p.step = "lock" /\ p.job = j /\ p.used = 0
        /\ p.missed = <<>>
    BY <1>1, <1>3, <2>1 DEF Begin, Idle
  <2>3. CompletionAtHand(p)'
    BY <1>2, <2>1, <2>2 DEF CompletionAtHand
  <2> QED
    BY <1>3, <2>2, <2>3 DEF JobAtHand, CompletionAtHand, ConsumedTo
<1>6. CASE CompleteLock(r)
  <2>1. PICK q : q = req[r]
    OBVIOUS
  <2>2. q.op = "consume" /\ q.step = "lock" /\ CompletionAtHand(q)
    BY <1>1, <1>6, <2>1 DEF CompleteLock, At, JobAtHand
  <2>3. PICK j \in Jobs : j = q.job
    BY <1>1, <2>1, <2>2 DEF WellFormed, JobOps
  <2>4. ~jobs[j].completed /\ ~jobs[j].consumed
    BY <2>2, <2>3 DEF PartsInv, JobTrue, CompletionAtHand
  <2>5. /\ p.op = "consume" /\ p.step = "read" /\ p.job = j
        /\ p.used = q.used /\ p.missed = q.missed /\ p.todo = PartChanges(j, -1)
    BY <1>1, <1>3, <1>6, <2>1, <2>2, <2>3, <2>4 DEF CompleteLock, RequestStates
  <2>6. p.used = 0 /\ p.missed = <<>> /\ p.todo = Rest(j, 0, -1)
    BY <2>2, <2>5, RestAll DEF CompletionAtHand
  <2>7. p.used + Unresolved(p.missed) = Asked(j, 0)
    <3>1. <<>> \in Seq(ExceptionRows)
      OBVIOUS
    <3>2. Unresolved(<<>>) = 0 /\ Asked(j, 0) = 0
      BY <3>1, UnresolvedSums, AskedSums
    <3> QED
      BY <2>6, <3>2
  <2>8. 0 \in 0..Len(Parts[j])
    BY PartFacts
  <2>9. CompletionAtHand(p)'
    BY <1>2, <2>4, <2>5, <2>6, <2>7, <2>8 DEF CompletionAtHand, ConsumedTo
  <2> QED
    BY <1>3, <2>5, <2>9 DEF JobAtHand, CompletionAtHand, ConsumedTo
<1>7. CASE IgnoreRead(r)
  <2>0. PICK j \in Jobs : \E n \in Pending(j) :
          req' = [req EXCEPT ![r] = [Begin(r, "ignore", "write") EXCEPT
                                       !.job = j, !.exc = n]]
    BY <1>7 DEF IgnoreRead
  <2>1. PICK n \in Pending(j) :
          req' = [req EXCEPT ![r] = [Begin(r, "ignore", "write") EXCEPT
                                       !.job = j, !.exc = n]]
    BY <2>0
  <2>2. p.op = "ignore" /\ p.job = j /\ p.exc = n
    BY <1>1, <1>3, <2>1 DEF Begin, Idle
  <2>3. InboxAtHand(p)'
    BY <1>2, <1>4, <2>2 DEF InboxAtHand
  <2> QED
    BY <1>3, <2>2, <2>3 DEF JobAtHand, InboxAtHand
<1>8. CASE ResolveRead(r)
  <2> DEFINE base(j, n, i) ==
               [Begin(r, "resolve", "read") EXCEPT
                  !.job = j, !.exc = n,
                  !.todo = <<Change(i, -exceptions[j][n].qty)>>]
             Opened(j, n) == /\ p.op = "resolve" /\ p.job = j /\ p.exc = n /\ p.used = 0
                             /\ Len(p.todo) = 1
                             /\ p.todo[1].delta = -exceptions[j][n].qty
  <2>1. \E j \in Jobs, s \in Skus : \E n \in Pending(j) :
          \/ req' = [req EXCEPT ![r] = base(j, n, <<JobBranch[j], s>>)]
          \/ req' = [req EXCEPT ![r] = [base(j, n, <<JobBranch[j], s>>) EXCEPT
                                          !.rows[<<JobBranch[j], s>>] = NewItem(0)]]
    BY <1>8 DEF ResolveRead
  <2>2. ASSUME NEW j, NEW n, NEW i,
               \/ req' = [req EXCEPT ![r] = base(j, n, i)]
               \/ req' = [req EXCEPT ![r] = [base(j, n, i) EXCEPT !.rows[i] = NewItem(0)]]
        PROVE  Opened(j, n)
    <3>1. PICK b, full : b = base(j, n, i) /\ full = [b EXCEPT !.rows[i] = NewItem(0)]
      OBVIOUS
    <3>2. /\ b.op = "resolve" /\ b.job = j /\ b.exc = n /\ b.used = 0
          /\ b.todo = <<Change(i, -exceptions[j][n].qty)>>
      BY <3>1 DEF Begin, Idle
    <3>3. /\ full.op = "resolve" /\ full.job = j /\ full.exc = n /\ full.used = 0
          /\ full.todo = <<Change(i, -exceptions[j][n].qty)>>
      BY <3>1 DEF Begin, Idle
    <3>4. p = b \/ p = full
      <4> HIDE DEF base
      <4> QED
        BY <1>1, <1>3, <2>2, <3>1
    <3>5. /\ p.op = "resolve" /\ p.job = j /\ p.exc = n /\ p.used = 0
          /\ p.todo = <<Change(i, -exceptions[j][n].qty)>>
      BY <3>2, <3>3, <3>4
    <3> QED
      BY <3>5 DEF Change
  <2> HIDE DEF base, Opened
  <2>3. PICK j \in Jobs : \E n \in Pending(j) : Opened(j, n)
    BY <2>1, <2>2
  <2>4. PICK n \in Pending(j) : Opened(j, n)
    BY <2>3
  <2>5. InboxAtHand(p)'
    BY <1>2, <1>4, <2>4 DEF InboxAtHand, Opened
  <2>6. p.op = "resolve"
    BY <2>4 DEF Opened
  <2> QED
    BY <1>3, <2>5, <2>6 DEF JobAtHand, InboxAtHand
<1> QED
  BY <1>5, <1>6, <1>7, <1>8

LEMMA CompletionStored ==
  ASSUME TypeInv, PartsInv, NEW r \in Requests, NEW j \in Jobs, j = req[r].job,
         CompleteCommit(r)
  PROVE  \A x \in Jobs : JobTrue(x)'
<1>1. /\ jobs \in [Jobs -> JobRows] /\ used \in [Jobs -> Nat]
      /\ exceptions \in [Jobs -> Seq(ExceptionRows)] /\ req[r] \in RequestStates
  BY DEF TypeInv, TypeOK
<1>2. PICK q : q = req[r]
  OBVIOUS
<1>3. q.op = "consume" /\ q.step = "read" /\ q.todo = <<>> /\ JobTrue(j)
  BY <1>2 DEF CompleteCommit, Written, At, PartsInv
<1>4. CompletionAtHand(q)
  BY <1>2, <1>3 DEF PartsInv, JobAtHand
<1>5. used[j] = 0 /\ exceptions[j] = <<>>
  BY <1>2, <1>3, <1>4 DEF JobTrue, CompletionAtHand
<1>6. PICK k \in 0..Len(Parts[j]) : ConsumedTo(q, k)
  BY <1>2, <1>3, <1>4 DEF CompletionAtHand
<1>7. q.used + Unresolved(q.missed) = Asked(j, Len(Parts[j]))
  <2>1. Rest(j, k, -1) = <<>> /\ q.used + Unresolved(q.missed) = Asked(j, k)
    BY <1>2, <1>3, <1>6 DEF ConsumedTo
  <2> QED
    BY <2>1, RestDone
<1>8. /\ jobs'[j].completed /\ used'[j] = 0 + q.used
      /\ exceptions'[j] = <<>> \o q.missed
  BY <1>1, <1>2, <1>5 DEF CompleteCommit, JobRows
<1>9. q.used \in Nat /\ q.missed \in Seq(ExceptionRows)
  BY <1>1, <1>2 DEF RequestStates
<1>10. used'[j] = q.used /\ exceptions'[j] = q.missed
  BY <1>8, <1>9
<1>11. JobTrue(j)'
  BY <1>7, <1>8, <1>10 DEF JobTrue
<1>12. \A x \in Jobs \ {j} :
         jobs'[x] = jobs[x] /\ used'[x] = used[x] /\ exceptions'[x] = exceptions[x]
  BY <1>1 DEF CompleteCommit
<1>13. \A x \in Jobs \ {j} : JobTrue(x)'
  BY <1>12 DEF PartsInv, JobTrue
<1> QED
  BY <1>11, <1>13

LEMMA ExceptionStored ==
  ASSUME TypeInv, PartsInv, NEW r \in Requests, NEW j \in Jobs, j = req[r].job,
         ResolveCommit(r) \/ IgnoreWrite(r)
  PROVE  \A x \in Jobs : JobTrue(x)'
<1>1. /\ jobs \in [Jobs -> JobRows] /\ used \in [Jobs -> Nat]
      /\ exceptions \in [Jobs -> Seq(ExceptionRows)] /\ req[r] \in RequestStates
  BY DEF TypeInv, TypeOK
<1>2. PICK q, n, list : q = req[r] /\ n = q.exc /\ list = exceptions[j]
  OBVIOUS
<1>3. q.op \in {"resolve", "ignore"} /\ JobTrue(j)
  BY <1>2 DEF ResolveCommit, IgnoreWrite, Written, At, PartsInv
<1>4. InboxAtHand(q) /\ n \in DOMAIN list
  BY <1>2, <1>3, SlotType DEF PartsInv, JobAtHand, ExceptionAtHand
<1>5. jobs[j].completed /\ list[n].status = "pending"
  BY <1>2, <1>4 DEF InboxAtHand
<1>6. used[j] + Unresolved(list) = Asked(j, Len(Parts[j])) /\ used[j] \in Nat
  BY <1>1, <1>2, <1>3, <1>5 DEF JobTrue
<1>7. list \in Seq(ExceptionRows) /\ list[n].qty \in Nat
  <2>1. list \in Seq(ExceptionRows)
    BY <1>1, <1>2
  <2>2. list[n] \in ExceptionRows
    BY <1>4, <2>1, ElementsOf
  <2> QED
    BY <2>1, <2>2 DEF ExceptionRows
<1>8. /\ Unresolved(list) \in Nat
      /\ Unresolved([list EXCEPT ![n].status = "ignored"]) = Unresolved(list)
      /\ Unresolved([list EXCEPT ![n].status = "resolved"])
           = Unresolved(list) - list[n].qty
  BY <1>4, <1>5, <1>7, UnresolvedSums
<1>9. CASE ResolveCommit(r)
  <2>1. q.op = "resolve" /\ q.todo = <<>>
    BY <1>2, <1>9 DEF ResolveCommit, Written, At
  <2>2. q.used = list[n].qty
    <3>1. Len(q.todo) # 1
      BY <2>1
    <3> QED
      BY <1>2, <1>4, <2>1, <3>1 DEF InboxAtHand
  <2>3. /\ jobs'[j].completed /\ used'[j] = used[j] + q.used
        /\ exceptions'[j] = [list EXCEPT ![n].status = "resolved"]
    BY <1>1, <1>2, <1>5, <1>9 DEF ResolveCommit, JobRows
  <2>4. used'[j] + Unresolved(exceptions'[j]) = Asked(j, Len(Parts[j]))
    <3>1. PICK u : u = Unresolved(exceptions'[j]) /\ u = Unresolved(list) - list[n].qty
      BY <1>8, <2>3
    <3> QED
      BY <1>6, <1>7, <1>8, <2>2, <2>3, <3>1
  <2>5. JobTrue(j)'
    BY <2>3, <2>4 DEF JobTrue
  <2>6. \A x \in Jobs \ {j} :
          jobs'[x] = jobs[x] /\ used'[x] = used[x] /\ exceptions'[x] = exceptions[x]
    BY <1>1, <1>9 DEF ResolveCommit
  <2> QED
    BY <2>5, <2>6 DEF PartsInv, JobTrue
<1>10. CASE IgnoreWrite(r)
  <2>1. /\ jobs' = jobs /\ used' = used
        /\ exceptions'[j] = [list EXCEPT ![n].status = "ignored"]
    BY <1>1, <1>2, <1>10 DEF IgnoreWrite, ledger
  <2>2. JobTrue(j)'
    BY <1>5, <1>6, <1>8, <2>1 DEF JobTrue
  <2>3. \A x \in Jobs \ {j} : exceptions'[x] = exceptions[x]
    BY <1>1, <1>10 DEF IgnoreWrite
  <2> QED
    BY <2>1, <2>2, <2>3 DEF PartsInv, JobTrue
<1> QED
  BY <1>9, <1>10

LEMMA NextParts ==
  OneSlot /\ TypeInv /\ PartsInv /\ [Next]_vars => PartsInv'
<1> SUFFICES ASSUME OneSlot, TypeInv, PartsInv, [Next]_vars PROVE PartsInv'
  OBVIOUS
<1>1. CASE \/ UNCHANGED vars \/ \E o \in Orders : CreateOrder(o)
           \/ \E i \in Items : CreateItem(i) \/ EditItem(i)
  <2>1. UNCHANGED <<jobs, used, exceptions, req>>
    BY <1>1 DEF vars, CreateOrder, CreateItem, EditItem, ledger
  <2>2. \A j \in Jobs : JobTrue(j)'
    BY <2>1 DEF PartsInv, JobTrue
  <2>3. \A r \in Requests : JobAtHand(req[r])'
    BY <2>1 DEF PartsInv, JobAtHand, CompletionAtHand, ConsumedTo, InboxAtHand
  <2> QED
    BY <2>2, <2>3 DEF PartsInv
<1>2. ASSUME NEW r \in Requests, Stock(r) \/ Purchase(r) \/ Abort(r)
      PROVE  PartsInv'
  <2>1. UNCHANGED <<jobs, used, exceptions>>
    BY <1>2 DEF Stock, AdjustRead, AdjustCommit, TransferRead, TransferCommit,
       Purchase, EditLinesRead, EditLinesWrite, SubmitRead, SubmitWrite,
       SyncRead, Push, Stamp, CancelRead, CancelWrite, ReceiveRead,
       ReceiveCommit, ReceiveRefused, ReadOrder, ReceiveEnd, Abort, ledger
  <2>2. req'[r].op \notin {"consume", "resolve", "ignore"}
    BY <1>2, StockOps, PurchaseOps, Ends DEF Idle
  <2>3. JobAtHand(req[r])'
    BY <2>2 DEF JobAtHand
  <2> QED
    BY <2>1, <2>3, QuietJobs
<1>3. ASSUME NEW r \in Requests, Work(r)
      PROVE  PartsInv'
  <2>1. CASE CompleteRead(r) \/ CompleteLock(r) \/ IgnoreRead(r) \/ ResolveRead(r)
    <3>1. UNCHANGED <<jobs, used, exceptions>>
      BY <2>1 DEF CompleteRead, CompleteLock, IgnoreRead, ResolveRead, ledger
    <3> QED
      BY <2>1, <3>1, JobRead, QuietJobs
  <2>2. CASE AcceptRead(r) \/ AcceptLock(r)
    <3>1. UNCHANGED <<jobs, used, exceptions>>
      BY <2>2 DEF AcceptRead, AcceptLock, ledger
    <3>2. req'[r].op = "reserve"
      <4>1. CASE AcceptRead(r)
        BY <4>1, Starts DEF Fresh
      <4>2. CASE AcceptLock(r)
        BY <4>2 DEF AcceptLock, At, TypeInv, TypeOK, RequestStates
      <4> QED
        BY <2>2, <4>1, <4>2
    <3>3. JobAtHand(req[r])'
      BY <3>2 DEF JobAtHand
    <3> QED
      BY <3>1, <3>3, QuietJobs
  <2>3. CASE AcceptCommit(r)
    <3>1. UNCHANGED <<used, exceptions>>
      BY <2>3 DEF AcceptCommit
    <3>2. \A j \in Jobs : /\ jobs'[j].completed = jobs[j].completed
                          /\ jobs'[j].consumed = jobs[j].consumed
      BY <2>3 DEF AcceptCommit, TypeInv, TypeOK, JobRows
    <3>3. \A j \in Jobs : JobTrue(j)'
      BY <3>1, <3>2 DEF PartsInv, JobTrue
    <3>4. JobAtHand(req[r])'
      BY <2>3, Ends DEF Idle, JobAtHand
    <3> QED
      BY <3>3, <3>4, JobStep
  <2>4. CASE CompleteCommit(r) \/ ResolveCommit(r) \/ IgnoreWrite(r)
    <3>1. PICK j \in Jobs : j = req[r].job
      BY <2>4, SlotType DEF CompleteCommit, ResolveCommit, IgnoreWrite, Written,
         At, WellFormed, JobOps
    <3>2. \A x \in Jobs : JobTrue(x)'
      BY <2>4, <3>1, CompletionStored, ExceptionStored
    <3>3. JobAtHand(req[r])'
      BY <2>4, Ends DEF Idle, JobAtHand
    <3> QED
      BY <3>2, <3>3, JobStep
  <2> QED
    BY <1>3, <2>1, <2>2, <2>3, <2>4 DEF Work
<1> QED
  BY <1>1, <1>2, <1>3, MoveJobs DEF Next

(* The parts of a completed job are each consumed or in the inbox, once:    *)
(* over completions rolled back and repeated, and over the resolution of    *)
(* what was missing then, when handlers take turns.                         *)
THEOREM PartsAlwaysAccounted == OneSlot => (Spec => []PartsAccounted)
<1> SUFFICES ASSUME OneSlot PROVE Spec => []PartsAccounted
  OBVIOUS
<1>1. Init => PartsInv
  BY DEF Init, PartsInv, JobTrue, JobAtHand, NoJob, Idle
<1>2. PartsInv => PartsAccounted
  BY DEF PartsInv, JobTrue, PartsAccounted
<1>3. TypeInv /\ PartsInv /\ [Next]_vars => PartsInv'
  BY NextParts
<1> QED
  BY <1>1, <1>2, <1>3, InitTypeInv, NextTypeInv, PTL DEF Spec

-----------------------------------------------------------------------------
(* ReservedOnce, however handlers interleave.  Held(S, i) is what the jobs  *)
(* of S ask of an item, Own(j, k, i) what the first k parts of one do.      *)

Held(S, i) == AskedBy(S, i[1], i[2])

Own(j, k, i) == IF i[1] = JobBranch[j] THEN AskedOf(j, i[2], k) ELSE 0

ReservedJobs == {j \in Jobs : jobs[j].reserved}

(* An acceptance that is past the lock: no other of the same quote is.      *)
Reserving(q) == q.op = "reserve" /\ q.step # "lock"

(* The first k parts are done. *)
ReservedTo(q, k, S) ==
  /\ q.todo = Rest(q.job, k, 1)
  /\ \A i \in Items : q.rows[i] # None =>
       q.rows[i].reserved <= Held(S, i) + Own(q.job, k, i)
  /\ q.step = "write" =>
       q.seen.reserved
         <= Held(S, Head(q.todo).item) + Own(q.job, k, Head(q.todo).item)

AcceptanceAtHand(q, S) ==
  /\ q.step = "lock" => ~q.held
  /\ ~q.held => \A i \in Items : q.rows[i] = None
  /\ q.step # "lock" =>
       \/ q.todo = <<>> /\ ~q.held
       \/ q.job \notin S /\ \E k \in 0..Len(Parts[q.job]) : ReservedTo(q, k, S)

ReservationAtHand(q, S) ==
  /\ q.op = "reserve" => AcceptanceAtHand(q, S)
  /\ q.op # "reserve" =>
       \A i \in Items : q.rows[i] # None => q.rows[i].reserved <= Held(S, i)
  /\ q.op = "consume" /\ q.step = "write" =>
       q.seen.reserved <= Held(S, Head(q.todo).item)

ReservedInv ==
  /\ \A j \in Jobs : jobs[j].reserved => jobs[j].accepted
  /\ \A i \in Items : stock[i].reserved <= Held(ReservedJobs, i)
  /\ \A r \in Requests : ReservationAtHand(req[r], ReservedJobs)
  /\ \A a, b \in Requests :
       Reserving(req[a]) /\ Reserving(req[b]) /\ req[a].job = req[b].job => a = b

LEMMA HeldSums ==
  ASSUME NEW T, T \subseteq Jobs, NEW S, S \subseteq T, NEW i \in Items
  PROVE  /\ Held(S, i) \in Nat /\ Held(S, i) <= Held(T, i) /\ Held(T, i) \in Nat
         /\ \A j \in Jobs \ S :
              Held(S \cup {j}, i) = Held(S, i) + Own(j, Len(Parts[j]), i)
<1> DEFINE f == [j \in Jobs |-> AskedOf(j, i[2], Len(Parts[j]))]
           There(s) == {j \in s : JobBranch[j] = i[1]}
<1>1. IsFiniteSet(Jobs)
  BY ConstantsAssumption DEF ConstantsAssumption
<1>2. \A s : s \subseteq Jobs => There(s) \subseteq Jobs /\ IsFiniteSet(There(s))
  <2>1. \A s : s \subseteq Jobs => There(s) \subseteq Jobs
    OBVIOUS
  <2> QED
    BY <1>1, <2>1, FS_Subset
<1>3. \A j \in Jobs : f[j] = AskedOf(j, i[2], Len(Parts[j])) /\ f[j] \in Nat
  <2>1. ASSUME NEW j \in Jobs PROVE AskedOf(j, i[2], Len(Parts[j])) \in Nat
    <3>1. Len(Parts[j]) \in 0..Len(Parts[j])
      BY PartFacts
    <3> QED
      BY <3>1, AskedOfSums
  <2> QED
    BY <2>1
<1>4. \A s : Held(s, i) = SumFunctionOnSet(f, There(s))
  BY DEF Held, AskedBy
<1>5. There(S) \subseteq There(T)
  OBVIOUS
<1>6. ASSUME NEW j \in Jobs, j \notin S
      PROVE  /\ j \notin There(S)
             /\ There(S \cup {j}) = IF JobBranch[j] = i[1] THEN There(S) \cup {j} ELSE There(S)
  BY <1>6
<1> HIDE DEF f, There
<1>7. Held(S, i) \in Nat /\ Held(T, i) \in Nat
  BY <1>2, <1>3, <1>4, SumType
<1>8. Held(S, i) <= Held(T, i)
  <2>1. SumFunctionOnSet(f, There(S)) <= SumFunctionOnSet(f, There(T))
    BY <1>2, <1>3, <1>5, SumSubset
  <2> QED
    BY <1>4, <2>1
<1>9. ASSUME NEW j \in Jobs \ S
      PROVE  Held(S \cup {j}, i) = Held(S, i) + Own(j, Len(Parts[j]), i)
  <2>1. CASE JobBranch[j] = i[1]
    <3>1. IsFiniteSet(There(S)) /\ There(S) \subseteq Jobs /\ j \notin There(S)
      BY <1>2, <1>6
    <3>2. \A x \in There(S) \cup {j} : f[x] \in Int
      BY <1>3, <3>1
    <3>3. SumFunctionOnSet(f, There(S) \cup {j}) = SumFunctionOnSet(f, There(S)) + f[j]
      BY <3>1, <3>2, SumAdd
    <3>4. Held(S \cup {j}, i) = Held(S, i) + f[j]
      BY <1>4, <1>6, <2>1, <3>3
    <3> QED
      BY <1>3, <2>1, <3>4 DEF Own
  <2>2. CASE JobBranch[j] # i[1]
    <3>1. Held(S \cup {j}, i) = Held(S, i)
      BY <1>4, <1>6, <2>2
    <3> QED
      BY <1>7, <2>2, <3>1 DEF Own
  <2> QED
    BY <2>1, <2>2
<1> QED
  BY <1>7, <1>8, <1>9

LEMMA OwnGrows ==
  ASSUME NEW j \in Jobs, NEW k \in 0..Len(Parts[j]), NEW i \in Items
  PROVE  /\ Own(j, k, i) \in Nat
         /\ k + 1 \in 0..Len(Parts[j]) =>
              /\ Own(j, k + 1, i) \in Nat /\ Own(j, k, i) <= Own(j, k + 1, i)
              /\ i = <<JobBranch[j], Parts[j][k + 1].sku>> =>
                   Own(j, k + 1, i) = Own(j, k, i) + Parts[j][k + 1].qty
<1>1. Own(j, k, i) \in Nat
  BY AskedOfSums DEF Own
<1>2. ASSUME k + 1 \in 0..Len(Parts[j])
      PROVE  /\ Own(j, k + 1, i) \in Nat /\ Own(j, k, i) <= Own(j, k + 1, i)
             /\ i = <<JobBranch[j], Parts[j][k + 1].sku>> =>
                  Own(j, k + 1, i) = Own(j, k, i) + Parts[j][k + 1].qty
  <2>1. PICK n : n = k + 1 /\ n \in 0..Len(Parts[j]) /\ n \in 1..Len(Parts[j])
    BY <1>2, PartFacts
  <2>2. PICK qty \in Nat : qty = Parts[j][n].qty
    BY <2>1, PartFacts
  <2>3. PICK a, b : a = AskedOf(j, i[2], k) /\ b = AskedOf(j, i[2], n)
    OBVIOUS
  <2>4. a \in Nat /\ b \in Nat /\ b = a + (IF Parts[j][n].sku = i[2] THEN qty ELSE 0)
    BY <1>2, <2>1, <2>2, <2>3, AskedOfSums
  <2>5. /\ Own(j, k, i) = IF i[1] = JobBranch[j] THEN a ELSE 0
        /\ Own(j, n, i) = IF i[1] = JobBranch[j] THEN b ELSE 0
    BY <2>3 DEF Own
  <2> QED
    BY <2>1, <2>2, <2>4, <2>5
<1> QED
  BY <1>1, <1>2

(* What is at hand stays so when other quotes are reserved. *)
LEMMA ReservationGrows ==
  ASSUME NEW T, T \subseteq Jobs, NEW S, S \subseteq T,
         NEW q \in RequestStates, WellFormed(q), ReservationAtHand(q, S),
         Reserving(q) => q.job \notin T \ S
  PROVE  ReservationAtHand(q, T)
<1>1. \A i \in Items : Held(S, i) \in Nat /\ Held(T, i) \in Nat /\ Held(S, i) <= Held(T, i)
  BY HeldSums
<1>2. /\ q.seen.reserved \in Nat
      /\ \A i \in Items : q.rows[i] # None => q.rows[i].reserved \in Nat
  BY DEF RequestStates, StockRows
<1>3. q.op \in {"reserve", "consume"} /\ q.step = "write" => Head(q.todo).item \in Items
  BY NextChange DEF ItemOps
<1>4. CASE q.op = "reserve"
  <2>1. AcceptanceAtHand(q, S)
    BY <1>4 DEF ReservationAtHand
  <2>2. ASSUME NEW k \in 0..Len(Parts[q.job]), ReservedTo(q, k, S)
        PROVE  ReservedTo(q, k, T)
    <3>1. \A i \in Items : Own(q.job, k, i) \in Nat
      BY <1>4, OwnGrows DEF WellFormed, JobOps
    <3>2. \A i \in Items : q.rows[i] # None =>
            q.rows[i].reserved <= Held(T, i) + Own(q.job, k, i)
      BY <1>1, <1>2, <2>2, <3>1 DEF ReservedTo
    <3>3. q.step = "write" =>
            q.seen.reserved
              <= Held(T, Head(q.todo).item) + Own(q.job, k, Head(q.todo).item)
      BY <1>1, <1>2, <1>3, <1>4, <2>2, <3>1 DEF ReservedTo
    <3> QED
      BY <2>2, <3>2, <3>3 DEF ReservedTo
  <2>3. AcceptanceAtHand(q, T)
    BY <1>4, <2>1, <2>2 DEF AcceptanceAtHand, Reserving
  <2> QED
    BY <1>4, <2>3 DEF ReservationAtHand
<1>5. CASE q.op # "reserve"
  <2>1. \A i \in Items : q.rows[i] # None => q.rows[i].reserved <= Held(T, i)
    BY <1>1, <1>2, <1>5 DEF ReservationAtHand
  <2>2. q.op = "consume" /\ q.step = "write" =>
          q.seen.reserved <= Held(T, Head(q.todo).item)
    BY <1>1, <1>2, <1>3 DEF ReservationAtHand
  <2> QED
    BY <1>5, <2>1, <2>2 DEF ReservationAtHand
<1> QED
  BY <1>4, <1>5

(* The row a handler sees: stock, or what it wrote. *)
LEMMA RowHeld ==
  ASSUME TypeInv, ReservedInv, NEW r \in Requests, NEW i \in Items,
         NEW S, S = ReservedJobs
  PROVE  /\ Held(S, i) \in Nat /\ Row(r, i) \in StockRows /\ Row(r, i).reserved \in Nat
         /\ req[r].op # "reserve" => Row(r, i).reserved <= Held(S, i)
         /\ \A k \in 0..Len(Parts[req[r].job]) :
              req[r].op = "reserve" /\ ReservedTo(req[r], k, S) =>
                Row(r, i).reserved <= Held(S, i) + Own(req[r].job, k, i)
<1>1. S \subseteq Jobs
  BY DEF ReservedJobs
<1>2. Held(S, i) \in Nat /\ stock[i].reserved <= Held(S, i)
  BY <1>1, HeldSums DEF ReservedInv
<1>3. Row(r, i) \in StockRows
  BY SlotType
<1>4. Row(r, i).reserved \in Nat
  BY <1>3 DEF StockRows
<1>5. PICK q : q = req[r]
  OBVIOUS
<1>6. ReservationAtHand(q, S) /\ WellFormed(q)
  BY <1>5, SlotType DEF ReservedInv
<1>7. PICK own : own = Row(r, i)
  OBVIOUS
<1>8. (own = q.rows[i] /\ q.rows[i] # None) \/ own = stock[i]
  BY <1>5, <1>7 DEF Row
<1>9. q.op # "reserve" => own.reserved <= Held(S, i)
  BY <1>2, <1>6, <1>8 DEF ReservationAtHand
<1>10. ASSUME NEW k \in 0..Len(Parts[q.job]), q.op = "reserve", ReservedTo(q, k, S)
       PROVE  own.reserved <= Held(S, i) + Own(q.job, k, i)
  <2>1. Own(q.job, k, i) \in Nat
    BY <1>6, <1>10, OwnGrows DEF WellFormed, JobOps
  <2>2. CASE own = stock[i]
    BY <1>2, <1>4, <1>7, <2>1, <2>2
  <2>3. CASE own = q.rows[i] /\ q.rows[i] # None
    BY <1>10, <2>3 DEF ReservedTo
  <2> QED
    BY <1>8, <2>2, <2>3
<1> QED
  BY <1>2, <1>3, <1>4, <1>5, <1>7, <1>9, <1>10

(* A step of one handler. *)
LEMMA ReservedStep ==
  ASSUME TypeInv, ReservedInv, NEW r \in Requests, NEW p,
         req' = [req EXCEPT ![r] = p],
         NEW S, S = ReservedJobs, NEW T, T = ReservedJobs', S \subseteq T,
         \A j \in Jobs : jobs'[j].reserved => jobs'[j].accepted,
         \A i \in Items : stock'[i].reserved <= Held(T, i),
         ReservationAtHand(p, T),
         \A q \in Requests \ {r} : Reserving(req[q]) => req[q].job \notin T \ S,
         Reserving(p) =>
           \A q \in Requests \ {r} : Reserving(req[q]) => req[q].job # p.job
  PROVE  ReservedInv'
<1>1. T \subseteq Jobs /\ req \in [Requests -> RequestStates]
  BY DEF ReservedJobs, TypeInv, TypeOK
<1>2. req'[r] = p /\ \A q \in Requests \ {r} : req'[q] = req[q]
  BY <1>1
<1>3. ASSUME NEW q \in Requests PROVE ReservationAtHand(req'[q], T)
  <2>1. CASE q = r
    BY <1>2, <2>1
  <2>2. CASE q # r
    <3>1. PICK slot : slot = req[q]
      OBVIOUS
    <3>2. slot \in RequestStates /\ WellFormed(slot) /\ ReservationAtHand(slot, S)
      BY <3>1, SlotType DEF ReservedInv
    <3>3. Reserving(slot) => slot.job \notin T \ S
      BY <2>2, <3>1
    <3>4. ReservationAtHand(slot, T)
      BY <1>1, <3>2, <3>3, ReservationGrows
    <3> QED
      BY <1>2, <2>2, <3>1, <3>4
  <2> QED
    BY <2>1, <2>2
<1>4. \A q \in Requests : ReservationAtHand(req[q], ReservedJobs)'
  BY <1>3 DEF ReservationAtHand, AcceptanceAtHand, ReservedTo, Held, Own
<1>5. \A i \in Items : (stock[i].reserved <= Held(ReservedJobs, i))'
  BY DEF Held
<1>6. ASSUME NEW a \in Requests, NEW b \in Requests,
             Reserving(req'[a]), Reserving(req'[b]), req'[a].job = req'[b].job
      PROVE  a = b
  BY <1>2, <1>6 DEF ReservedInv
<1>7. \A a, b \in Requests :
        Reserving(req[a])' /\ Reserving(req[b])' /\ req'[a].job = req'[b].job => a = b
  BY <1>6 DEF Reserving
<1> QED
  BY <1>4, <1>5, <1>7 DEF ReservedInv

(* One that stores nothing and takes no acceptance past its lock. *)
LEMMA QuietReserved ==
  ASSUME TypeInv, ReservedInv, NEW r \in Requests, NEW p,
         req' = [req EXCEPT ![r] = p], UNCHANGED <<stock, jobs>>,
         ReservationAtHand(p, ReservedJobs),
         Reserving(p) => Reserving(req[r]) /\ p.job = req[r].job
  PROVE  ReservedInv'
<1>1. PICK S : S = ReservedJobs /\ S = ReservedJobs'
  BY DEF ReservedJobs
<1>2. /\ \A j \in Jobs : jobs'[j].reserved => jobs'[j].accepted
      /\ \A i \in Items : stock'[i].reserved <= Held(S, i)
      /\ ReservationAtHand(p, S)
  BY <1>1 DEF ReservedInv
<1>3. Reserving(p) =>
        \A q \in Requests \ {r} : Reserving(req[q]) => req[q].job # p.job
  BY DEF ReservedInv
<1> QED
  BY <1>1, <1>2, <1>3, ReservedStep

(* One that ends without having reserved. *)
LEMMA EndedReserved ==
  ASSUME TypeInv, ReservedInv, NEW r \in Requests, req' = [req EXCEPT ![r] = Idle],
         stock' = stock \/ (Store(r) /\ req[r].op # "reserve"),
         \A j \in Jobs : /\ jobs'[j].reserved = jobs[j].reserved
                         /\ jobs'[j].accepted = jobs[j].accepted
  PROVE  ReservedInv'
<1>1. PICK S : S = ReservedJobs /\ S = ReservedJobs'
  BY DEF ReservedJobs
<1>2. \A i \in Items : stock'[i].reserved <= Held(S, i)
  <2>1. CASE stock' = stock
    BY <1>1, <2>1 DEF ReservedInv
  <2>2. CASE Store(r) /\ req[r].op # "reserve"
    <3>1. \A i \in Items : Row(r, i).reserved <= Held(S, i)
      BY <1>1, <2>2, RowHeld
    <3> QED
      BY <2>2, <3>1 DEF Store
  <2> QED
    BY <2>1, <2>2
<1>3. \A j \in Jobs : jobs'[j].reserved => jobs'[j].accepted
  BY DEF ReservedInv
<1>4. ReservationAtHand(Idle, S) /\ ~Reserving(Idle)
  BY DEF ReservationAtHand, Reserving, Idle
<1> QED
  BY <1>1, <1>2, <1>3, <1>4, ReservedStep

(* The next part is reserved, or is not there to be. *)
LEMMA PartReserved ==
  ASSUME NEW S, S \subseteq Jobs, NEW q \in RequestStates, WellFormed(q),
         q.op = "reserve", NEW k \in 0..Len(Parts[q.job]), ReservedTo(q, k, S),
         q.todo # <<>>,
         NEW p, p.job = q.job, p.step = "read", p.todo = Tail(q.todo),
         \/ p.rows = q.rows
         \/ /\ q.step = "write"
            /\ \A i \in Items \ {Head(q.todo).item} : p.rows[i] = q.rows[i]
            /\ p.rows[Head(q.todo).item].reserved = q.seen.reserved + Head(q.todo).delta
  PROVE  k + 1 \in 0..Len(Parts[p.job]) /\ ReservedTo(p, k + 1, S)
<1>1. PICK j \in Jobs : j = q.job
  BY DEF WellFormed, JobOps
<1>2. PICK todo, item, delta :
        todo = q.todo /\ item = Head(q.todo).item /\ delta = Head(q.todo).delta
  OBVIOUS
<1>3. k \in 0..Len(Parts[j]) /\ todo = Rest(j, k, 1) /\ todo # <<>>
  BY <1>1, <1>2 DEF ReservedTo
<1>4. /\ k + 1 \in 0..Len(Parts[j]) /\ Head(todo) = Part(j, k + 1, 1)
      /\ Tail(todo) = Rest(j, k + 1, 1)
  BY <1>3, RestStep
<1>5. PICK n : n = k + 1 /\ n \in 1..Len(Parts[j])
  BY <1>4, PartFacts
<1>6. PICK qty \in Nat : qty = Parts[j][n].qty
  BY <1>5, PartFacts
<1>7. item = <<JobBranch[j], Parts[j][n].sku>> /\ delta = qty /\ item \in Items
  <2>1. /\ Part(j, n, 1).item = <<JobBranch[j], Parts[j][n].sku>>
        /\ Part(j, n, 1).delta = 1 * Parts[j][n].qty
    BY PartOf
  <2>2. item = <<JobBranch[j], Parts[j][n].sku>> /\ delta = 1 * qty
    BY <1>2, <1>4, <1>5, <1>6, <2>1
  <2>3. item \in Items
    BY <1>5, <2>2, PartFacts DEF Items
  <2> QED
    BY <2>2, <2>3
<1>8. \A i \in Items :
        /\ Held(S, i) \in Nat /\ Own(j, k, i) \in Nat /\ Own(j, n, i) \in Nat
        /\ Own(j, k, i) <= Own(j, n, i)
        /\ i = item => Own(j, n, i) = Own(j, k, i) + qty
  BY <1>3, <1>4, <1>5, <1>6, <1>7, HeldSums, OwnGrows
<1>9. ASSUME NEW i \in Items, p.rows[i] # None
      PROVE  p.rows[i].reserved <= Held(S, i) + Own(j, n, i)
  <2>1. CASE p.rows[i] = q.rows[i]
    <3>1. q.rows[i].reserved <= Held(S, i) + Own(j, k, i)
      BY <1>1, <1>9, <2>1 DEF ReservedTo
    <3>2. q.rows[i].reserved \in Nat
      BY <1>9, <2>1 DEF RequestStates, StockRows
    <3> QED
      BY <1>8, <2>1, <3>1, <3>2
  <2>2. CASE p.rows[i] # q.rows[i]
    <3>1. /\ i = item /\ q.step = "write"
          /\ p.rows[i].reserved = q.seen.reserved + delta
      BY <1>2, <2>2
    <3>2. q.seen.reserved <= Held(S, i) + Own(j, k, i)
      BY <1>1, <1>2, <3>1 DEF ReservedTo
    <3>3. q.seen.reserved \in Nat
      BY DEF RequestStates, StockRows
    <3> QED
      BY <1>7, <1>8, <3>1, <3>2, <3>3
  <2> QED
    BY <2>1, <2>2
<1>10. p.todo = Rest(j, n, 1) /\ p.job = j
  BY <1>1, <1>2, <1>4, <1>5
<1>11. ReservedTo(p, n, S)
  BY <1>9, <1>10 DEF ReservedTo
<1> QED
  BY <1>4, <1>5, <1>10, <1>11

LEMMA MoveReserved ==
  ASSUME TypeInv, ReservedInv, NEW r \in Requests, Move(r)
  PROVE  ReservedInv'
<1>1. PICK S : S = ReservedJobs /\ S \subseteq Jobs
  BY DEF ReservedJobs
<1>2. PICK q, p : q = req[r] /\ p = req'[r]
  OBVIOUS
<1>3. /\ req \in [Requests -> RequestStates] /\ q \in RequestStates /\ WellFormed(q)
      /\ ReservationAtHand(q, S)
  BY <1>1, <1>2, SlotType DEF TypeInv, TypeOK, ReservedInv
<1>4. req' = [req EXCEPT ![r] = p] /\ UNCHANGED <<stock, jobs>>
  <2>1. req' = [req EXCEPT ![r] = p]
    BY <1>2, OneSlotMoves
  <2> QED
    BY <2>1 DEF Move, ReadItem, SkipItem, WriteOnHand, WriteReserved,
       WriteConsumed, Write
<1>5. SUFFICES /\ ReservationAtHand(p, S)
               /\ p.op = q.op /\ p.job = q.job
               /\ q.step # "lock"
  BY <1>1, <1>2, <1>4, QuietReserved DEF Reserving
<1>6. CASE ReadItem(r)
  <2>1. PICK item : item = Head(q.todo).item
    OBVIOUS
  <2>2. /\ p = [q EXCEPT !.step = "write", !.seen = Row(r, item)]
        /\ q.step = "read" /\ q.todo # <<>>
    BY <1>2, <1>3, <1>6, <2>1 DEF ReadItem
  <2>3. /\ p.op = q.op /\ p.job = q.job /\ p.todo = q.todo /\ p.rows = q.rows
        /\ p.held = q.held /\ p.step = "write" /\ p.seen = Row(r, item)
    BY <1>3, <2>2 DEF RequestStates
  <2>4. item \in Items
    <3>1. q.todo \in Seq(Changes)
      BY <1>3 DEF RequestStates
    <3>2. Head(q.todo) \in Changes
      BY <2>2, <3>1, ElementsOf
    <3> QED
      BY <2>1, <3>2 DEF Changes
  <2>5. CASE q.op = "reserve"
    <3>1. AcceptanceAtHand(q, S)
      BY <1>3, <2>5 DEF ReservationAtHand
    <3>2. PICK k \in 0..Len(Parts[q.job]) : ReservedTo(q, k, S) /\ q.job \notin S
      BY <2>2, <3>1 DEF AcceptanceAtHand
    <3>3. Row(r, item).reserved <= Held(S, item) + Own(q.job, k, item)
      BY <1>1, <1>2, <2>4, <2>5, <3>2, RowHeld
    <3>4. ReservedTo(p, k, S)
      BY <2>1, <2>3, <3>2, <3>3 DEF ReservedTo
    <3>5. AcceptanceAtHand(p, S)
      BY <2>2, <2>3, <3>1, <3>2, <3>4 DEF AcceptanceAtHand
    <3> QED
      BY <2>2, <2>3, <2>5, <3>5 DEF ReservationAtHand
  <2>6. CASE q.op # "reserve"
    <3>1. Row(r, item).reserved <= Held(S, item)
      BY <1>1, <1>2, <2>4, <2>6, RowHeld
    <3>2. ReservationAtHand(p, S)
      BY <1>3, <2>1, <2>3, <2>6, <3>1 DEF ReservationAtHand
    <3> QED
      BY <2>2, <2>3, <3>2
  <2> QED
    BY <2>5, <2>6
<1>7. CASE SkipItem(r)
  <2>1. /\ q.op \in {"reserve", "consume"} /\ q.step = "read" /\ q.todo # <<>>
        /\ p.op = q.op /\ p.step = q.step /\ p.todo = Tail(q.todo)
        /\ p.job = q.job /\ p.rows = q.rows /\ p.held = q.held
    BY <1>2, <1>3, <1>7 DEF SkipItem, RequestStates
  <2>2. CASE q.op = "reserve"
    <3>1. AcceptanceAtHand(q, S)
      BY <1>3, <2>2 DEF ReservationAtHand
    <3>2. PICK k \in 0..Len(Parts[q.job]) : ReservedTo(q, k, S) /\ q.job \notin S
      BY <2>1, <3>1 DEF AcceptanceAtHand
    <3>3. k + 1 \in 0..Len(Parts[p.job]) /\ ReservedTo(p, k + 1, S)
      BY <1>1, <1>3, <2>1, <2>2, <3>2, PartReserved
    <3>4. AcceptanceAtHand(p, S)
      BY <2>1, <3>1, <3>2, <3>3 DEF AcceptanceAtHand
    <3> QED
      BY <2>1, <2>2, <3>4 DEF ReservationAtHand
  <2>3. CASE q.op # "reserve"
    <3>1. ReservationAtHand(p, S)
      BY <1>3, <2>1, <2>3 DEF ReservationAtHand
    <3> QED
      BY <2>1, <3>1
  <2> QED
    BY <2>2, <2>3
<1>8. CASE WriteOnHand(r) \/ WriteReserved(r) \/ WriteConsumed(r)
  <2>1. PICK i, delta, seen : /\ i = Head(q.todo).item /\ delta = Head(q.todo).delta
                              /\ seen = q.seen
    OBVIOUS
  <2>2. q.op \in ItemOps /\ q.step = "write"
    BY <1>2, <1>8 DEF WriteOnHand, WriteReserved, WriteConsumed, At, ItemOps
  <2>3. i \in Items /\ delta \in Int /\ seen \in StockRows
    BY <1>3, <2>1, <2>2, NextChange DEF RequestStates
  <2>4. PICK own \in StockRows : own = Row(r, i)
    BY <2>3, SlotType
  <2>5. seen.reserved \in Nat /\ own.reserved \in Nat
    BY <2>3, <2>4 DEF StockRows
  <2>6. q.todo # <<>>
    BY <1>3, <2>2, NextChange
  <2>7. ASSUME NEW row, NEW moves, Write(r, row, moves),
               q.op # "reserve" => row.reserved <= Held(S, i),
               q.op = "reserve" => row.reserved = seen.reserved + delta
        PROVE  ReservationAtHand(p, S) /\ p.op = q.op /\ p.job = q.job
    <3>1. p = Wrote(q, row, moves)
      BY <1>2, <1>3, <2>7 DEF Write
    <3>2. p.op = q.op /\ p.step = "read" /\ p.todo = Tail(q.todo) /\ p.job = q.job
      BY <1>3, <3>1, WroteKept
    <3>3. \A x \in Items : p.rows[x] = IF x = i THEN row ELSE q.rows[x]
      BY <1>3, <2>1, <3>1, WroteItem
    <3>4. CASE q.op = "reserve"
      <4>1. AcceptanceAtHand(q, S)
        BY <1>3, <3>4 DEF ReservationAtHand
      <4>2. PICK k \in 0..Len(Parts[q.job]) : ReservedTo(q, k, S) /\ q.job \notin S
        BY <2>2, <2>6, <4>1 DEF AcceptanceAtHand
      <4>3. k + 1 \in 0..Len(Parts[p.job]) /\ ReservedTo(p, k + 1, S)
        <5>1. /\ \A x \in Items \ {Head(q.todo).item} : p.rows[x] = q.rows[x]
              /\ p.rows[Head(q.todo).item].reserved
                   = q.seen.reserved + Head(q.todo).delta
          BY <2>1, <2>3, <2>7, <3>3, <3>4
        <5> QED
          BY <1>1, <1>3, <2>2, <2>6, <3>2, <3>4, <4>2, <5>1, PartReserved
      <4>4. p.held
        BY <1>3, <3>1, <3>4, WroteCounts
      <4>5. AcceptanceAtHand(p, S)
        BY <3>2, <4>2, <4>3, <4>4 DEF AcceptanceAtHand
      <4> QED
        BY <3>2, <3>4, <4>5 DEF ReservationAtHand
    <3>5. CASE q.op # "reserve"
      <4>1. \A x \in Items : p.rows[x] # None => p.rows[x].reserved <= Held(S, x)
        BY <1>3, <2>7, <3>3, <3>5 DEF ReservationAtHand
      <4> QED
        BY <3>2, <3>5, <4>1 DEF ReservationAtHand
    <3> QED
      BY <3>4, <3>5
  <2>8. CASE WriteOnHand(r)
    <3>1. q.op # "reserve"
      BY <1>2, <2>8 DEF WriteOnHand
    <3>2. own.reserved <= Held(S, i) /\ Held(S, i) \in Nat
      BY <1>1, <1>2, <2>3, <2>4, <3>1, RowHeld
    <3>3. PICK moved1, fresh : /\ moved1 = [own EXCEPT !.onHand = seen.onHand + delta]
                               /\ fresh = NewItem(delta)
      OBVIOUS
    <3>4. moved1.reserved = own.reserved /\ fresh.reserved = 0
      BY <2>4, <3>3 DEF StockRows, NewItem
    <3>5. Write(r, moved1, delta) \/ Write(r, fresh, delta)
      BY <1>2, <2>1, <2>4, <2>8, <3>3 DEF WriteOnHand
    <3> QED
      BY <2>2, <2>7, <3>1, <3>2, <3>4, <3>5
  <2>9. CASE WriteReserved(r)
    <3>1. q.op = "reserve"
      BY <1>2, <2>9 DEF WriteReserved, At
    <3>2. PICK row : row = [own EXCEPT !.reserved = seen.reserved + delta]
      OBVIOUS
    <3>3. row.reserved = seen.reserved + delta
      BY <2>4, <3>2 DEF StockRows
    <3>4. Write(r, row, 0)
      BY <1>2, <2>1, <2>4, <2>9, <3>2 DEF WriteReserved
    <3> QED
      BY <2>2, <2>7, <3>1, <3>3, <3>4
  <2>10. CASE WriteConsumed(r)
    <3>1. q.op = "consume"
      BY <1>2, <2>10 DEF WriteConsumed, At
    <3>2. seen.reserved <= Held(S, i) /\ Held(S, i) \in Nat
      BY <1>1, <1>3, <2>1, <2>2, <2>3, <3>1, HeldSums DEF ReservationAtHand
    <3>3. PICK qty : qty = -delta
      OBVIOUS
    <3>4. PICK row : row = [own EXCEPT !.onHand = seen.onHand - qty,
                              !.reserved = IF seen.reserved > qty
                                           THEN seen.reserved - qty ELSE 0]
      OBVIOUS
    <3>5. row.reserved = IF seen.reserved > qty THEN seen.reserved - qty ELSE 0
      BY <2>4, <3>4 DEF StockRows
    <3>6. qty \in Nat
      BY <1>3, <2>1, <2>2, <2>3, <3>1, <3>3, NextChange
    <3>7. row.reserved <= Held(S, i)
      BY <2>5, <3>2, <3>5, <3>6
    <3>8. Write(r, row, -qty)
      BY <1>2, <2>1, <2>4, <2>10, <3>3, <3>4 DEF WriteConsumed
    <3> QED
      BY <2>2, <2>7, <3>1, <3>7, <3>8
  <2> QED
    BY <1>8, <2>8, <2>9, <2>10
<1> QED
  BY <1>6, <1>7, <1>8 DEF Move

(* The other first steps write nothing either. *)
LEMMA MoreStarts ==
  ASSUME TypeInv, NEW r \in Requests
  PROVE  /\ TransferRead(r) => Fresh(req'[r], "transfer")
         /\ EditLinesRead(r) => Fresh(req'[r], "edit")
         /\ SubmitRead(r) => Fresh(req'[r], "submit")
         /\ SyncRead(r) => Fresh(req'[r], "push")
         /\ CancelRead(r) => Fresh(req'[r], "cancel")
         /\ ReceiveRead(r) => Fresh(req'[r], "receive")
<1>1. req \in [Requests -> RequestStates]
  BY DEF TypeInv, TypeOK
<1>2. ASSUME TransferRead(r) PROVE Fresh(req'[r], "transfer")
  <2>1. PICK todo, seen : req' = [req EXCEPT ![r] =
          [Begin(r, "transfer", "write") EXCEPT !.todo = todo, !.seen = seen]]
    BY <1>2 DEF TransferRead
  <2> QED
    BY <1>1, <2>1 DEF Begin, Idle, Fresh
<1>3. ASSUME NEW o, NEW op, NEW step, ReadOrder(r, o, op, step)
      PROVE  Fresh(req'[r], op)
  BY <1>1, <1>3 DEF ReadOrder, Begin, Idle, Fresh
<1>4. ASSUME ReceiveRead(r) PROVE Fresh(req'[r], "receive")
  <2> DEFINE Opens(o, n, over, lines) ==
               req' = [req EXCEPT ![r] = [Begin(r, "receive", "read") EXCEPT
                         !.order = o, !.row = orders[o], !.over = over,
                         !.todo = [k \in 1..n |->
                           Change(<<OrderBranch[o], lines[k][1]>>, lines[k][2])]]]
  <2>1. \E o \in Orders, n \in 1..MaxLines, over \in BOOLEAN :
          /\ orders[o].status \in {"submitted", "partial"}
          /\ \E lines \in [1..n -> Skus \X Qty] : Opens(o, n, over, lines)
    BY <1>4 DEF ReceiveRead
  <2>2. ASSUME NEW o, NEW n, NEW over, NEW lines, Opens(o, n, over, lines)
        PROVE  Fresh(req'[r], "receive")
    BY <1>1, <2>2 DEF Begin, Idle, Fresh
  <2> HIDE DEF Opens
  <2> QED
    BY <2>1, <2>2
<1> QED
  BY <1>2, <1>3, <1>4 DEF EditLinesRead, SubmitRead, SyncRead, CancelRead

(* What has written nothing, and does not reserve, is of no concern. *)
LEMMA FreshAtHand ==
  ASSUME NEW p, NEW op, Fresh(p, op), NEW S,
         op \in {"reserve", "consume"} => p.step = "lock"
  PROVE  ReservationAtHand(p, S) /\ ~Reserving(p)
BY DEF Fresh, ReservationAtHand, AcceptanceAtHand, Reserving

(* Nor is a step that leaves the slot's rows as they are. *)
LEMMA KeptAtHand ==
  ASSUME NEW p, NEW q, NEW S, ReservationAtHand(q, S), q.op # "reserve",
         p.op # "reserve", p.rows = q.rows, p.op = "consume" => p.step # "write"
  PROVE  ReservationAtHand(p, S) /\ ~Reserving(p)
BY DEF ReservationAtHand, Reserving

LEMMA PurchaseReserved ==
  ASSUME TypeInv, ReservedInv, NEW r \in Requests, Purchase(r)
  PROVE  ReservedInv'
<1>1. PICK q, p : q = req[r] /\ p = req'[r]
  OBVIOUS
<1>2. /\ req \in [Requests -> RequestStates] /\ q \in RequestStates
      /\ ReservationAtHand(q, ReservedJobs) /\ req' = [req EXCEPT ![r] = p]
  BY <1>1, SlotType, OneSlotMoves DEF TypeInv, TypeOK, ReservedInv
<1>3. CASE EditLinesRead(r) \/ SubmitRead(r) \/ SyncRead(r) \/ CancelRead(r)
           \/ ReceiveRead(r)
  <2>1. \E op \in {"edit", "submit", "push", "cancel", "receive"} : Fresh(p, op)
    BY <1>1, <1>3, MoreStarts
  <2>2. ReservationAtHand(p, ReservedJobs) /\ ~Reserving(p)
    BY <2>1, FreshAtHand
  <2>3. UNCHANGED <<stock, jobs>>
    BY <1>3 DEF EditLinesRead, SubmitRead, SyncRead, CancelRead, ReadOrder, ReceiveRead
  <2> QED
    BY <1>2, <2>2, <2>3, QuietReserved
<1>4. CASE SubmitWrite(r) \/ Push(r)
  <2>1. q.op \in {"submit", "push"} /\ p.op = "push" /\ p.rows = q.rows
    BY <1>1, <1>2, <1>4 DEF SubmitWrite, Push, At, RequestStates
  <2>2. ReservationAtHand(p, ReservedJobs) /\ ~Reserving(p)
    BY <1>2, <2>1, KeptAtHand
  <2>3. UNCHANGED <<stock, jobs>>
    BY <1>4 DEF SubmitWrite, Push
  <2> QED
    BY <1>2, <2>2, <2>3, QuietReserved
<1>5. CASE EditLinesWrite(r) \/ Stamp(r) \/ CancelWrite(r)
  <2>1. UNCHANGED <<stock, jobs>> /\ req' = [req EXCEPT ![r] = Idle]
    BY <1>5, Ends DEF EditLinesWrite, Stamp, CancelWrite
  <2> QED
    BY <2>1, EndedReserved
<1>6. CASE ReceiveCommit(r) \/ ReceiveRefused(r)
  <2>1. /\ jobs' = jobs /\ req' = [req EXCEPT ![r] = Idle]
        /\ Store(r) /\ req[r].op # "reserve"
    BY <1>6, Ends DEF ReceiveCommit, ReceiveRefused, ReceiveEnd, Written, Refused, At
  <2> QED
    BY <2>1, EndedReserved
<1> QED
  BY <1>3, <1>4, <1>5, <1>6 DEF Purchase

LEMMA StockReserved ==
  ASSUME TypeInv, ReservedInv, NEW r \in Requests, Stock(r) \/ Abort(r)
  PROVE  ReservedInv'
<1>1. PICK p : p = req'[r] /\ req' = [req EXCEPT ![r] = p]
  BY OneSlotMoves
<1>2. CASE AdjustRead(r) \/ TransferRead(r)
  <2>1. \E op \in {"adjust", "transfer"} : Fresh(p, op)
    BY <1>1, <1>2, Starts, MoreStarts
  <2>2. ReservationAtHand(p, ReservedJobs) /\ ~Reserving(p)
    BY <2>1, FreshAtHand
  <2>3. UNCHANGED <<stock, jobs>>
    BY <1>2 DEF AdjustRead, TransferRead
  <2> QED
    BY <1>1, <2>2, <2>3, QuietReserved
<1>3. CASE AdjustCommit(r) \/ TransferCommit(r)
  <2>1. /\ jobs' = jobs /\ req' = [req EXCEPT ![r] = Idle]
        /\ Store(r) /\ req[r].op # "reserve"
    BY <1>3, Ends DEF AdjustCommit, TransferCommit, Written, At
  <2> QED
    BY <2>1, EndedReserved
<1>4. CASE Abort(r)
  <2>1. UNCHANGED <<stock, jobs>> /\ req' = [req EXCEPT ![r] = Idle]
    BY <1>4, Ends DEF Abort
  <2> QED
    BY <2>1, EndedReserved
<1> QED
  BY <1>2, <1>3, <1>4 DEF Stock

LEMMA AcceptanceLocked ==
  ASSUME TypeInv, ReservedInv, NEW r \in Requests, AcceptLock(r)
  PROVE  ReservedInv'
<1>1. PICK S : S = ReservedJobs /\ S = ReservedJobs' /\ S \subseteq Jobs
  BY DEF AcceptLock, ReservedJobs
<1>2. PICK q, p : q = req[r] /\ p = req'[r]
  OBVIOUS
<1>3. /\ req \in [Requests -> RequestStates] /\ q \in RequestStates /\ WellFormed(q)
      /\ ReservationAtHand(q, S) /\ req' = [req EXCEPT ![r] = p]
  <2>1. Work(r)
    BY DEF Work
  <2> QED
    BY <1>1, <1>2, <2>1, SlotType, OneSlotMoves DEF TypeInv, TypeOK, ReservedInv
<1>4. q.op = "reserve" /\ q.step = "lock" /\ JobUnlocked(q.job, "reserve")
  BY <1>2 DEF AcceptLock, At
<1>5. PICK j \in Jobs : j = q.job
  BY <1>3, <1>4 DEF WellFormed, JobOps
<1>6. /\ p.op = "reserve" /\ p.step = "read" /\ p.job = j /\ p.rows = q.rows
      /\ p.held = q.held
      /\ p.todo = IF jobs[j].reserved THEN <<>> ELSE PartChanges(j, 1)
  BY <1>2, <1>3, <1>4, <1>5 DEF AcceptLock, RequestStates
<1>7. ~q.held /\ \A i \in Items : q.rows[i] = None
  BY <1>3, <1>4 DEF ReservationAtHand, AcceptanceAtHand
<1>8. AcceptanceAtHand(p, S)
  <2>1. CASE jobs[j].reserved
    BY <1>6, <1>7, <2>1 DEF AcceptanceAtHand
  <2>2. CASE ~jobs[j].reserved
    <3>1. j \notin S
      BY <1>1, <2>2 DEF ReservedJobs
    <3>2. p.todo = Rest(j, 0, 1) /\ 0 \in 0..Len(Parts[j])
      BY <1>6, <2>2, RestAll, PartFacts
    <3>3. ReservedTo(p, 0, S)
      BY <1>6, <1>7, <3>2 DEF ReservedTo
    <3> QED
      BY <1>6, <1>7, <3>1, <3>2, <3>3 DEF AcceptanceAtHand
  <2> QED
    BY <2>1, <2>2
<1>9. ReservationAtHand(p, S)
  BY <1>6, <1>8 DEF ReservationAtHand
<1>10. \A other \in Requests \ {r} : Reserving(req[other]) => req[other].job # j
  BY <1>4, <1>5 DEF JobUnlocked, Reserving
<1>11. /\ \A x \in Jobs : jobs'[x].reserved => jobs'[x].accepted
       /\ \A i \in Items : stock'[i].reserved <= Held(S, i)
  BY <1>1 DEF AcceptLock, ReservedInv
<1> QED
  BY <1>1, <1>3, <1>6, <1>9, <1>10, <1>11, ReservedStep

(* What an acceptance stores is what its parts ask for on top of the rest. *)
LEMMA AcceptanceStored ==
  ASSUME TypeInv, ReservedInv, NEW r \in Requests, AcceptCommit(r)
  PROVE  ReservedInv'
<1>1. PICK S : S = ReservedJobs /\ S \subseteq Jobs
  BY DEF ReservedJobs
<1>2. PICK T : T = ReservedJobs'
  OBVIOUS
<1>3. PICK q : q = req[r]
  OBVIOUS
<1>4. /\ jobs \in [Jobs -> JobRows] /\ q \in RequestStates /\ WellFormed(q)
      /\ ReservationAtHand(q, S)
  BY <1>1, <1>3, SlotType DEF TypeInv, TypeOK, ReservedInv
<1>5. q.op = "reserve" /\ q.step = "read" /\ q.todo = <<>> /\ Store(r)
  BY <1>3 DEF AcceptCommit, Written, At
<1>6. PICK j \in Jobs : j = q.job
  BY <1>4, <1>5 DEF WellFormed, JobOps
<1>7. AcceptanceAtHand(q, S)
  BY <1>4, <1>5 DEF ReservationAtHand
<1>8. /\ jobs'[j].accepted /\ jobs'[j].reserved = (jobs[j].reserved \/ q.held)
      /\ \A x \in Jobs \ {j} : jobs'[x] = jobs[x]
  BY <1>3, <1>4, <1>6 DEF AcceptCommit, JobRows
<1>9. T = IF q.held THEN S \cup {j} ELSE S
  <2>1. \A x \in Jobs : x \in T <=> jobs'[x].reserved
    BY <1>2 DEF ReservedJobs
  <2>2. \A x \in Jobs : x \in S <=> jobs[x].reserved
    BY <1>1 DEF ReservedJobs
  <2>3. T \subseteq Jobs
    BY <1>2 DEF ReservedJobs
  <2>4. \A x \in Jobs : x \in T <=> x \in S \/ (x = j /\ q.held)
    BY <1>8, <2>1, <2>2
  <2> QED
    BY <1>1, <2>3, <2>4
<1>10. S \subseteq T /\ T \subseteq Jobs
  BY <1>1, <1>6, <1>9
<1>11. \A x \in Jobs : jobs'[x].reserved => jobs'[x].accepted
  BY <1>8 DEF ReservedInv
<1>12. \A i \in Items : stock'[i].reserved <= Held(T, i)
  <2>1. CASE ~q.held
    <3>1. \A i \in Items : q.rows[i] = None
      BY <1>7, <2>1 DEF AcceptanceAtHand
    <3>2. \A i \in Items : stock'[i] = stock[i]
      BY <1>3, <1>5, <3>1 DEF Store, Row
    <3> QED
      BY <1>1, <1>9, <2>1, <3>2 DEF ReservedInv
  <2>2. CASE q.held
    <3>1. PICK k \in 0..Len(Parts[j]) : ReservedTo(q, k, S) /\ j \notin S
      BY <1>5, <1>6, <1>7, <2>2 DEF AcceptanceAtHand
    <3>2. k = Len(Parts[j])
      BY <1>5, <1>6, <3>1, RestDone DEF ReservedTo
    <3>3. ASSUME NEW i \in Items PROVE stock'[i].reserved <= Held(T, i)
      <4>1. Row(r, i).reserved <= Held(S, i) + Own(j, k, i)
        BY <1>1, <1>3, <1>5, <1>6, <3>1, RowHeld
      <4>2. Held(S \cup {j}, i) = Held(S, i) + Own(j, k, i)
        BY <1>1, <3>1, <3>2, HeldSums
      <4>3. stock'[i] = Row(r, i)
        BY <1>5 DEF Store
      <4> QED
        BY <1>9, <2>2, <4>1, <4>2, <4>3
    <3> QED
      BY <3>3
  <2> QED
    BY <2>1, <2>2
<1>13. \A other \in Requests \ {r} :
         Reserving(req[other]) => req[other].job \notin T \ S
  <2>1. Reserving(q)
    BY <1>5 DEF Reserving
  <2>2. \A other \in Requests \ {r} : Reserving(req[other]) => req[other].job # j
    BY <1>3, <1>6, <2>1 DEF ReservedInv
  <2> QED
    BY <1>9, <2>2
<1>14. ReservationAtHand(Idle, T) /\ ~Reserving(Idle)
  BY DEF ReservationAtHand, Reserving, Idle
<1>15. req' = [req EXCEPT ![r] = Idle]
  BY Ends
<1> QED
  BY <1>1, <1>2, <1>10, <1>11, <1>12, <1>13, <1>14, <1>15, ReservedStep

LEMMA ResolveReserved ==
  ASSUME TypeInv, ReservedInv, NEW r \in Requests, ResolveRead(r)
  PROVE  ReservedInv'
<1>1. PICK S : S = ReservedJobs /\ S \subseteq Jobs
  BY DEF ReservedJobs
<1>2. PICK p : p = req'[r]
  OBVIOUS
<1>3. req \in [Requests -> RequestStates] /\ req' = [req EXCEPT ![r] = p]
  <2>1. Work(r)
    BY DEF Work
  <2> QED
    BY <1>2, <2>1, OneSlotMoves DEF TypeInv, TypeOK
<1> DEFINE base(j, n, i) ==
             [Begin(r, "resolve", "read") EXCEPT
                !.job = j, !.exc = n,
                !.todo = <<Change(i, -exceptions[j][n].qty)>>]
           Opened(i) == /\ p.op = "resolve"
                        /\ \A x \in Items : p.rows[x] = None \/ p.rows[x] = NewItem(0)
<1>4. \E j \in Jobs, s \in Skus : \E n \in Pending(j) :
        \/ req' = [req EXCEPT ![r] = base(j, n, <<JobBranch[j], s>>)]
        \/ req' = [req EXCEPT ![r] = [base(j, n, <<JobBranch[j], s>>) EXCEPT
                                        !.rows[<<JobBranch[j], s>>] = NewItem(0)]]
  BY DEF ResolveRead
<1>5. ASSUME NEW j, NEW n, NEW i,
             \/ req' = [req EXCEPT ![r] = base(j, n, i)]
             \/ req' = [req EXCEPT ![r] = [base(j, n, i) EXCEPT !.rows[i] = NewItem(0)]]
      PROVE  Opened(i)
  <2>1. PICK b, full : b = base(j, n, i) /\ full = [b EXCEPT !.rows[i] = NewItem(0)]
    OBVIOUS
  <2>2. b.op = "resolve" /\ \A x \in Items : b.rows[x] = None
    BY <2>1 DEF Begin, Idle
  <2>3. /\ full.op = "resolve"
        /\ \A x \in Items : full.rows[x] = None \/ full.rows[x] = NewItem(0)
    BY <2>1 DEF Begin, Idle
  <2>4. p = b \/ p = full
    <3> HIDE DEF base
    <3> QED
      BY <1>2, <1>3, <1>5, <2>1
  <2> QED
    BY <2>2, <2>3, <2>4
<1> HIDE DEF base, Opened
<1>6. PICK i : Opened(i)
  BY <1>4, <1>5
<1>7. p.op = "resolve" /\ \A x \in Items : p.rows[x] # None => p.rows[x].reserved = 0
  BY <1>6 DEF Opened, NewItem
<1>8. \A x \in Items : Held(S, x) \in Nat
  BY <1>1, HeldSums
<1>9. ReservationAtHand(p, S) /\ ~Reserving(p)
  BY <1>7, <1>8 DEF ReservationAtHand, Reserving
<1>10. UNCHANGED <<stock, jobs>>
  BY DEF ResolveRead
<1> QED
  BY <1>1, <1>3, <1>9, <1>10, QuietReserved

LEMMA WorkReserved ==
  ASSUME TypeInv, ReservedInv, NEW r \in Requests, Work(r)
  PROVE  ReservedInv'
<1>1. PICK q, p : q = req[r] /\ p = req'[r]
  OBVIOUS
<1>2. /\ jobs \in [Jobs -> JobRows] /\ q \in RequestStates
      /\ ReservationAtHand(q, ReservedJobs) /\ req' = [req EXCEPT ![r] = p]
      /\ req \in [Requests -> RequestStates]
  BY <1>1, SlotType, OneSlotMoves DEF TypeInv, TypeOK, ReservedInv
<1>3. CASE AcceptRead(r) \/ CompleteRead(r) \/ IgnoreRead(r)
  <2>1. \/ Fresh(p, "ignore")
        \/ p.step = "lock" /\ \E op \in {"reserve", "consume"} : Fresh(p, op)
    BY <1>1, <1>3, Starts
  <2>2. ReservationAtHand(p, ReservedJobs) /\ ~Reserving(p)
    BY <2>1, FreshAtHand
  <2>3. UNCHANGED <<stock, jobs>>
    BY <1>3 DEF AcceptRead, CompleteRead, IgnoreRead
  <2> QED
    BY <1>2, <2>2, <2>3, QuietReserved
<1>4. CASE CompleteLock(r)
  <2>1. q.op = "consume" /\ p.op = "consume" /\ p.rows = q.rows /\ p.step = "read"
    BY <1>1, <1>2, <1>4 DEF CompleteLock, At, RequestStates
  <2>2. ReservationAtHand(p, ReservedJobs) /\ ~Reserving(p)
    BY <1>2, <2>1, KeptAtHand
  <2>3. UNCHANGED <<stock, jobs>>
    BY <1>4 DEF CompleteLock
  <2> QED
    BY <1>2, <2>2, <2>3, QuietReserved
<1>5. CASE CompleteCommit(r) \/ ResolveCommit(r) \/ IgnoreWrite(r)
  <2>1. req' = [req EXCEPT ![r] = Idle]
    BY <1>5, Ends
  <2>2. stock' = stock \/ (Store(r) /\ req[r].op # "reserve")
    BY <1>5 DEF CompleteCommit, ResolveCommit, IgnoreWrite, Written, At
  <2>3. \A j \in Jobs : /\ jobs'[j].reserved = jobs[j].reserved
                        /\ jobs'[j].accepted = jobs[j].accepted
    <3>1. CASE CompleteCommit(r)
      BY <1>2, <3>1 DEF CompleteCommit, JobRows
    <3>2. CASE ResolveCommit(r)
      BY <1>2, <3>2 DEF ResolveCommit, JobRows
    <3>3. CASE IgnoreWrite(r)
      BY <3>3 DEF IgnoreWrite
    <3> QED
      BY <1>5, <3>1, <3>2, <3>3
  <2> QED
    BY <2>1, <2>2, <2>3, EndedReserved
<1> QED
  BY <1>3, <1>4, <1>5, AcceptanceLocked, AcceptanceStored, ResolveReserved DEF Work

LEMMA NextReserved ==
  TypeInv /\ ReservedInv /\ [Next]_vars => ReservedInv'
<1> SUFFICES ASSUME TypeInv, ReservedInv, [Next]_vars PROVE ReservedInv'
  OBVIOUS
<1>1. CASE \/ UNCHANGED vars \/ \E o \in Orders : CreateOrder(o)
           \/ \E i \in Items : CreateItem(i) \/ EditItem(i)
  <2>1. UNCHANGED <<jobs, req>>
    BY <1>1 DEF vars, CreateOrder, CreateItem, EditItem
  <2>2. PICK S : S = ReservedJobs /\ S = ReservedJobs' /\ S \subseteq Jobs
    BY <2>1 DEF ReservedJobs
  <2>3. stock \in [Items -> StockRows]
    BY DEF TypeInv, TypeOK
  <2>4. \A i \in Items : stock[i].reserved <= Held(S, i) /\ Held(S, i) \in Nat
    BY <2>2, HeldSums DEF ReservedInv
  <2>5. \A i \in Items : stock'[i].reserved <= Held(S, i)
    <3>1. CASE UNCHANGED vars \/ \E o \in Orders : CreateOrder(o)
      <4>1. stock' = stock
        BY <3>1 DEF vars, CreateOrder
      <4> QED
        BY <2>4, <4>1
    <3>2. ASSUME NEW x \in Items, CreateItem(x) \/ EditItem(x)
          PROVE  \A i \in Items : stock'[i].reserved <= Held(S, i)
      <4>1. stock'[x].reserved = 0 \/ stock'[x].reserved = stock[x].reserved
        BY <2>3, <3>2 DEF CreateItem, EditItem, NewItem, StockRows
      <4>2. \A i \in Items \ {x} : stock'[i] = stock[i]
        BY <2>3, <3>2 DEF CreateItem, EditItem
      <4>3. stock'[x].reserved <= Held(S, x)
        BY <2>4, <4>1
      <4> QED
        BY <2>4, <4>2, <4>3
    <3> QED
      BY <1>1, <3>1, <3>2
  <2>6. \A i \in Items : (stock[i].reserved <= Held(ReservedJobs, i))'
    BY <2>2, <2>5 DEF Held
  <2>7. \A j \in Jobs : jobs'[j].reserved => jobs'[j].accepted
    BY <2>1 DEF ReservedInv
  <2>8. \A r \in Requests : ReservationAtHand(req'[r], S)
    BY <2>1, <2>2 DEF ReservedInv
  <2>9. \A r \in Requests : ReservationAtHand(req[r], ReservedJobs)'
    BY <2>2, <2>8 DEF ReservationAtHand, AcceptanceAtHand, ReservedTo, Held, Own
  <2>10. \A a, b \in Requests :
           Reserving(req[a])' /\ Reserving(req[b])' /\ req'[a].job = req'[b].job => a = b
    BY <2>1 DEF ReservedInv, Reserving
  <2> QED
    BY <2>6, <2>7, <2>9, <2>10 DEF ReservedInv
<1>2. CASE \E r \in Requests : Move(r) \/ Stock(r) \/ Work(r) \/ Purchase(r) \/ Abort(r)
  BY <1>2, MoveReserved, StockReserved, WorkReserved, PurchaseReserved
<1> QED
  BY <1>1, <1>2 DEF Next

(* What is reserved of an item never exceeds what the accepted quotes name: *)
(* however acceptances of one quote race, completions release by a quantity *)
(* read before the lock, and transactions roll back.                        *)
THEOREM ReservedAlwaysOnce == Spec => []ReservedOnce
<1>1. Init => ReservedInv
  <2> SUFFICES ASSUME Init PROVE ReservedInv
    OBVIOUS
  <2>1. \A i \in Items : stock[i].reserved = 0
    BY DEF Init, NoItem
  <2>2. ReservedJobs \subseteq Jobs
    BY DEF ReservedJobs
  <2>3. \A i \in Items : stock[i].reserved <= Held(ReservedJobs, i)
    <3>1. \A i \in Items : Held(ReservedJobs, i) \in Nat
      BY <2>2, HeldSums
    <3> QED
      BY <2>1, <3>1
  <2>4. \A r \in Requests : req[r] = Idle
    BY DEF Init
  <2>5. ReservationAtHand(Idle, ReservedJobs) /\ ~Reserving(Idle)
    BY DEF ReservationAtHand, Reserving, Idle
  <2>6. \A j \in Jobs : ~jobs[j].reserved
    BY DEF Init, NoJob
  <2> QED
    BY <2>3, <2>4, <2>5, <2>6 DEF ReservedInv
<1>2. TypeInv /\ ReservedInv => ReservedOnce
  <2> SUFFICES ASSUME TypeInv, ReservedInv, NEW b \in Branches, NEW s \in Skus
               PROVE  stock[<<b, s>>].reserved <= AskedBy({j \in Jobs : jobs[j].accepted}, b, s)
    BY DEF ReservedOnce
  <2>1. PICK i \in Items : i = <<b, s>>
    BY DEF Items
  <2>2. PICK T : T = {j \in Jobs : jobs[j].accepted}
    OBVIOUS
  <2>3. ReservedJobs \subseteq T /\ T \subseteq Jobs
    BY <2>2 DEF ReservedJobs, ReservedInv
  <2>4. /\ Held(ReservedJobs, i) \in Nat /\ Held(T, i) \in Nat
        /\ Held(ReservedJobs, i) <= Held(T, i)
    BY <2>3, HeldSums
  <2>5. stock[i].reserved <= Held(ReservedJobs, i) /\ stock[i].reserved \in Nat
    BY DEF TypeInv, TypeOK, StockRows, ReservedInv
  <2>6. stock[i].reserved <= Held(T, i)
    BY <2>4, <2>5
  <2> QED
    BY <2>1, <2>2, <2>6 DEF Held
<1> QED
  BY <1>1, <1>2, InitTypeInv, NextTypeInv, NextReserved, PTL DEF Spec
=============================================================================

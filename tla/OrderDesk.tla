------------------------------ MODULE OrderDesk ------------------------------
(***************************************************************************)
(* The order handlers of the dashboard service (api/service.py) over the   *)
(* two tables they share: "orders" (api/db.py) and the idempotent ledger   *)
(* "fulfillments" (api/ledger_sql.py), through ManualFulfiller             *)
(* (jikgugom/order/manual.py).                                             *)
(*                                                                         *)
(* A handler runs in a thread of the server's pool and every call of a     *)
(* repository or ledger method is a transaction of its own, so a handler   *)
(* is a sequence of steps between which the other threads run.  A save is  *)
(* two steps: the SELECT of Session.get/merge, and the flush that commits  *)
(* an INSERT (no row was read) or an UPDATE of the columns that differ     *)
(* from the row that was read.                                             *)
(*                                                                         *)
(* The clients are arbitrary here: any request, on any order, at any time. *)
(* AdminConsole restricts them to what the dashboard page can send.        *)
(*                                                                         *)
(* The fulfilment id is derived from the order id (_make_id), so an order  *)
(* row keeps only whether it has one, and the ledger is indexed by the     *)
(* order.  Product, quantity, buyer, tracking number and the texts never   *)
(* decide a branch and are left out.                                       *)
(***************************************************************************)
CONSTANTS Orders,      (* the orders _seed_orders created                  *)
          Workers,     (* threads that may run a handler at one time       *)
          AmazonNos,   (* Amazon order numbers a request may carry         *)
          NULL         (* Python's None                                    *)

ASSUME NullAssumption == NULL \notin Orders /\ NULL \notin AmazonNos

VARIABLES orders,      (* table orders: [Orders -> OrderRow]               *)
          guard,       (* its column guard_action, never rewritten         *)
          ledger,      (* table fulfillments: [Orders -> LedgerRow]        *)
          worker       (* the handlers in flight: [Workers -> Handler]     *)

deskVars == <<orders, guard, ledger, worker>>
-----------------------------------------------------------------------------
GuardAction == {"auto_order", "approval_required"}

MaybeNo == AmazonNos \cup {NULL}

OrderRow == [status: {"pending_approval", "awaiting_purchase", "purchased", "rejected"},
             fid: BOOLEAN,
             amz: MaybeNo]

LedgerRow == [status: {"absent", "awaiting_purchase", "purchased"}, amz: MaybeNo]

NoRow == [status |-> "absent", amz |-> NULL]

SeedRow == [status |-> "pending_approval", fid |-> FALSE, amz |-> NULL]

(* rec and led are the handler's own copies; seenOrder and seenLedger are  *)
(* the rows its open session has read.                                     *)
Handler == [pc: {"idle", "find", "require", "load_ledger", "save_ledger",
                 "load_order", "save_order", "reply"},
            op: {"none", "approve", "confirm", "reject"},
            ord: Orders \cup {NULL},
            no: MaybeNo,
            rec: OrderRow, led: LedgerRow,
            seenOrder: OrderRow, seenLedger: LedgerRow,
            reply: {"none", "ok", "conflict", "not_found", "duplicate_key", "error"}]

IdleHandler == [pc |-> "idle", op |-> "none", ord |-> NULL, no |-> NULL,
                rec |-> SeedRow, led |-> NoRow,
                seenOrder |-> SeedRow, seenLedger |-> NoRow,
                reply |-> "none"]

Init == /\ orders = [o \in Orders |-> SeedRow]
        /\ guard \in [Orders -> GuardAction]
        /\ ledger = [o \in Orders |-> NoRow]
        /\ worker = [w \in Workers |-> IdleHandler]
-----------------------------------------------------------------------------
(* The column an UPDATE leaves: a flush writes only what the session       *)
(* changed with respect to what it read.                                   *)
Column(current, read, new) == IF new # read THEN new ELSE current

(* Mutant: reject stores a status the dashboard does not know.             *)
EditedUnknownStatus(op, rec, no) ==
    CASE op = "approve" -> [rec EXCEPT !.status = "awaiting_purchase", !.fid = TRUE]
      [] op = "confirm" -> [rec EXCEPT !.status = "purchased", !.amz = no]
      [] op = "reject"  -> [rec EXCEPT !.status = "cancelled"]

(* The edits a handler makes to its copy of the order row before saving.   *)
Edited(op, rec, no) ==
    CASE op = "approve" -> [rec EXCEPT !.status = "awaiting_purchase", !.fid = TRUE]
      [] op = "confirm" -> [rec EXCEPT !.status = "purchased", !.amz = no]
      [] op = "reject"  -> [rec EXCEPT !.status = "rejected"]

(* A new handler, after its first statement: get_order.                    *)
Handling(op, o, no, pc) ==
    [IdleHandler EXCEPT !.pc = pc, !.op = op, !.ord = o, !.no = no, !.rec = orders[o]]

(* The handler has returned or raised: its local variables are gone.       *)
Answered(h, reply) ==
    [IdleHandler EXCEPT !.pc = "reply", !.op = h.op, !.ord = h.ord, !.no = h.no,
                        !.reply = reply]
-----------------------------------------------------------------------------
(* The three handlers, up to their first call into the ledger.             *)

ApproveOrder(w, o) ==
    /\ worker[w].pc = "idle"
    /\ worker' = [worker EXCEPT ![w] = Handling("approve", o, NULL, "find")]
    /\ UNCHANGED <<orders, guard, ledger>>

ConfirmPurchase(w, o, n) ==
    /\ worker[w].pc = "idle"
    /\ worker' = [worker EXCEPT ![w] =
                     IF orders[o].fid
                     THEN Handling("confirm", o, n, "require")
                     ELSE Answered(Handling("confirm", o, n, "reply"), "conflict")]
    /\ UNCHANGED <<orders, guard, ledger>>

RejectOrder(w, o) ==
    /\ worker[w].pc = "idle"
    /\ worker' = [worker EXCEPT ![w] =
                     [Handling("reject", o, NULL, "load_order") EXCEPT
                         !.rec = Edited("reject", orders[o], NULL)]]
    /\ UNCHANGED <<orders, guard, ledger>>
-----------------------------------------------------------------------------
(* Mutant: place_order without its lookup of the key.                      *)
FindFulfillmentNoLookup(w) ==
    LET h == worker[w] IN
    /\ h.pc = "find"
    /\ worker' = [worker EXCEPT ![w] =
          [h EXCEPT !.pc = "load_ledger",
                    !.led = [status |-> "awaiting_purchase", amz |-> NULL]]]
    /\ UNCHANGED <<orders, guard, ledger>>

(* Mutant: place_order that answers without saving the new record.         *)
FindFulfillmentUnsaved(w) ==
    LET h == worker[w] IN
    /\ h.pc = "find"
    /\ worker' = [worker EXCEPT ![w] =
          [h EXCEPT !.pc = "load_order", !.rec = Edited("approve", h.rec, NULL)]]
    /\ UNCHANGED <<orders, guard, ledger>>

(* ManualFulfiller.place_order: look the key up, answer with what is       *)
(* there, otherwise go on to enter it.                                     *)
FindFulfillment(w) ==
    LET h == worker[w] IN
    /\ h.pc = "find"
    /\ worker' = [worker EXCEPT ![w] =
          IF ledger[h.ord] # NoRow
          THEN [h EXCEPT !.pc = "load_order", !.rec = Edited("approve", h.rec, NULL)]
          ELSE [h EXCEPT !.pc = "load_ledger",
                         !.led = [status |-> "awaiting_purchase", amz |-> NULL]]]
    /\ UNCHANGED <<orders, guard, ledger>>

(* Mutant: confirm writes the order row and not the ledger.                *)
RequireFulfillmentDisplayOnly(w) ==
    LET h == worker[w] IN
    /\ h.pc = "require"
    /\ worker' = [worker EXCEPT ![w] =
          [h EXCEPT !.pc = "load_order", !.rec = Edited("confirm", h.rec, h.no)]]
    /\ UNCHANGED <<orders, guard, ledger>>

(* Mutant: the ledger is marked as bought without the Amazon number.       *)
RequireFulfillmentNoNumber(w) ==
    LET h == worker[w] IN
    /\ h.pc = "require"
    /\ worker' = [worker EXCEPT ![w] =
          IF ledger[h.ord] = NoRow
          THEN Answered(h, "not_found")
          ELSE [h EXCEPT !.pc = "load_ledger",
                         !.led = [status |-> "purchased", amz |-> NULL]]]
    /\ UNCHANGED <<orders, guard, ledger>>

(* Mutant: confirm refuses a line that is already bought, so that a        *)
(* confirm cut short between its two saves can never be completed.         *)
RequireFulfillmentOnce(w) ==
    LET h == worker[w] IN
    /\ h.pc = "require"
    /\ worker' = [worker EXCEPT ![w] =
          IF ledger[h.ord].status # "awaiting_purchase"
          THEN Answered(h, "not_found")
          ELSE [h EXCEPT !.pc = "load_ledger",
                         !.led = [status |-> "purchased", amz |-> h.no]]]
    /\ UNCHANGED <<orders, guard, ledger>>

(* ManualFulfiller.confirm_purchase: _require the row, then edit a copy.   *)
RequireFulfillment(w) ==
    LET h == worker[w] IN
    /\ h.pc = "require"
    /\ worker' = [worker EXCEPT ![w] =
          IF ledger[h.ord] = NoRow
          THEN Answered(h, "not_found")
          ELSE [h EXCEPT !.pc = "load_ledger",
                         !.led = [status |-> "purchased", amz |-> h.no]]]
    /\ UNCHANGED <<orders, guard, ledger>>

(* SqlFulfillmentLedger.save, its SELECT.                                  *)
LoadFulfillment(w) ==
    LET h == worker[w] IN
    /\ h.pc = "load_ledger"
    /\ worker' = [worker EXCEPT ![w] =
          [h EXCEPT !.pc = "save_ledger", !.seenLedger = ledger[h.ord]]]
    /\ UNCHANGED <<orders, guard, ledger>>

(* SqlFulfillmentLedger.save, its flush: the INSERT of a key that another  *)
(* thread entered meanwhile breaks the UNIQUE constraint.                  *)
InsertCollides(w) ==
    LET h == worker[w] IN
    /\ h.pc = "save_ledger"
    /\ h.seenLedger = NoRow
    /\ ledger[h.ord] # NoRow
    /\ worker' = [worker EXCEPT ![w] = Answered(h, "duplicate_key")]
    /\ UNCHANGED <<orders, guard, ledger>>

SaveFulfillment(w) ==
    LET h == worker[w]
        row == ledger[h.ord]
    IN  /\ h.pc = "save_ledger"
        /\ h.seenLedger = NoRow => row = NoRow
        /\ ledger' = [ledger EXCEPT ![h.ord] =
              [status |-> Column(row.status, h.seenLedger.status, h.led.status),
               amz    |-> Column(row.amz, h.seenLedger.amz, h.led.amz)]]
        /\ worker' = [worker EXCEPT ![w] =
              [h EXCEPT !.pc = "load_order", !.rec = Edited(h.op, h.rec, h.no),
                        !.led = NoRow, !.seenLedger = NoRow]]
        /\ UNCHANGED <<orders, guard>>

(* save() ends with its commit or with an IntegrityError.                  *)
FlushFulfillment(w) ==
    /\ worker[w].pc = "save_ledger"
    /\ SaveFulfillment(w) \/ InsertCollides(w)

(* SqlRepository.save_order: the SELECT and the UPDATE.                    *)
LoadOrder(w) ==
    LET h == worker[w] IN
    /\ h.pc = "load_order"
    /\ worker' = [worker EXCEPT ![w] =
          [h EXCEPT !.pc = "save_order", !.seenOrder = orders[h.ord]]]
    /\ UNCHANGED <<orders, guard, ledger>>

SaveOrder(w) ==
    LET h == worker[w]
        row == orders[h.ord]
    IN  /\ h.pc = "save_order"
        /\ orders' = [orders EXCEPT ![h.ord] =
              [status |-> Column(row.status, h.seenOrder.status, h.rec.status),
               fid    |-> Column(row.fid, h.seenOrder.fid, h.rec.fid),
               amz    |-> Column(row.amz, h.seenOrder.amz, h.rec.amz)]]
        /\ worker' = [worker EXCEPT ![w] = Answered(h, "ok")]
        /\ UNCHANGED <<guard, ledger>>

(* A statement raises instead (a locked or unreachable database): nothing  *)
(* is written and the route answers 500.                                   *)
DatabaseError(w) ==
    /\ worker[w].pc \notin {"idle", "reply"}
    /\ worker' = [worker EXCEPT ![w] = Answered(worker[w], "error")]
    /\ UNCHANGED <<orders, guard, ledger>>

(* The response leaves and the thread goes back to the pool.               *)
Respond(w) ==
    /\ worker[w].pc = "reply"
    /\ worker' = [worker EXCEPT ![w] = IdleHandler]
    /\ UNCHANGED <<orders, guard, ledger>>

(* The process dies and is restarted: the tables survive, the handlers do  *)
(* not, and orders are not seeded again (has_orders).                      *)
Crash ==
    /\ worker' = [w \in Workers |-> IdleHandler]
    /\ UNCHANGED <<orders, guard, ledger>>
-----------------------------------------------------------------------------
Request(w, o) ==
    \/ ApproveOrder(w, o)
    \/ \E n \in AmazonNos : ConfirmPurchase(w, o, n)
    \/ RejectOrder(w, o)

HandlerStep(w) ==
    \/ FindFulfillment(w)
    \/ RequireFulfillment(w)
    \/ LoadFulfillment(w)
    \/ FlushFulfillment(w)
    \/ LoadOrder(w)
    \/ SaveOrder(w)

Next ==
    \/ \E w \in Workers :
          \/ \E o \in Orders : Request(w, o)
          \/ HandlerStep(w)
          \/ DatabaseError(w)
          \/ Respond(w)
    \/ Crash

DeskSpec == Init /\ [][Next]_deskVars
-----------------------------------------------------------------------------
TypeOK ==
    /\ orders \in [Orders -> OrderRow]
    /\ guard \in [Orders -> GuardAction]
    /\ ledger \in [Orders -> LedgerRow]
    /\ worker \in [Workers -> Handler]

(* Referential integrity across the two tables, whatever runs at once and  *)
(* wherever the process dies: an order that carries a fulfilment id, or    *)
(* that asks the operator to go and buy, has its line in the ledger.       *)
(* approve_order saves the ledger first; a crash after it leaves the       *)
(* order pending, never an order whose confirm would answer 404.           *)
LedgerBacksOrders ==
    \A o \in Orders :
        orders[o].fid \/ orders[o].status = "awaiting_purchase" => ledger[o] # NoRow

(* The display copy never runs ahead of the ledger (store.py: the ledger   *)
(* is the source, the order row follows it): with handlers that do not     *)
(* overlap, an order shown as bought, or with an Amazon number, is bought  *)
(* in the ledger, and one that asks to be bought can be confirmed.         *)
OrdersFollowLedger ==
    \A o \in Orders :
        /\ orders[o].status = "purchased" \/ orders[o].amz # NULL
               => ledger[o].status = "purchased"
        /\ orders[o].status \in {"awaiting_purchase", "purchased"} => orders[o].fid

(* A purchase in the ledger is final: no later request turns the line back *)
(* into one that waits to be bought (fulfiller.py: the implementation must *)
(* block a second payment; models.py: an order is bought once, forever).   *)
PurchasedIsFinal ==
    [][\A o \in Orders : ledger[o].status = "purchased" => ledger'[o].status = "purchased"]_ledger

(* Asking again with the same key answers with the existing result         *)
(* (fulfiller.py) and not with an integrity error of the database.         *)
RepeatReturnsExisting == \A w \in Workers : worker[w].reply # "duplicate_key"

(* Only orders that passed the guard reach the fulfiller (manual.py).      *)
OnlyGuardedOrdersPlaced ==
    \A o \in Orders : ledger[o] # NoRow => guard[o] = "auto_order"

(* The ledger implements the abstract purchase book.                       *)
Book == INSTANCE PurchaseBook WITH book <- ledger
BookSpec == Book!Spec
=============================================================================

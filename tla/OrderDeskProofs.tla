--------------------------- MODULE OrderDeskProofs ---------------------------
(***************************************************************************)
(* Theorems about OrderDesk, for any sets of orders and numbers: types,    *)
(* LedgerBacksOrders and that the ledger forgets nothing for any number of *)
(* threads; OrdersFollowLedger, PurchasedIsFinal, RepeatReturnsExisting    *)
(* and the refinement of PurchaseBook for handlers that do not overlap.    *)
(***************************************************************************)
EXTENDS OrderDesk, TLAPS

(* The column an UPDATE leaves is one of the two values it may leave.      *)
LEMMA ColumnChoice ==
    ASSUME NEW current, NEW read, NEW new
    PROVE  Column(current, read, new) \in {current, new}
  BY DEF Column

(* A handler's edits keep the row a row.                                   *)
LEMMA EditedType ==
    ASSUME NEW op \in {"approve", "confirm", "reject"},
           NEW rec \in OrderRow, NEW no \in MaybeNo
    PROVE  Edited(op, rec, no) \in OrderRow
  BY DEF Edited, OrderRow

(* What is true of one thread in every state: its locals have their types, *)
(* and while it runs it has an order and an operation.                     *)
HandlerOK(h) ==
    /\ h \in Handler
    /\ h.pc \notin {"idle", "reply"} =>
          h.ord \in Orders /\ h.op \in {"approve", "confirm", "reject"}

DeskTyped == TypeOK /\ \A w \in Workers : HandlerOK(worker[w])

LEMMA IdleOK == HandlerOK(IdleHandler)
  BY DEF HandlerOK, IdleHandler, Handler, MaybeNo, OrderRow, LedgerRow, SeedRow, NoRow

LEMMA AnsweredOK ==
    ASSUME NEW h \in Handler,
           NEW r \in {"none", "ok", "conflict", "not_found", "duplicate_key", "error"}
    PROVE  HandlerOK(Answered(h, r))
  BY IdleOK DEF HandlerOK, Answered, Handler, IdleHandler

LEMMA HandlingOK ==
    ASSUME TypeOK, NEW op \in {"approve", "confirm", "reject"}, NEW o \in Orders,
           NEW n \in MaybeNo, NEW pc \in {"find", "require", "reply", "load_order"}
    PROVE  /\ HandlerOK(Handling(op, o, n, pc))
           /\ Handling(op, o, n, pc).ord = o
           /\ Handling(op, o, n, pc).op = op
           /\ Handling(op, o, n, pc).pc = pc
  BY IdleOK DEF HandlerOK, Handling, TypeOK, Handler, IdleHandler

(* A step of one thread keeps the types if the tables and that thread do.  *)
LEMMA ThreadStep ==
    ASSUME DeskTyped, NEW w \in Workers, NEW h, HandlerOK(h),
           worker' = [worker EXCEPT ![w] = h],
           orders' \in [Orders -> OrderRow], ledger' \in [Orders -> LedgerRow],
           UNCHANGED guard
    PROVE  DeskTyped'
  BY DEF DeskTyped, TypeOK, HandlerOK

(* The rows the two saves write are rows.                                  *)
LEMMA SavedRows ==
    ASSUME DeskTyped, NEW w \in Workers, worker[w].pc \notin {"idle", "reply"}
    PROVE  LET h == worker[w]
               l == ledger[h.ord]
               r == orders[h.ord]
           IN  /\ [status |-> Column(l.status, h.seenLedger.status, h.led.status),
                   amz    |-> Column(l.amz, h.seenLedger.amz, h.led.amz)] \in LedgerRow
               /\ [status |-> Column(r.status, h.seenOrder.status, h.rec.status),
                   fid    |-> Column(r.fid, h.seenOrder.fid, h.rec.fid),
                   amz    |-> Column(r.amz, h.seenOrder.amz, h.rec.amz)] \in OrderRow
<1> DEFINE h == worker[w]
           l == ledger[h.ord]
           r == orders[h.ord]
<1>1. /\ h \in Handler /\ l \in LedgerRow /\ r \in OrderRow
  BY DEF DeskTyped, TypeOK, HandlerOK
<1>2. /\ h.led \in LedgerRow /\ h.seenLedger \in LedgerRow
      /\ h.rec \in OrderRow /\ h.seenOrder \in OrderRow
  BY <1>1 DEF Handler
<1> HIDE DEF h, l, r
<1>3. [status |-> Column(l.status, h.seenLedger.status, h.led.status),
       amz    |-> Column(l.amz, h.seenLedger.amz, h.led.amz)] \in LedgerRow
  BY <1>1, <1>2, ColumnChoice DEF LedgerRow
<1>4. [status |-> Column(r.status, h.seenOrder.status, h.rec.status),
       fid    |-> Column(r.fid, h.seenOrder.fid, h.rec.fid),
       amz    |-> Column(r.amz, h.seenOrder.amz, h.rec.amz)] \in OrderRow
  <2>1. Column(r.status, h.seenOrder.status, h.rec.status)
            \in {"pending_approval", "awaiting_purchase", "purchased", "rejected"}
    BY <1>1, <1>2, ColumnChoice DEF OrderRow
  <2>2. Column(r.amz, h.seenOrder.amz, h.rec.amz) \in MaybeNo
    BY <1>1, <1>2, ColumnChoice DEF OrderRow
  <2>3. r.fid \in BOOLEAN /\ h.rec.fid \in BOOLEAN
    BY <1>1, <1>2 DEF OrderRow
  <2>4. Column(r.fid, h.seenOrder.fid, h.rec.fid) \in BOOLEAN
    BY <2>3, Zenon DEF Column
  <2> QED
    BY <2>1, <2>2, <2>4 DEF OrderRow
<1> QED
  BY <1>3, <1>4 DEF h, l, r

LEMMA DeskTypedInit == Init => DeskTyped
  BY IdleOK DEF Init, DeskTyped, TypeOK, NoRow, SeedRow, OrderRow, LedgerRow, MaybeNo, HandlerOK

LEMMA DeskTypedStep == DeskTyped /\ [Next]_deskVars => DeskTyped'
<1> SUFFICES ASSUME DeskTyped, [Next]_deskVars
             PROVE  DeskTyped'
  OBVIOUS
<1> USE DEF DeskTyped
<1>0. /\ orders \in [Orders -> OrderRow]
      /\ ledger \in [Orders -> LedgerRow]
      /\ NULL \in MaybeNo
      /\ \A n \in AmazonNos : n \in MaybeNo
  BY DEF TypeOK, MaybeNo
<1>1. ASSUME NEW w \in Workers, NEW o \in Orders, ApproveOrder(w, o)
      PROVE  DeskTyped'
  <2>1. HandlerOK(Handling("approve", o, NULL, "find"))
    BY <1>0, HandlingOK
  <2> QED
    BY <1>0, <1>1, <2>1, ThreadStep DEF ApproveOrder
<1>2. ASSUME NEW w \in Workers, NEW o \in Orders, NEW n \in AmazonNos, ConfirmPurchase(w, o, n)
      PROVE  DeskTyped'
  <2> DEFINE h == IF orders[o].fid
                  THEN Handling("confirm", o, n, "require")
                  ELSE Answered(Handling("confirm", o, n, "reply"), "conflict")
  <2>1. HandlerOK(Handling("confirm", o, n, "require"))
    BY <1>0, HandlingOK
  <2>2. HandlerOK(Handling("confirm", o, n, "reply"))
    BY <1>0, HandlingOK
  <2>3. HandlerOK(Answered(Handling("confirm", o, n, "reply"), "conflict"))
    BY <2>2, AnsweredOK DEF HandlerOK
  <2>4. HandlerOK(h)
    BY <2>1, <2>3
  <2> HIDE DEF h
  <2> QED
    BY <1>0, <1>2, <2>4, ThreadStep DEF ConfirmPurchase, h
<1>3. ASSUME NEW w \in Workers, NEW o \in Orders, RejectOrder(w, o)
      PROVE  DeskTyped'
  <2> DEFINE h0 == Handling("reject", o, NULL, "load_order")
             h  == [h0 EXCEPT !.rec = Edited("reject", orders[o], NULL)]
  <2>1. HandlerOK(h0)
    BY <1>0, HandlingOK
  <2>2. Edited("reject", orders[o], NULL) \in OrderRow
    BY <1>0, EditedType
  <2> HIDE DEF h0
  <2>3. HandlerOK(h)
    BY <2>1, <2>2 DEF HandlerOK, Handler
  <2> HIDE DEF h
  <2> QED
    BY <1>0, <1>3, <2>3, ThreadStep DEF RejectOrder, h, h0
<1>4. ASSUME NEW w \in Workers, FindFulfillment(w)
      PROVE  DeskTyped'
  <2> DEFINE h0 == worker[w]
             found == [h0 EXCEPT !.pc = "load_order", !.rec = Edited("approve", h0.rec, NULL)]
             fresh == [h0 EXCEPT !.pc = "load_ledger",
                                 !.led = [status |-> "awaiting_purchase", amz |-> NULL]]
  <2>1. HandlerOK(h0) /\ h0.pc = "find"
    BY <1>4 DEF FindFulfillment
  <2>2. Edited("approve", h0.rec, NULL) \in OrderRow
    BY <1>0, <2>1, EditedType DEF HandlerOK, Handler
  <2>3. HandlerOK(found)
    BY <2>1, <2>2 DEF HandlerOK, Handler
  <2>4. HandlerOK(fresh)
    BY <1>0, <2>1 DEF HandlerOK, Handler, LedgerRow
  <2>5. worker' = [worker EXCEPT ![w] = IF ledger[h0.ord] # NoRow THEN found ELSE fresh]
    BY <1>4 DEF FindFulfillment
  <2> HIDE DEF found, fresh
  <2> QED
    BY <1>0, <1>4, <2>3, <2>4, <2>5, ThreadStep DEF FindFulfillment
<1>5. ASSUME NEW w \in Workers, RequireFulfillment(w)
      PROVE  DeskTyped'
  <2> DEFINE h0 == worker[w]
             found == [h0 EXCEPT !.pc = "load_ledger",
                                 !.led = [status |-> "purchased", amz |-> h0.no]]
  <2>1. HandlerOK(h0) /\ h0.pc = "require"
    BY <1>5 DEF RequireFulfillment
  <2>2. HandlerOK(found)
    BY <2>1 DEF HandlerOK, Handler, LedgerRow
  <2>3. HandlerOK(Answered(h0, "not_found"))
    BY <2>1, AnsweredOK DEF HandlerOK
  <2>4. worker' = [worker EXCEPT ![w] = IF ledger[h0.ord] = NoRow
                                       THEN Answered(h0, "not_found") ELSE found]
    BY <1>5 DEF RequireFulfillment
  <2> HIDE DEF found
  <2> QED
    BY <1>0, <1>5, <2>2, <2>3, <2>4, ThreadStep DEF RequireFulfillment
<1>6. ASSUME NEW w \in Workers, LoadFulfillment(w)
      PROVE  DeskTyped'
  <2> DEFINE h == [worker[w] EXCEPT !.pc = "save_ledger",
                                    !.seenLedger = ledger[worker[w].ord]]
  <2>1. HandlerOK(h)
    BY <1>0, <1>6 DEF LoadFulfillment, HandlerOK, Handler
  <2> HIDE DEF h
  <2> QED
    BY <1>0, <1>6, <2>1, ThreadStep DEF LoadFulfillment, h
<1>7. ASSUME NEW w \in Workers, InsertCollides(w)
      PROVE  DeskTyped'
  <2>1. HandlerOK(Answered(worker[w], "duplicate_key"))
    BY AnsweredOK DEF HandlerOK
  <2> QED
    BY <1>0, <1>7, <2>1, ThreadStep DEF InsertCollides
<1>8. ASSUME NEW w \in Workers, SaveFulfillment(w)
      PROVE  DeskTyped'
  <2> DEFINE h0 == worker[w]
             h == [h0 EXCEPT !.pc = "load_order", !.rec = Edited(h0.op, h0.rec, h0.no),
                             !.led = NoRow, !.seenLedger = NoRow]
  <2>1. HandlerOK(h0) /\ h0.pc = "save_ledger"
    BY <1>8 DEF SaveFulfillment
  <2>2. Edited(h0.op, h0.rec, h0.no) \in OrderRow
    BY <2>1, EditedType DEF HandlerOK, Handler
  <2>3. NoRow \in LedgerRow
    BY <1>0 DEF NoRow, LedgerRow
  <2>4. HandlerOK(h)
    BY <2>1, <2>2, <2>3 DEF HandlerOK, Handler
  <2>5. ledger' \in [Orders -> LedgerRow]
    BY <1>0, <1>8, <2>1, SavedRows DEF SaveFulfillment
  <2> HIDE DEF h
  <2> QED
    BY <1>0, <1>8, <2>4, <2>5, ThreadStep DEF SaveFulfillment, h
<1>9. ASSUME NEW w \in Workers, LoadOrder(w)
      PROVE  DeskTyped'
  <2> DEFINE h == [worker[w] EXCEPT !.pc = "save_order",
                                    !.seenOrder = orders[worker[w].ord]]
  <2>1. HandlerOK(h)
    BY <1>0, <1>9 DEF LoadOrder, HandlerOK, Handler
  <2> HIDE DEF h
  <2> QED
    BY <1>0, <1>9, <2>1, ThreadStep DEF LoadOrder, h
<1>10. ASSUME NEW w \in Workers, SaveOrder(w)
       PROVE  DeskTyped'
  <2>1. worker[w].pc \notin {"idle", "reply"}
    BY <1>10 DEF SaveOrder
  <2>2. HandlerOK(Answered(worker[w], "ok"))
    BY AnsweredOK DEF HandlerOK
  <2>3. orders' \in [Orders -> OrderRow]
    BY <1>0, <1>10, <2>1, SavedRows DEF SaveOrder
  <2> QED
    BY <1>0, <1>10, <2>2, <2>3, ThreadStep DEF SaveOrder
<1>11. ASSUME NEW w \in Workers, DatabaseError(w)
       PROVE  DeskTyped'
  <2>1. HandlerOK(Answered(worker[w], "error"))
    BY AnsweredOK DEF HandlerOK
  <2> QED
    BY <1>0, <1>11, <2>1, ThreadStep DEF DatabaseError
<1>12. ASSUME NEW w \in Workers, Respond(w)
       PROVE  DeskTyped'
  BY <1>0, <1>12, IdleOK, ThreadStep DEF Respond
<1>13. CASE Crash
  BY <1>13, IdleOK DEF Crash, TypeOK, HandlerOK
<1>14. CASE UNCHANGED deskVars
  BY <1>14 DEF deskVars, TypeOK, HandlerOK
<1> QED
  BY <1>1, <1>2, <1>3, <1>4, <1>5, <1>6, <1>7, <1>8, <1>9, <1>10, <1>11, <1>12, <1>13, <1>14
     DEF Next, Request, HandlerStep, FlushFulfillment

(* Every state of the desk is well typed, for any orders and threads, and  *)
(* a running handler always has an order and an operation.                 *)
THEOREM DeskTypeCorrect == DeskSpec => []TypeOK
<1>1. DeskSpec => []DeskTyped
  BY DeskTypedInit, DeskTypedStep, PTL DEF DeskSpec
<1>2. DeskTyped => TypeOK
  BY DEF DeskTyped
<1> QED
  BY <1>1, <1>2, PTL
-----------------------------------------------------------------------------
(***************************************************************************)
(* Referential integrity, with any number of threads.  The invariant says  *)
(* that the ledger only grows, that nobody is about to blank a line, and   *)
(* that the copy of the order row a thread will write asks for no line     *)
(* that is not there yet.                                                  *)
(***************************************************************************)
NeedsLine(row) == row.fid \/ row.status = "awaiting_purchase"

BackedThread(h) ==
    h.pc \notin {"idle", "reply"} =>
        /\ NeedsLine(h.rec) => ledger[h.ord] # NoRow
        /\ h.pc \in {"load_ledger", "save_ledger"} => h.led.status # "absent"
        /\ h.pc = "save_ledger" =>
              /\ h.seenLedger.status = "absent" => h.seenLedger = NoRow
              /\ h.seenLedger # NoRow => ledger[h.ord] # NoRow

WholeLines == \A o \in Orders : ledger[o].status = "absent" => ledger[o] = NoRow

BackedInv ==
    /\ DeskTyped
    /\ WholeLines
    /\ LedgerBacksOrders
    /\ \A w \in Workers : BackedThread(worker[w])

(* A step of one thread that leaves the ledger alone.                      *)
LEMMA BackedThreadStep ==
    ASSUME BackedInv, NEW w \in Workers, NEW h,
           worker' = [worker EXCEPT ![w] = h], UNCHANGED ledger, BackedThread(h)
    PROVE  \A v \in Workers : BackedThread(worker[v])'
<1> SUFFICES ASSUME NEW v \in Workers
             PROVE  BackedThread(worker[v])'
  OBVIOUS
<1>1. worker'[v] = IF v = w THEN h ELSE worker[v]
  BY DEF BackedInv, DeskTyped, TypeOK
<1> QED
  BY <1>1 DEF BackedInv, BackedThread

LEMMA BackedInit == Init => BackedInv
  BY DeskTypedInit DEF Init, BackedInv, WholeLines, LedgerBacksOrders, BackedThread,
                       IdleHandler, NoRow, SeedRow

(* An answered or an idle thread asks for nothing.                         *)
LEMMA RestingBacked ==
    /\ BackedThread(IdleHandler)
    /\ \A h, r : BackedThread(Answered(h, r))
  BY DEF BackedThread, IdleHandler, Answered

(* The ledger flush never leaves a line blank.                             *)
LEMMA SavedLine ==
    ASSUME BackedInv, NEW w \in Workers, SaveFulfillment(w)
    PROVE  /\ \A o \in Orders : o # worker[w].ord => ledger'[o] = ledger[o]
           /\ ledger'[worker[w].ord].status # "absent"
<1> DEFINE h == worker[w]
           row == ledger[h.ord]
<1>1. /\ ledger \in [Orders -> LedgerRow] /\ h.ord \in Orders
      /\ h.pc = "save_ledger" /\ BackedThread(h)
  BY DEF SaveFulfillment, DeskTyped, TypeOK, HandlerOK, BackedInv
<1>2. Column(row.status, h.seenLedger.status, h.led.status) # "absent"
  BY <1>1 DEF Column, BackedThread, BackedInv, WholeLines
<1> QED
  BY <1>1, <1>2 DEF SaveFulfillment

LEMMA BackedStep == BackedInv /\ [Next]_deskVars => BackedInv'
<1> SUFFICES ASSUME BackedInv, [Next]_deskVars
             PROVE  BackedInv'
  OBVIOUS
<1>0. DeskTyped /\ DeskTyped'
  BY DeskTypedStep DEF BackedInv
<1> DEFINE Rest == WholeLines' /\ LedgerBacksOrders'
                   /\ \A v \in Workers : BackedThread(worker[v])'
<1>a. ASSUME UNCHANGED <<orders, ledger>>
      PROVE  WholeLines' /\ LedgerBacksOrders'
  BY <1>a DEF BackedInv, WholeLines, LedgerBacksOrders
<1>1. ASSUME NEW w \in Workers, NEW o \in Orders, ApproveOrder(w, o)
      PROVE  Rest
  <2>1. BackedThread(Handling("approve", o, NULL, "find"))
    BY DEF BackedThread, Handling, IdleHandler, BackedInv, LedgerBacksOrders, NeedsLine
  <2> QED
    BY <1>1, <1>a, <2>1, BackedThreadStep DEF ApproveOrder
<1>2. ASSUME NEW w \in Workers, NEW o \in Orders, NEW n \in AmazonNos, ConfirmPurchase(w, o, n)
      PROVE  Rest
  <2>1. BackedThread(Handling("confirm", o, n, "require"))
    BY DEF BackedThread, Handling, IdleHandler, BackedInv, LedgerBacksOrders, NeedsLine
  <2> DEFINE h == IF orders[o].fid
                  THEN Handling("confirm", o, n, "require")
                  ELSE Answered(Handling("confirm", o, n, "reply"), "conflict")
  <2>2. BackedThread(h)
    BY <2>1, RestingBacked
  <2> HIDE DEF h
  <2> QED
    BY <1>2, <1>a, <2>2, BackedThreadStep DEF ConfirmPurchase, h
<1>3. ASSUME NEW w \in Workers, NEW o \in Orders, RejectOrder(w, o)
      PROVE  Rest
  <2> DEFINE h == [Handling("reject", o, NULL, "load_order")
                      EXCEPT !.rec = Edited("reject", orders[o], NULL)]
  <2>1. orders[o] \in OrderRow
    BY <1>0 DEF DeskTyped, TypeOK
  <2>2. BackedThread(h)
    BY <2>1 DEF BackedThread, Handling, IdleHandler, Edited, OrderRow,
                BackedInv, LedgerBacksOrders, NeedsLine
  <2> HIDE DEF h
  <2> QED
    BY <1>3, <1>a, <2>2, BackedThreadStep DEF RejectOrder, h
<1>4. ASSUME NEW w \in Workers, FindFulfillment(w)
      PROVE  Rest
  <2> DEFINE h0 == worker[w]
             found == [h0 EXCEPT !.pc = "load_order", !.rec = Edited("approve", h0.rec, NULL)]
             fresh == [h0 EXCEPT !.pc = "load_ledger",
                                 !.led = [status |-> "awaiting_purchase", amz |-> NULL]]
             h == IF ledger[h0.ord] # NoRow THEN found ELSE fresh
  <2>1. h0 \in Handler /\ h0.pc = "find" /\ BackedThread(h0)
    BY <1>0, <1>4 DEF FindFulfillment, DeskTyped, HandlerOK, BackedInv
  <2>2. ledger[h0.ord] # NoRow => BackedThread(found)
    BY <2>1 DEF BackedThread, Handler
  <2>3. BackedThread(fresh)
    BY <2>1 DEF BackedThread, Handler
  <2>4. BackedThread(h)
    BY <2>2, <2>3
  <2> HIDE DEF h
  <2> QED
    BY <1>4, <1>a, <2>4, BackedThreadStep DEF FindFulfillment, h
<1>5. ASSUME NEW w \in Workers, RequireFulfillment(w)
      PROVE  Rest
  <2> DEFINE h0 == worker[w]
             found == [h0 EXCEPT !.pc = "load_ledger",
                                 !.led = [status |-> "purchased", amz |-> h0.no]]
             h == IF ledger[h0.ord] = NoRow THEN Answered(h0, "not_found") ELSE found
  <2>1. h0 \in Handler /\ h0.pc = "require" /\ BackedThread(h0)
    BY <1>0, <1>5 DEF RequireFulfillment, DeskTyped, HandlerOK, BackedInv
  <2>2. BackedThread(found)
    BY <2>1 DEF BackedThread, Handler
  <2>3. BackedThread(h)
    BY <2>2, RestingBacked
  <2> HIDE DEF h
  <2> QED
    BY <1>5, <1>a, <2>3, BackedThreadStep DEF RequireFulfillment, h
<1>6. ASSUME NEW w \in Workers, LoadFulfillment(w)
      PROVE  Rest
  <2> DEFINE h0 == worker[w]
             h == [h0 EXCEPT !.pc = "save_ledger", !.seenLedger = ledger[h0.ord]]
  <2>1. /\ h0 \in Handler /\ h0.pc = "load_ledger" /\ h0.ord \in Orders
        /\ BackedThread(h0)
    BY <1>0, <1>6 DEF LoadFulfillment, DeskTyped, HandlerOK, BackedInv
  <2>2. BackedThread(h)
    BY <2>1 DEF BackedThread, Handler, BackedInv, WholeLines
  <2> HIDE DEF h
  <2> QED
    BY <1>6, <1>a, <2>2, BackedThreadStep DEF LoadFulfillment, h
<1>7. ASSUME NEW w \in Workers, InsertCollides(w)
      PROVE  Rest
  BY <1>7, <1>a, RestingBacked, BackedThreadStep DEF InsertCollides
<1>8. ASSUME NEW w \in Workers, SaveFulfillment(w)
      PROVE  Rest
  <2> DEFINE h0 == worker[w]
             h == [h0 EXCEPT !.pc = "load_order", !.rec = Edited(h0.op, h0.rec, h0.no),
                             !.led = NoRow, !.seenLedger = NoRow]
  <2>1. h0 \in Handler /\ h0.pc = "save_ledger" /\ h0.ord \in Orders
    BY <1>0, <1>8 DEF SaveFulfillment, DeskTyped, HandlerOK
  <2>3. /\ \A o \in Orders : o # h0.ord => ledger'[o] = ledger[o]
        /\ ledger'[h0.ord].status # "absent"
    BY <1>8, SavedLine
  <2>4. \A o \in Orders : ledger[o] # NoRow => ledger'[o] # NoRow
    BY <2>1, <2>3 DEF NoRow
  <2>5. WholeLines'
    BY <2>1, <2>3 DEF WholeLines, BackedInv
  <2>6. LedgerBacksOrders'
    BY <1>8, <2>4 DEF LedgerBacksOrders, BackedInv, SaveFulfillment
  <2>7. ASSUME NEW v \in Workers
        PROVE  BackedThread(worker[v])'
    <3>1. CASE v = w
      <4>1. worker'[v] = h
        BY <1>0, <1>8, <3>1 DEF SaveFulfillment, DeskTyped, TypeOK
      <4>2. h.pc = "load_order" /\ h.ord = h0.ord
        BY <2>1 DEF Handler
      <4>3. ledger'[h0.ord] # NoRow
        BY <2>1, <2>3 DEF NoRow
      <4> HIDE DEF h, h0
      <4> QED
        BY <4>1, <4>2, <4>3 DEF BackedThread
    <3>2. CASE v # w
      <4>1. worker'[v] = worker[v]
        BY <1>0, <1>8, <3>2 DEF SaveFulfillment, DeskTyped, TypeOK
      <4>2. /\ BackedThread(worker[v])
            /\ worker[v].pc \notin {"idle", "reply"} => worker[v].ord \in Orders
        BY <1>0 DEF BackedInv, DeskTyped, HandlerOK
      <4> QED
        BY <4>1, <4>2, <2>4 DEF BackedThread
    <3> QED
      BY <3>1, <3>2
  <2> QED
    BY <2>5, <2>6, <2>7
<1>9. ASSUME NEW w \in Workers, LoadOrder(w)
      PROVE  Rest
  <2> DEFINE h0 == worker[w]
             h == [h0 EXCEPT !.pc = "save_order", !.seenOrder = orders[h0.ord]]
  <2>1. h0 \in Handler /\ h0.pc = "load_order" /\ BackedThread(h0)
    BY <1>0, <1>9 DEF LoadOrder, DeskTyped, HandlerOK, BackedInv
  <2>2. BackedThread(h)
    BY <2>1 DEF BackedThread, Handler
  <2> HIDE DEF h
  <2> QED
    BY <1>9, <1>a, <2>2, BackedThreadStep DEF LoadOrder, h
<1>10. ASSUME NEW w \in Workers, SaveOrder(w)
       PROVE  Rest
  <2> DEFINE h0 == worker[w]
             row == orders[h0.ord]
  <2>1. /\ h0.pc = "save_order" /\ h0.ord \in Orders /\ BackedThread(h0)
    BY <1>0, <1>10 DEF SaveOrder, DeskTyped, HandlerOK, BackedInv
  <2>2. \A o \in Orders : o # h0.ord => orders'[o] = orders[o]
    BY <1>0, <1>10 DEF SaveOrder, DeskTyped, TypeOK
  <2>3. /\ orders'[h0.ord].fid = Column(row.fid, h0.seenOrder.fid, h0.rec.fid)
        /\ orders'[h0.ord].status = Column(row.status, h0.seenOrder.status, h0.rec.status)
    BY <1>0, <1>10, <2>1 DEF SaveOrder, DeskTyped, TypeOK
  <2>4. NeedsLine(orders'[h0.ord]) => NeedsLine(row) \/ NeedsLine(h0.rec)
    BY <2>3 DEF NeedsLine, Column
  <2>5. NeedsLine(orders'[h0.ord]) => ledger[h0.ord] # NoRow
    BY <2>1, <2>4 DEF BackedThread, BackedInv, LedgerBacksOrders, NeedsLine
  <2>6. LedgerBacksOrders'
    BY <1>10, <2>2, <2>5 DEF LedgerBacksOrders, BackedInv, SaveOrder, NeedsLine
  <2>7. WholeLines'
    BY <1>10 DEF SaveOrder, WholeLines, BackedInv
  <2> QED
    BY <1>10, <2>6, <2>7, RestingBacked, BackedThreadStep DEF SaveOrder
<1>11. ASSUME NEW w \in Workers, DatabaseError(w)
       PROVE  Rest
  BY <1>11, <1>a, RestingBacked, BackedThreadStep DEF DatabaseError
<1>12. ASSUME NEW w \in Workers, Respond(w)
       PROVE  Rest
  BY <1>12, <1>a, RestingBacked, BackedThreadStep DEF Respond
<1>13. ASSUME Crash
       PROVE  Rest
  BY <1>13, <1>a DEF Crash, BackedThread, IdleHandler
<1>14. ASSUME UNCHANGED deskVars
       PROVE  Rest
  BY <1>14, <1>a DEF deskVars, BackedInv, BackedThread
<1> QED
  <2>1. Rest
    BY <1>1, <1>2, <1>3, <1>4, <1>5, <1>6, <1>7, <1>8, <1>9, <1>10, <1>11, <1>12, <1>13, <1>14
       DEF Next, Request, HandlerStep, FlushFulfillment
  <2> QED
    BY <2>1, <1>0 DEF BackedInv

(* However many threads, wherever the process dies: an order that carries  *)
(* a fulfilment id or asks to be bought has its line in the ledger.        *)
THEOREM LedgerAlwaysBacksOrders == DeskSpec => []LedgerBacksOrders
<1>1. DeskSpec => []BackedInv
  BY BackedInit, BackedStep, PTL DEF DeskSpec
<1>2. BackedInv => LedgerBacksOrders
  BY DEF BackedInv
<1> QED
  BY <1>1, <1>2, PTL

(* Only the ledger flush writes the ledger.                                *)
LEMMA LedgerWriter ==
    ASSUME [Next]_deskVars
    PROVE  UNCHANGED ledger \/ \E w \in Workers : SaveFulfillment(w)
  BY DEF Next, Request, HandlerStep, FlushFulfillment, ApproveOrder, ConfirmPurchase, RejectOrder,
         FindFulfillment, RequireFulfillment, LoadFulfillment, InsertCollides,
         LoadOrder, SaveOrder, DatabaseError, Respond, Crash, deskVars

LEMMA LineStays ==
    ASSUME BackedInv, [Next]_deskVars
    PROVE  \A o \in Orders : ledger[o] # NoRow => ledger'[o] # NoRow
<1>1. CASE UNCHANGED ledger
  BY <1>1
<1>2. ASSUME NEW w \in Workers, SaveFulfillment(w)
      PROVE  \A o \in Orders : ledger[o] # NoRow => ledger'[o] # NoRow
  BY <1>2, SavedLine DEF NoRow
<1> QED
  BY <1>1, <1>2, LedgerWriter

(* However many threads, crashes and errors: a line, once in the ledger,   *)
(* is never taken out (there is no delete in api/ledger_sql.py, and no     *)
(* overlap of saves amounts to one).                                       *)
THEOREM LedgerNeverForgets ==
    DeskSpec => [][\A o \in Orders : ledger[o] # NoRow => ledger'[o] # NoRow]_ledger
<1>1. BackedInv /\ [Next]_deskVars
        => [\A o \in Orders : ledger[o] # NoRow => ledger'[o] # NoRow]_ledger
  BY LineStays
<1> QED
  BY <1>1, BackedInit, BackedStep, PTL DEF DeskSpec
-----------------------------------------------------------------------------
(***************************************************************************)
(* Handlers that do not overlap, in one thread or in several: the desk     *)
(* then implements PurchaseBook, and the order rows follow the ledger.     *)
(***************************************************************************)
OneThread == \A v, w \in Workers : v = w

(* Of two threads one is idle.                                             *)
OneBusy ==
    \A v, w \in Workers : v # w => worker[v].pc = "idle" \/ worker[w].pc = "idle"

(* What OrdersFollowLedger says of one order row and its ledger line.      *)
RowFollows(row, line) ==
    /\ row.status = "purchased" \/ row.amz # NULL => line.status = "purchased"
    /\ row.status \in {"awaiting_purchase", "purchased"} => row.fid

(* The inductive invariant, for the running thread: its copy of the order  *)
(* row follows the ledger; while it is in the ledger the line is still the *)
(* one its operation found; and what a session has read is what is there.  *)
Entering(h) ==
    /\ h.op = "approve"
    /\ ledger[h.ord] = NoRow
    /\ h.led = [status |-> "awaiting_purchase", amz |-> NULL]

Recording(h) ==
    /\ h.op = "confirm"
    /\ ledger[h.ord] # NoRow
    /\ h.no \in AmazonNos
    /\ h.rec.fid
    /\ h.led = [status |-> "purchased", amz |-> h.no]

SerialThread(h) ==
    h.pc \notin {"idle", "reply"} =>
        /\ RowFollows(h.rec, ledger[h.ord])
        /\ h.pc = "find" => h.op = "approve"
        /\ h.pc = "require" => h.op = "confirm" /\ h.no \in AmazonNos /\ h.rec.fid
        /\ h.pc \in {"load_ledger", "save_ledger"} => Entering(h) \/ Recording(h)
        /\ h.pc = "save_ledger" => h.seenLedger = ledger[h.ord]
        /\ h.pc = "save_order" => h.seenOrder = orders[h.ord]

SerialInv ==
    /\ DeskTyped
    /\ OrdersFollowLedger
    /\ \A w \in Workers : SerialThread(worker[w])

LEMMA FollowsRow ==
    OrdersFollowLedger <=> \A o \in Orders : RowFollows(orders[o], ledger[o])
  BY DEF OrdersFollowLedger, RowFollows

LEMMA SerialInit == Init => SerialInv
<1> SUFFICES ASSUME Init PROVE SerialInv
  OBVIOUS
<1>1. OrdersFollowLedger
  BY DEF Init, OrdersFollowLedger, SeedRow
<1>2. \A w \in Workers : SerialThread(worker[w])
  BY DEF Init, SerialThread, IdleHandler
<1> QED
  BY <1>1, <1>2, DeskTypedInit DEF SerialInv

LEMMA RestingSerial ==
    /\ SerialThread(IdleHandler)
    /\ \A h, r : SerialThread(Answered(h, r))
  BY DEF SerialThread, IdleHandler, Answered

(* A thread takes a step that leaves the tables alone.                     *)
LEMMA SerialLocalStep ==
    ASSUME SerialInv, NEW w \in Workers, NEW h,
           worker' = [worker EXCEPT ![w] = h], UNCHANGED <<orders, ledger>>,
           SerialThread(h)
    PROVE  OrdersFollowLedger' /\ \A v \in Workers : SerialThread(worker[v])'
<1>1. \A v \in Workers : worker'[v] = IF v = w THEN h ELSE worker[v]
  BY DEF SerialInv, DeskTyped, TypeOK
<1>2. SerialThread(h)'
  BY DEF SerialThread, Entering, Recording
<1> QED
  BY <1>1, <1>2 DEF SerialInv, OrdersFollowLedger, SerialThread, Entering, Recording

(* What the ledger flush of a thread writes is what it set out to write.   *)
LEMMA SerialSave ==
    ASSUME SerialInv, NEW w \in Workers, SaveFulfillment(w)
    PROVE  /\ worker[w].ord \in Orders
           /\ ledger' = [ledger EXCEPT ![worker[w].ord] = worker[w].led]
           /\ Entering(worker[w]) \/ Recording(worker[w])
<1> DEFINE h == worker[w]
<1>1. /\ h \in Handler /\ h.ord \in Orders /\ h.pc = "save_ledger"
      /\ h.seenLedger = ledger[h.ord]
      /\ Entering(h) \/ Recording(h)
  BY DEF SaveFulfillment, SerialInv, SerialThread, DeskTyped, HandlerOK
<1>2. h.led \in LedgerRow
  BY <1>1 DEF Handler
<1>3. [status |-> Column(ledger[h.ord].status, h.seenLedger.status, h.led.status),
       amz    |-> Column(ledger[h.ord].amz, h.seenLedger.amz, h.led.amz)] = h.led
  <2>1. \A a, b : Column(a, a, b) = b
    BY DEF Column
  <2> QED
    BY <1>1, <1>2, <2>1 DEF LedgerRow
<1> QED
  BY <1>1, <1>3 DEF SaveFulfillment

(* And so for the save of the order row.                                   *)
LEMMA SerialOrderSave ==
    ASSUME SerialInv, NEW w \in Workers, SaveOrder(w)
    PROVE  /\ worker[w].ord \in Orders
           /\ orders' = [orders EXCEPT ![worker[w].ord] = worker[w].rec]
<1> DEFINE h == worker[w]
           new == [status |-> Column(orders[h.ord].status, h.seenOrder.status, h.rec.status),
                   fid    |-> Column(orders[h.ord].fid, h.seenOrder.fid, h.rec.fid),
                   amz    |-> Column(orders[h.ord].amz, h.seenOrder.amz, h.rec.amz)]
<1>1. h \in Handler /\ h.ord \in Orders /\ h.seenOrder = orders[h.ord]
  BY DEF SaveOrder, SerialInv, SerialThread, DeskTyped, HandlerOK
<1>2. h.rec \in OrderRow
  BY <1>1 DEF Handler
<1>3. new = h.rec
  <2>1. \A a, b : Column(a, a, b) = b
    BY DEF Column
  <2> QED
    BY <1>1, <1>2, <2>1 DEF OrderRow
<1> QED
  BY <1>1, <1>3 DEF SaveOrder

LEMMA SerialStep ==
    ASSUME OneBusy, SerialInv, [Next]_deskVars
    PROVE  SerialInv'
<1>0. DeskTyped /\ DeskTyped'
  BY DeskTypedStep DEF SerialInv
<1>a. \A w \in Workers : worker[w] \in Handler /\ HandlerOK(worker[w]) /\ SerialThread(worker[w])
  BY <1>0 DEF SerialInv, DeskTyped, HandlerOK
<1>b. \A o \in Orders : RowFollows(orders[o], ledger[o]) /\ orders[o] \in OrderRow
  BY <1>0, FollowsRow DEF SerialInv, DeskTyped, TypeOK
<1> DEFINE Rest == OrdersFollowLedger' /\ \A v \in Workers : SerialThread(worker[v])'
<1>1. ASSUME NEW w \in Workers, NEW o \in Orders, ApproveOrder(w, o)
      PROVE  Rest
  <2>1. SerialThread(Handling("approve", o, NULL, "find"))
    BY <1>b DEF SerialThread, Handling, IdleHandler
  <2> QED
    BY <1>1, <2>1, SerialLocalStep DEF ApproveOrder
<1>2. ASSUME NEW w \in Workers, NEW o \in Orders, NEW n \in AmazonNos, ConfirmPurchase(w, o, n)
      PROVE  Rest
  <2> DEFINE h == IF orders[o].fid
                  THEN Handling("confirm", o, n, "require")
                  ELSE Answered(Handling("confirm", o, n, "reply"), "conflict")
  <2>1. orders[o].fid => SerialThread(Handling("confirm", o, n, "require"))
    BY <1>b DEF SerialThread, Handling, IdleHandler
  <2>2. SerialThread(h)
    BY <2>1, RestingSerial
  <2> HIDE DEF h
  <2> QED
    BY <1>2, <2>2, SerialLocalStep DEF ConfirmPurchase, h
<1>3. ASSUME NEW w \in Workers, NEW o \in Orders, RejectOrder(w, o)
      PROVE  Rest
  <2> DEFINE h == [Handling("reject", o, NULL, "load_order")
                      EXCEPT !.rec = Edited("reject", orders[o], NULL)]
  <2>1. SerialThread(h)
    BY <1>b DEF SerialThread, Handling, IdleHandler, Edited, OrderRow, RowFollows
  <2> HIDE DEF h
  <2> QED
    BY <1>3, <2>1, SerialLocalStep DEF RejectOrder, h
<1>4. ASSUME NEW w \in Workers, FindFulfillment(w)
      PROVE  Rest
  <2> DEFINE h0 == worker[w]
             found == [h0 EXCEPT !.pc = "load_order", !.rec = Edited("approve", h0.rec, NULL)]
             fresh == [h0 EXCEPT !.pc = "load_ledger",
                                 !.led = [status |-> "awaiting_purchase", amz |-> NULL]]
             h == IF ledger[h0.ord] # NoRow THEN found ELSE fresh
  <2>1. h0 \in Handler /\ h0.pc = "find" /\ SerialThread(h0)
    BY <1>a, <1>4 DEF FindFulfillment
  <2>2. SerialThread(found)
    <3>1. RowFollows(Edited("approve", h0.rec, NULL), ledger[h0.ord])
      BY <2>1 DEF SerialThread, RowFollows, Edited, Handler, OrderRow
    <3>2. /\ found.pc = "load_order" /\ found.ord = h0.ord
          /\ found.rec = Edited("approve", h0.rec, NULL)
      BY <2>1 DEF Handler
    <3> HIDE DEF found
    <3> QED
      BY <3>1, <3>2 DEF SerialThread
  <2>3. ledger[h0.ord] = NoRow => SerialThread(fresh)
    BY <2>1 DEF SerialThread, Handler, Entering
  <2>4. SerialThread(h)
    BY <2>2, <2>3
  <2> HIDE DEF h
  <2> QED
    BY <1>4, <2>4, SerialLocalStep DEF FindFulfillment, h
<1>5. ASSUME NEW w \in Workers, RequireFulfillment(w)
      PROVE  Rest
  <2> DEFINE h0 == worker[w]
             found == [h0 EXCEPT !.pc = "load_ledger",
                                 !.led = [status |-> "purchased", amz |-> h0.no]]
             h == IF ledger[h0.ord] = NoRow THEN Answered(h0, "not_found") ELSE found
  <2>1. h0 \in Handler /\ h0.pc = "require" /\ SerialThread(h0)
    BY <1>a, <1>5 DEF RequireFulfillment
  <2>2. ledger[h0.ord] # NoRow => SerialThread(found)
    BY <2>1 DEF SerialThread, Handler, Recording
  <2>3. SerialThread(h)
    BY <2>2, RestingSerial
  <2> HIDE DEF h
  <2> QED
    BY <1>5, <2>3, SerialLocalStep DEF RequireFulfillment, h
<1>6. ASSUME NEW w \in Workers, LoadFulfillment(w)
      PROVE  Rest
  <2> DEFINE h0 == worker[w]
             h == [h0 EXCEPT !.pc = "save_ledger", !.seenLedger = ledger[h0.ord]]
  <2>1. h0 \in Handler /\ h0.pc = "load_ledger" /\ SerialThread(h0)
    BY <1>a, <1>6 DEF LoadFulfillment
  <2>2. SerialThread(h)
    BY <2>1 DEF SerialThread, Handler, Entering, Recording
  <2> HIDE DEF h
  <2> QED
    BY <1>6, <2>2, SerialLocalStep DEF LoadFulfillment, h
<1>7. ASSUME NEW w \in Workers, InsertCollides(w)
      PROVE  Rest
  BY <1>7, RestingSerial, SerialLocalStep DEF InsertCollides
<1>8. ASSUME NEW w \in Workers, SaveFulfillment(w)
      PROVE  Rest
  <2> DEFINE h0 == worker[w]
             h == [h0 EXCEPT !.pc = "load_order", !.rec = Edited(h0.op, h0.rec, h0.no),
                             !.led = NoRow, !.seenLedger = NoRow]
  <2>1. /\ h0 \in Handler /\ h0.ord \in Orders /\ h0.pc = "save_ledger" /\ SerialThread(h0)
        /\ Entering(h0) \/ Recording(h0)
        /\ ledger' = [ledger EXCEPT ![h0.ord] = h0.led]
    BY <1>a, <1>8, SerialSave DEF SaveFulfillment
  <2>2. \A o \in Orders : ledger'[o] = IF o = h0.ord THEN h0.led ELSE ledger[o]
    BY <1>0, <2>1 DEF DeskTyped, TypeOK
  <2>3. h0.rec \in OrderRow /\ NoRow.status # "purchased"
    BY <2>1 DEF Handler, NoRow
  <2>4. RowFollows(Edited(h0.op, h0.rec, h0.no), h0.led)
    <3>1. CASE Entering(h0)
      BY <2>1, <2>3, <3>1 DEF Entering, SerialThread, RowFollows, Edited, OrderRow
    <3>2. CASE Recording(h0)
      <4>1. h0.op = "confirm" /\ h0.rec.fid /\ h0.led.status = "purchased"
        BY <3>2 DEF Recording
      <4>2. Edited(h0.op, h0.rec, h0.no).fid = h0.rec.fid
        BY <2>3, <4>1 DEF Edited, OrderRow
      <4> QED
        BY <4>1, <4>2 DEF RowFollows
    <3> QED
      BY <2>1, <3>1, <3>2
  <2>5. OrdersFollowLedger'
    <3>1. RowFollows(orders[h0.ord], h0.led)
      BY <1>b, <2>1, <2>3 DEF RowFollows, Entering, Recording
    <3>2. \A o \in Orders : RowFollows(orders[o], ledger'[o])
      BY <1>b, <2>2, <3>1
    <3> QED
      BY <1>8, <3>2 DEF SaveFulfillment, OrdersFollowLedger, RowFollows
  <2>6. ASSUME NEW v \in Workers
        PROVE  SerialThread(worker[v])'
    <3>0. CASE v # w
      <4>1. worker'[v] = worker[v] /\ worker[v].pc = "idle"
        BY <1>0, <1>8, <2>1, <3>0 DEF SaveFulfillment, DeskTyped, TypeOK, OneBusy
      <4> QED
        BY <4>1 DEF SerialThread
    <3>1. v = w => worker'[v] = h
      BY <1>0, <1>8 DEF SaveFulfillment, DeskTyped, TypeOK
    <3>2. /\ h.pc = "load_order" /\ h.ord = h0.ord
          /\ h.rec = Edited(h0.op, h0.rec, h0.no)
      BY <2>1 DEF Handler
    <3>3. ledger'[h0.ord] = h0.led
      BY <2>1, <2>2
    <3> HIDE DEF h
    <3> QED
      BY <2>4, <3>0, <3>1, <3>2, <3>3 DEF SerialThread, RowFollows
  <2> QED
    BY <2>5, <2>6
<1>9. ASSUME NEW w \in Workers, LoadOrder(w)
      PROVE  Rest
  <2> DEFINE h0 == worker[w]
             h == [h0 EXCEPT !.pc = "save_order", !.seenOrder = orders[h0.ord]]
  <2>1. h0 \in Handler /\ h0.pc = "load_order" /\ SerialThread(h0)
    BY <1>a, <1>9 DEF LoadOrder
  <2>2. SerialThread(h)
    BY <2>1 DEF SerialThread, Handler
  <2> HIDE DEF h
  <2> QED
    BY <1>9, <2>2, SerialLocalStep DEF LoadOrder, h
<1>10. ASSUME NEW w \in Workers, SaveOrder(w)
       PROVE  Rest
  <2> DEFINE h0 == worker[w]
  <2>1. /\ h0.ord \in Orders /\ h0.pc = "save_order" /\ RowFollows(h0.rec, ledger[h0.ord])
    BY <1>a, <1>10 DEF SaveOrder, HandlerOK, SerialThread
  <2>2. orders' = [orders EXCEPT ![h0.ord] = h0.rec]
    BY <1>10, SerialOrderSave
  <2>3. \A o \in Orders : orders'[o] = IF o = h0.ord THEN h0.rec ELSE orders[o]
    BY <1>0, <2>1, <2>2 DEF DeskTyped, TypeOK
  <2>4. OrdersFollowLedger'
    <3>1. \A o \in Orders : RowFollows(orders'[o], ledger[o])
      BY <1>b, <2>1, <2>3
    <3> QED
      BY <1>10, <3>1 DEF SaveOrder, OrdersFollowLedger, RowFollows
  <2>5. \A v \in Workers : \/ worker'[v] = Answered(h0, "ok")
                           \/ worker'[v] = worker[v] /\ worker[v].pc = "idle"
    <3>1. worker \in [Workers -> Handler]
      BY <1>0 DEF DeskTyped, TypeOK
    <3>2. worker' = [worker EXCEPT ![w] = Answered(h0, "ok")]
      BY <1>10 DEF SaveOrder
    <3>3. \A v \in Workers : v # w => worker[v].pc = "idle"
      BY <2>1 DEF OneBusy
    <3> HIDE DEF h0
    <3>4. \A v \in Workers : worker'[v] = IF v = w THEN Answered(h0, "ok") ELSE worker[v]
      BY <3>1, <3>2
    <3> QED
      BY <3>3, <3>4
  <2>6. Answered(h0, "ok").pc = "reply"
    BY DEF Answered, IdleHandler
  <2>7. \A v \in Workers : SerialThread(worker[v])'
    BY <2>5, <2>6 DEF SerialThread
  <2> QED
    BY <2>4, <2>7
<1>11. ASSUME NEW w \in Workers, DatabaseError(w)
       PROVE  Rest
  BY <1>11, RestingSerial, SerialLocalStep DEF DatabaseError
<1>12. ASSUME NEW w \in Workers, Respond(w)
       PROVE  Rest
  BY <1>12, RestingSerial, SerialLocalStep DEF Respond
<1>13. ASSUME Crash
       PROVE  Rest
  BY <1>13 DEF Crash, SerialInv, OrdersFollowLedger, SerialThread, IdleHandler
<1>14. ASSUME UNCHANGED deskVars
       PROVE  Rest
  BY <1>14 DEF deskVars, SerialInv, OrdersFollowLedger, SerialThread, Entering, Recording
<1>15. Rest
  BY <1>1, <1>2, <1>3, <1>4, <1>5, <1>6, <1>7, <1>8, <1>9, <1>10, <1>11, <1>12, <1>13, <1>14
     DEF Next, Request, HandlerStep, FlushFulfillment
<1> QED
  BY <1>0, <1>15 DEF SerialInv

(* With one handler at a time the order rows never run ahead of the        *)
(* ledger, whatever the requests and wherever a crash or an error falls.   *)
THEOREM SerialOrdersFollowLedger ==
    ASSUME OneThread
    PROVE  DeskSpec => []OrdersFollowLedger
<1>1. Init => SerialInv
  BY SerialInit
<1>2. SerialInv /\ [Next]_deskVars => SerialInv'
  BY SerialStep DEF OneThread, OneBusy
<1>3. SerialInv => OrdersFollowLedger
  BY DEF SerialInv
<1> QED
  BY <1>1, <1>2, <1>3, PTL DEF DeskSpec

(* The ledger flush places or records.                                     *)
LEMMA SerialBookStep ==
    ASSUME SerialInv, [Next]_deskVars, ledger' # ledger
    PROVE  Book!Next
<1>1. PICK w \in Workers : SaveFulfillment(w)
  BY LedgerWriter
<1> DEFINE h == worker[w]
<1>2. /\ h.ord \in Orders
      /\ ledger' = [ledger EXCEPT ![h.ord] = h.led]
      /\ Entering(h) \/ Recording(h)
  BY <1>1, SerialSave
<1>3. CASE Entering(h)
  BY <1>2, <1>3 DEF Entering, Book!Next, Book!Place, Book!Absent, NoRow
<1>4. CASE Recording(h)
  BY <1>2, <1>4 DEF Recording, Book!Next, Book!Record, Book!Absent, NoRow
<1> QED
  BY <1>2, <1>3, <1>4

LEMMA BookInit == Init => Book!Init
  BY DEF Init, Book!Init, Book!Absent, NoRow

(* With one handler at a time the ledger is a purchase book: every line is *)
(* entered once, its purchase recorded, and nothing ever taken back.       *)
THEOREM SerialLedgerIsPurchaseBook ==
    ASSUME OneThread
    PROVE  DeskSpec => BookSpec
<1>1. Init => SerialInv
  BY SerialInit
<1>2. SerialInv /\ [Next]_deskVars => SerialInv'
  BY SerialStep DEF OneThread, OneBusy
<1>3. SerialInv /\ [Next]_deskVars => [Book!Next]_ledger
  BY SerialBookStep
<1> QED
  BY <1>1, <1>2, <1>3, BookInit, PTL DEF DeskSpec, BookSpec, Book!Spec

(* A line the ledger flush writes over is not yet bought, or is bought     *)
(* afterwards.                                                             *)
LEMMA SerialFinalStep ==
    ASSUME SerialInv, [Next]_deskVars, ledger' # ledger
    PROVE  \A o \in Orders : ledger[o].status = "purchased" => ledger'[o].status = "purchased"
<1>1. PICK w \in Workers : SaveFulfillment(w)
  BY LedgerWriter
<1> DEFINE h == worker[w]
<1>2. /\ \A o \in Orders : ledger'[o] = IF o = h.ord THEN h.led ELSE ledger[o]
      /\ Entering(h) \/ Recording(h)
  BY <1>1, SerialSave DEF SerialInv, DeskTyped, TypeOK
<1>3. ledger[h.ord].status = "purchased" => h.led.status = "purchased"
  BY <1>2 DEF Entering, Recording, NoRow
<1> QED
  BY <1>2, <1>3

(* With one handler at a time a purchase in the ledger is final: the       *)
(* promise of fulfiller.py that two overlapping saves break.               *)
THEOREM SerialPurchasedIsFinal ==
    ASSUME OneThread
    PROVE  DeskSpec => PurchasedIsFinal
<1>1. Init => SerialInv
  BY SerialInit
<1>2. SerialInv /\ [Next]_deskVars => SerialInv'
  BY SerialStep DEF OneThread, OneBusy
<1>3. SerialInv /\ [Next]_deskVars
        => [\A o \in Orders : ledger[o].status = "purchased"
                               => ledger'[o].status = "purchased"]_ledger
  BY SerialFinalStep
<1> QED
  BY <1>1, <1>2, <1>3, PTL DEF DeskSpec, PurchasedIsFinal

(* The key a serial handler did not find is still free when it is entered. *)
LEMMA SerialRepeatStep ==
    ASSUME SerialInv, RepeatReturnsExisting, [Next]_deskVars
    PROVE  RepeatReturnsExisting'
<1> DEFINE Plain == \A w \in Workers : worker'[w].reply # "duplicate_key"
<1>a. /\ worker \in [Workers -> Handler]
      /\ \A w \in Workers : worker[w].reply # "duplicate_key"
  BY DEF SerialInv, DeskTyped, TypeOK, RepeatReturnsExisting
<1>b. /\ IdleHandler.reply = "none"
      /\ \A h, r : Answered(h, r).reply = r
      /\ \A op, o, n, pc : Handling(op, o, n, pc).reply = "none"
  BY DEF IdleHandler, Answered, Handling
<1>1. ASSUME NEW w \in Workers, NEW o \in Orders, Request(w, o)
      PROVE  Plain
  <2>1. ASSUME NEW h, h.reply # "duplicate_key", worker' = [worker EXCEPT ![w] = h]
        PROVE  Plain
    BY <1>a, <2>1
  <2>2. CASE ApproveOrder(w, o)
    BY <1>b, <2>1, <2>2 DEF ApproveOrder
  <2>3. ASSUME NEW n \in AmazonNos, ConfirmPurchase(w, o, n)
        PROVE  Plain
    BY <1>a, <1>b, <2>3 DEF ConfirmPurchase
  <2>4. CASE RejectOrder(w, o)
    BY <1>a, <2>4 DEF RejectOrder, Handling, IdleHandler
  <2> QED
    BY <1>1, <2>2, <2>3, <2>4 DEF Request
<1>2. ASSUME NEW w \in Workers, HandlerStep(w)
      PROVE  Plain
  <2>1. CASE FindFulfillment(w)
    BY <1>a, <2>1 DEF FindFulfillment, Handler
  <2>2. CASE RequireFulfillment(w)
    BY <1>a, <1>b, <2>2 DEF RequireFulfillment, Handler
  <2>3. CASE LoadFulfillment(w)
    BY <1>a, <2>3 DEF LoadFulfillment, Handler
  <2>4. ASSUME InsertCollides(w)
        PROVE  FALSE
    BY <2>4 DEF InsertCollides, SerialInv, SerialThread
  <2>5. CASE SaveFulfillment(w)
    BY <1>a, <2>5 DEF SaveFulfillment, Handler
  <2>6. CASE LoadOrder(w)
    BY <1>a, <2>6 DEF LoadOrder, Handler
  <2>7. CASE SaveOrder(w)
    BY <1>a, <1>b, <2>7 DEF SaveOrder
  <2> QED
    BY <1>2, <2>1, <2>2, <2>3, <2>4, <2>5, <2>6, <2>7 DEF HandlerStep, FlushFulfillment
<1>3. ASSUME NEW w \in Workers, DatabaseError(w) \/ Respond(w)
      PROVE  Plain
  BY <1>3, <1>a, <1>b DEF DatabaseError, Respond
<1>4. ASSUME Crash \/ UNCHANGED deskVars
      PROVE  Plain
  BY <1>4, <1>a, <1>b DEF Crash, deskVars
<1> QED
  BY <1>1, <1>2, <1>3, <1>4 DEF Next, RepeatReturnsExisting

(* With one handler at a time a repeated approval is answered with the     *)
(* line that is there and never with the database's integrity error.       *)
THEOREM SerialRepeatReturnsExisting ==
    ASSUME OneThread
    PROVE  DeskSpec => []RepeatReturnsExisting
<1> DEFINE Inv == SerialInv /\ RepeatReturnsExisting
<1>1. Init => Inv
  BY SerialInit DEF Init, RepeatReturnsExisting, IdleHandler
<1>2. Inv /\ [Next]_deskVars => Inv'
  BY SerialStep, SerialRepeatStep DEF OneThread, OneBusy
<1>3. Inv => RepeatReturnsExisting
  OBVIOUS
<1> HIDE DEF Inv
<1> QED
  BY <1>1, <1>2, <1>3, PTL DEF DeskSpec
=============================================================================

-------------------------- MODULE AdminConsoleProofs --------------------------
(***************************************************************************)
(* Theorems about AdminConsole, for any sets of orders, threads and        *)
(* numbers and any number of faults.  With any number of tabs: types, the  *)
(* desk below never sees anything it does not specify, and MoneyTrail.     *)
(* With one tab and no abandoned requests: nothing that is paid for is     *)
(* lost or paid for twice, and the tab serialises the desk, so that the    *)
(* ledger is a purchase book whatever the size of the thread pool.         *)
(***************************************************************************)
EXTENDS AdminConsole, OrderDeskProofs, FiniteSetTheorems

(* What a request that has left its tab is about.                          *)
RequestOK(r) ==
    r.mode # "ready" =>
        /\ r.ord \in Orders
        /\ r.op \in {"approve", "confirm", "reject"}
        /\ r.op = "confirm" => r.no \in AmazonNos

ConsoleTyped ==
    /\ DeskTyped
    /\ ConsoleTypeOK
    /\ \A t \in Tabs : RequestOK(tab[t])

TabState == [mode: {"ready", "sent", "running"},
             op: {"none", "approve", "confirm", "reject"},
             ord: Orders \cup {NULL}, no: MaybeNo,
             thread: Workers \cup {NULL}]

(* The page does to the desk only what the desk allows anybody to do.      *)
LEMMA ConsoleIsDeskStep ==
    ASSUME ConsoleTyped, [ConsoleNext]_vars
    PROVE  [Next]_deskVars
<1>1. ASSUME NEW t \in Tabs, NEW w \in Workers, Begin(t, w)
      PROVE  [Next]_deskVars
  <2>1. /\ tab[t].ord \in Orders
        /\ tab[t].op = "confirm" => tab[t].no \in AmazonNos
    BY <1>1 DEF Begin, ConsoleTyped, RequestOK
  <2>2. Request(w, tab[t].ord)
    BY <1>1, <2>1 DEF Begin, Request
  <2> QED
    BY <2>1, <2>2 DEF Next
<1>2. ASSUME NEW t \in Tabs, Operator(t) \/ GiveUp(t)
      PROVE  UNCHANGED deskVars
  BY <1>2 DEF Operator, GiveUp, Reload, ClickApprove, ClickReject, ClickConfirm, Send, Buy
<1>3. ASSUME NEW t \in Tabs, Answer(t)
      PROVE  [Next]_deskVars
  <2> DEFINE w == tab[t].thread
  <2>1. Respond(w) /\ w \in Workers \cup {NULL}
    BY <1>3 DEF Answer, ConsoleTyped, ConsoleTypeOK
  <2>2. CASE w \in Workers
    BY <2>1, <2>2 DEF Next
  <2>3. CASE w \notin Workers
    <3>1. worker' = worker
      BY <2>1, <2>3 DEF Respond, ConsoleTyped, DeskTyped, TypeOK
    <3> QED
      BY <2>1, <3>1 DEF Respond, deskVars
  <2> QED
    BY <2>2, <2>3
<1>4. ASSUME NEW w \in Workers, Handle(w) \/ Discard(w) \/ Fail(w)
      PROVE  [Next]_deskVars
  BY <1>4 DEF Handle, Discard, Fail, Next
<1>5. ASSUME ServerCrash
      PROVE  [Next]_deskVars
  BY <1>5 DEF ServerCrash, Next
<1>6. ASSUME UNCHANGED vars
      PROVE  [Next]_deskVars
  BY <1>6 DEF vars
<1> QED
  BY <1>1, <1>2, <1>3, <1>4, <1>5, <1>6 DEF ConsoleNext

LEMMA ConsoleTypedInit == ConsoleInit => ConsoleTyped
<1> SUFFICES ASSUME ConsoleInit PROVE ConsoleTyped
  OBVIOUS
<1>1. DeskTyped
  BY DeskTypedInit DEF ConsoleInit
<1>2. Shown \in [Orders -> Status]
  BY <1>1 DEF DeskTyped, TypeOK, OrderRow, Shown, Status
<1>3. Ready \in TabState /\ RequestOK(Ready)
  BY DEF Ready, TabState, MaybeNo, RequestOK
<1>4. faults \in 0..MaxFaults
  BY ConsoleAssumption DEF ConsoleInit
<1> QED
  BY <1>1, <1>2, <1>3, <1>4
     DEF ConsoleInit, ConsoleTyped, ConsoleTypeOK, DeskTyped, TabState, MaybeNo

(* Loading a page keeps the types of what it touches.                      *)
LEMMA LoadTyped ==
    ASSUME ConsoleTyped, NEW t \in Tabs, Load(t)
    PROVE  /\ view' \in [Tabs -> [Orders -> Status]]
           /\ receipt' \in [Orders -> MaybeNo]
<1>1. Shown \in [Orders -> Status]
  BY DEF ConsoleTyped, DeskTyped, TypeOK, OrderRow, Shown, Status
<1> QED
  BY <1>1 DEF Load, ConsoleTyped, ConsoleTypeOK, MaybeNo

LEMMA ConsoleTypedStep == ConsoleTyped /\ [ConsoleNext]_vars => ConsoleTyped'
<1> SUFFICES ASSUME ConsoleTyped, [ConsoleNext]_vars PROVE ConsoleTyped'
  OBVIOUS
<1>0. DeskTyped'
  BY ConsoleIsDeskStep, DeskTypedStep DEF ConsoleTyped
<1> DEFINE Rest ==
      /\ view' \in [Tabs -> [Orders -> Status]]
      /\ tab' \in [Tabs -> TabState]
      /\ receipt' \in [Orders -> MaybeNo]
      /\ paid' \in [Orders -> SUBSET AmazonNos]
      /\ faults' \in 0..MaxFaults
      /\ \A t \in Tabs : RequestOK(tab'[t])
<1>a. /\ view \in [Tabs -> [Orders -> Status]]
      /\ tab \in [Tabs -> TabState]
      /\ receipt \in [Orders -> MaybeNo]
      /\ paid \in [Orders -> SUBSET AmazonNos]
      /\ faults \in 0..MaxFaults
      /\ \A t \in Tabs : RequestOK(tab[t])
  BY DEF ConsoleTyped, ConsoleTypeOK, TabState
<1>b. Ready \in TabState /\ RequestOK(Ready)
  BY DEF Ready, TabState, MaybeNo, RequestOK
<1>c. Fault => faults' \in 0..MaxFaults
  BY <1>a, ConsoleAssumption DEF Fault
<1>1. ASSUME NEW t \in Tabs, Reload(t)
      PROVE  Rest
  BY <1>1, <1>a, LoadTyped DEF Reload
<1>2. ASSUME NEW t \in Tabs, NEW o \in Orders, NEW n \in MaybeNo,
             NEW op \in {"approve", "confirm", "reject"}, op = "confirm" => n \in AmazonNos,
             Send(t, op, o, n)
      PROVE  Rest
  <2> DEFINE r == [mode |-> "sent", op |-> op, ord |-> o, no |-> n, thread |-> NULL]
  <2>1. r \in TabState /\ RequestOK(r)
    BY <1>2 DEF TabState, RequestOK
  <2>2. tab' = [tab EXCEPT ![t] = r]
    BY <1>2 DEF Send
  <2> HIDE DEF r
  <2> QED
    BY <1>2, <1>a, <2>1, <2>2 DEF Send
<1>3. ASSUME NEW t \in Tabs, NEW o \in Orders, ClickApprove(t, o) \/ ClickReject(t, o)
      PROVE  Rest
  BY <1>2, <1>3 DEF ClickApprove, ClickReject, MaybeNo
<1>4. ASSUME NEW t \in Tabs, NEW o \in Orders, ClickConfirm(t, o)
      PROVE  Rest
  BY <1>2, <1>4, <1>a DEF ClickConfirm, MaybeNo
<1>5. ASSUME NEW t \in Tabs, NEW o \in Orders, NEW n \in AmazonNos, Buy(t, o, n)
      PROVE  Rest
  <2>1. Shown \in [Orders -> Status]
    BY DEF ConsoleTyped, DeskTyped, TypeOK, OrderRow, Shown, Status
  <2> QED
    BY <1>5, <1>a, <2>1 DEF Buy, MaybeNo
<1>6. ASSUME NEW t \in Tabs, NEW w \in Workers, Begin(t, w)
      PROVE  Rest
  <2>1. tab' = [tab EXCEPT ![t] = [tab[t] EXCEPT !.mode = "running", !.thread = w]]
    BY <1>6, <1>a DEF Begin, TabState
  <2>2. tab[t] \in TabState /\ RequestOK(tab[t]) /\ tab[t].mode = "sent"
    BY <1>6, <1>a DEF Begin
  <2> DEFINE r == [tab[t] EXCEPT !.mode = "running", !.thread = w]
  <2>3. r \in TabState /\ RequestOK(r)
    BY <2>2 DEF TabState, RequestOK
  <2> HIDE DEF r
  <2> QED
    BY <1>6, <1>a, <2>1, <2>3 DEF Begin, r
<1>7. ASSUME NEW w \in Workers, Handle(w) \/ Discard(w)
      PROVE  Rest
  BY <1>7, <1>a DEF Handle, Discard, consoleVars
<1>8. ASSUME NEW t \in Tabs, Answer(t)
      PROVE  Rest
  <2>1. Load(t) \/ UNCHANGED <<view, receipt>>
    BY <1>8 DEF Answer
  <2> QED
    BY <1>8, <1>a, <1>b, <2>1, LoadTyped DEF Answer
<1>9. ASSUME NEW w \in Workers, Fail(w)
      PROVE  Rest
  BY <1>9, <1>a, <1>c DEF Fail
<1>10. ASSUME NEW t \in Tabs, GiveUp(t)
       PROVE  Rest
  BY <1>10, <1>a, <1>b, <1>c DEF GiveUp
<1>11. ASSUME ServerCrash
       PROVE  Rest
  BY <1>11, <1>a, <1>b, <1>c DEF ServerCrash
<1>12. ASSUME UNCHANGED vars
       PROVE  Rest
  BY <1>12, <1>a DEF vars, consoleVars
<1>13. Rest
  BY <1>1, <1>3, <1>4, <1>5, <1>6, <1>7, <1>8, <1>9, <1>10, <1>11, <1>12
     DEF ConsoleNext, Operator
<1> QED
  BY <1>0, <1>13 DEF ConsoleTyped, ConsoleTypeOK, DeskTyped, TabState

(* Every state of the console is well typed.                               *)
THEOREM ConsoleTypeCorrect == ConsoleSpec => []ConsoleTypeOK
<1>1. ConsoleTyped => ConsoleTypeOK
  BY DEF ConsoleTyped
<1> QED
  BY <1>1, ConsoleTypedInit, ConsoleTypedStep, PTL DEF ConsoleSpec

(* The console implements the desk: what is proved of the handlers for     *)
(* arbitrary clients holds under the page, its faults included.            *)
THEOREM ConsoleImplementsDesk == ConsoleSpec => DeskSpec
<1>1. ConsoleInit => Init
  BY DEF ConsoleInit
<1>2. ConsoleTyped /\ [ConsoleNext]_vars => [Next]_deskVars
  BY ConsoleIsDeskStep
<1> QED
  BY <1>1, <1>2, ConsoleTypedInit, ConsoleTypedStep, PTL DEF ConsoleSpec, DeskSpec
-----------------------------------------------------------------------------
(***************************************************************************)
(* MoneyTrail, whatever overlaps.  The invariant follows a number from the *)
(* receipt into the request, into the handler's copies of the two rows and *)
(* into the tables; the line it needs is there by LedgerBacksOrders when   *)
(* the operator pays, and stays by LineStays.                              *)
(***************************************************************************)

(* A number that may be written down for o: none, or one paid for it.      *)
Given(o) == paid[o] \cup {NULL}

ThreadGiven(h) ==
    h.pc \notin {"idle", "reply"} => {h.no, h.rec.amz, h.led.amz} \subseteq Given(h.ord)

NumbersInHand ==
    /\ \A o \in Orders : receipt[o] \in Given(o)
    /\ \A t \in Tabs : tab[t].mode # "ready" => tab[t].no \in Given(tab[t].ord)

MoneyInv ==
    /\ ConsoleTyped
    /\ BackedInv
    /\ MoneyTrail
    /\ NumbersInHand
    /\ \A w \in Workers : ThreadGiven(worker[w])

LEMMA RestingGiven ==
    /\ ThreadGiven(IdleHandler)
    /\ \A h, r : ThreadGiven(Answered(h, r))
  BY DEF ThreadGiven, IdleHandler, Answered

(* The numbers a handler's edits put into its copy of the order row.       *)
LEMMA EditedGiven ==
    ASSUME NEW op \in {"approve", "confirm", "reject"},
           NEW rec \in OrderRow, NEW no
    PROVE  Edited(op, rec, no).amz \in {rec.amz, no}
  BY DEF Edited, OrderRow

(* A thread takes a step that leaves the tables alone.                     *)
LEMMA GivenLocalStep ==
    ASSUME MoneyInv, UNCHANGED paid, NEW w \in Workers, NEW h,
           worker' = [worker EXCEPT ![w] = h], UNCHANGED <<orders, ledger>>,
           ThreadGiven(h)
    PROVE  MoneyTrail' /\ \A v \in Workers : ThreadGiven(worker[v])'
<1>1. \A v \in Workers : worker'[v] = IF v = w THEN h ELSE worker[v]
  BY DEF MoneyInv, BackedInv, DeskTyped, TypeOK
<1> QED
  BY <1>1 DEF MoneyInv, MoneyTrail, ThreadGiven, Given

(* A step of the desk whose requests carry numbers paid for their order.   *)
GivenRequest(w, o) ==
    \/ ApproveOrder(w, o)
    \/ \E n \in AmazonNos : n \in Given(o) /\ ConfirmPurchase(w, o, n)
    \/ RejectOrder(w, o)

GivenNext ==
    \/ \E w \in Workers :
          \/ \E o \in Orders : GivenRequest(w, o)
          \/ HandlerStep(w)
          \/ DatabaseError(w)
          \/ Respond(w)
    \/ Crash

LEMMA GivenDeskStep ==
    ASSUME MoneyInv, UNCHANGED paid, [GivenNext]_deskVars
    PROVE  MoneyTrail' /\ \A v \in Workers : ThreadGiven(worker[v])'
<1> DEFINE Rest == MoneyTrail' /\ \A v \in Workers : ThreadGiven(worker[v])'
<1>n. [Next]_deskVars
  BY DEF GivenNext, GivenRequest, Next, Request
<1>0. DeskTyped /\ DeskTyped'
  BY <1>n, DeskTypedStep DEF MoneyInv, BackedInv
<1>a. /\ \A w \in Workers : worker[w] \in Handler /\ HandlerOK(worker[w]) /\ ThreadGiven(worker[w])
      /\ \A o \in Orders : /\ orders[o] \in OrderRow
                          /\ {ledger[o].amz, orders[o].amz} \subseteq Given(o)
      /\ \A o : NULL \in Given(o)
  BY <1>0 DEF MoneyInv, MoneyTrail, Given, DeskTyped, TypeOK, HandlerOK
<1>b. \A o \in Orders : paid'[o] # {} => ledger'[o] # NoRow
  BY <1>n, LineStays DEF MoneyInv, MoneyTrail
<1>1. ASSUME NEW w \in Workers, NEW o \in Orders, ApproveOrder(w, o)
      PROVE  Rest
  <2>1. ThreadGiven(Handling("approve", o, NULL, "find"))
    BY <1>a DEF ThreadGiven, Handling, IdleHandler, NoRow
  <2> QED
    BY <1>1, <2>1, GivenLocalStep DEF ApproveOrder
<1>2. ASSUME NEW w \in Workers, NEW o \in Orders, NEW n \in AmazonNos, n \in Given(o),
             ConfirmPurchase(w, o, n)
      PROVE  Rest
  <2> DEFINE h == IF orders[o].fid
                  THEN Handling("confirm", o, n, "require")
                  ELSE Answered(Handling("confirm", o, n, "reply"), "conflict")
  <2>1. ThreadGiven(Handling("confirm", o, n, "require"))
    BY <1>2, <1>a DEF ThreadGiven, Handling, IdleHandler, NoRow
  <2>2. ThreadGiven(h)
    BY <2>1, RestingGiven
  <2> HIDE DEF h
  <2> QED
    BY <1>2, <2>2, GivenLocalStep DEF ConfirmPurchase, h
<1>3. ASSUME NEW w \in Workers, NEW o \in Orders, RejectOrder(w, o)
      PROVE  Rest
  <2> DEFINE h == [Handling("reject", o, NULL, "load_order")
                      EXCEPT !.rec = Edited("reject", orders[o], NULL)]
  <2>1. ThreadGiven(h)
    BY <1>a, EditedGiven DEF ThreadGiven, Handling, IdleHandler, NoRow
  <2> HIDE DEF h
  <2> QED
    BY <1>3, <2>1, GivenLocalStep DEF RejectOrder, h
<1>4. ASSUME NEW w \in Workers, FindFulfillment(w)
      PROVE  Rest
  <2> DEFINE h0 == worker[w]
             found == [h0 EXCEPT !.pc = "load_order", !.rec = Edited("approve", h0.rec, NULL)]
             fresh == [h0 EXCEPT !.pc = "load_ledger",
                                 !.led = [status |-> "awaiting_purchase", amz |-> NULL]]
             h == IF ledger[h0.ord] # NoRow THEN found ELSE fresh
  <2>1. h0 \in Handler /\ h0.pc = "find" /\ ThreadGiven(h0)
    BY <1>a, <1>4 DEF FindFulfillment
  <2>2. ThreadGiven(found)
    BY <1>a, <2>1, EditedGiven DEF ThreadGiven, Handler
  <2>3. ThreadGiven(fresh)
    BY <1>a, <2>1 DEF ThreadGiven, Handler
  <2>4. ThreadGiven(h)
    BY <2>2, <2>3
  <2> HIDE DEF h
  <2> QED
    BY <1>4, <2>4, GivenLocalStep DEF FindFulfillment, h
<1>5. ASSUME NEW w \in Workers, RequireFulfillment(w)
      PROVE  Rest
  <2> DEFINE h0 == worker[w]
             found == [h0 EXCEPT !.pc = "load_ledger",
                                 !.led = [status |-> "purchased", amz |-> h0.no]]
             h == IF ledger[h0.ord] = NoRow THEN Answered(h0, "not_found") ELSE found
  <2>1. h0 \in Handler /\ h0.pc = "require" /\ ThreadGiven(h0)
    BY <1>a, <1>5 DEF RequireFulfillment
  <2>2. ThreadGiven(found)
    BY <2>1 DEF ThreadGiven, Handler
  <2>3. ThreadGiven(h)
    BY <2>2, RestingGiven
  <2> HIDE DEF h
  <2> QED
    BY <1>5, <2>3, GivenLocalStep DEF RequireFulfillment, h
<1>6. ASSUME NEW w \in Workers, LoadFulfillment(w)
      PROVE  Rest
  <2> DEFINE h0 == worker[w]
             h == [h0 EXCEPT !.pc = "save_ledger", !.seenLedger = ledger[h0.ord]]
  <2>1. h0 \in Handler /\ h0.pc = "load_ledger" /\ ThreadGiven(h0)
    BY <1>a, <1>6 DEF LoadFulfillment
  <2>2. ThreadGiven(h)
    BY <2>1 DEF ThreadGiven, Handler
  <2> HIDE DEF h
  <2> QED
    BY <1>6, <2>2, GivenLocalStep DEF LoadFulfillment, h
<1>7. ASSUME NEW w \in Workers, InsertCollides(w)
      PROVE  Rest
  BY <1>7, RestingGiven, GivenLocalStep DEF InsertCollides
<1>8. ASSUME NEW w \in Workers, SaveFulfillment(w)
      PROVE  Rest
  <2> DEFINE h0 == worker[w]
             h == [h0 EXCEPT !.pc = "load_order", !.rec = Edited(h0.op, h0.rec, h0.no),
                             !.led = NoRow, !.seenLedger = NoRow]
             line == Column(ledger[h0.ord].amz, h0.seenLedger.amz, h0.led.amz)
  <2>1. /\ h0 \in Handler /\ h0.pc = "save_ledger" /\ h0.ord \in Orders
        /\ h0.op \in {"approve", "confirm", "reject"} /\ ThreadGiven(h0)
    BY <1>a, <1>8 DEF SaveFulfillment, HandlerOK
  <2>2. {h0.no, h0.rec.amz, h0.led.amz} \subseteq Given(h0.ord)
    BY <2>1 DEF ThreadGiven
  <2>3. line \in Given(h0.ord)
    BY <1>a, <2>1, <2>2, ColumnChoice
  <2>4. \A o \in Orders : ledger'[o].amz = IF o = h0.ord THEN line ELSE ledger[o].amz
    BY <1>0, <1>8, <2>1 DEF SaveFulfillment, DeskTyped, TypeOK
  <2>5. MoneyTrail'
    BY <1>8, <1>a, <1>b, <2>3, <2>4 DEF SaveFulfillment, MoneyTrail, Given
  <2>6. Edited(h0.op, h0.rec, h0.no).amz \in Given(h0.ord)
    BY <2>1, <2>2, EditedGiven DEF Handler
  <2>7. ThreadGiven(h)
    BY <1>a, <2>1, <2>2, <2>6 DEF ThreadGiven, Handler, NoRow
  <2>8. \A v \in Workers : worker'[v] = IF v = w THEN h ELSE worker[v]
    BY <1>0, <1>8 DEF SaveFulfillment, DeskTyped, TypeOK
  <2> HIDE DEF h
  <2>9. \A v \in Workers : ThreadGiven(worker'[v])
    BY <1>a, <2>7, <2>8
  <2> QED
    BY <2>5, <2>9 DEF ThreadGiven, Given
<1>9. ASSUME NEW w \in Workers, LoadOrder(w)
      PROVE  Rest
  <2> DEFINE h0 == worker[w]
             h == [h0 EXCEPT !.pc = "save_order", !.seenOrder = orders[h0.ord]]
  <2>1. h0 \in Handler /\ h0.pc = "load_order" /\ ThreadGiven(h0)
    BY <1>a, <1>9 DEF LoadOrder
  <2>2. ThreadGiven(h)
    BY <2>1 DEF ThreadGiven, Handler
  <2> HIDE DEF h
  <2> QED
    BY <1>9, <2>2, GivenLocalStep DEF LoadOrder, h
<1>10. ASSUME NEW w \in Workers, SaveOrder(w)
       PROVE  Rest
  <2> DEFINE h0 == worker[w]
             row == Column(orders[h0.ord].amz, h0.seenOrder.amz, h0.rec.amz)
  <2>1. h0 \in Handler /\ h0.pc = "save_order" /\ h0.ord \in Orders /\ ThreadGiven(h0)
    BY <1>a, <1>10 DEF SaveOrder, HandlerOK
  <2>2. row \in Given(h0.ord)
    BY <1>a, <2>1, ColumnChoice DEF ThreadGiven
  <2>3. \A o \in Orders : orders'[o].amz = IF o = h0.ord THEN row ELSE orders[o].amz
    BY <1>0, <1>10, <2>1 DEF SaveOrder, DeskTyped, TypeOK
  <2>4. MoneyTrail'
    BY <1>10, <1>a, <1>b, <2>2, <2>3 DEF SaveOrder, MoneyTrail, Given
  <2>5. \A v \in Workers : worker'[v] = IF v = w THEN Answered(h0, "ok") ELSE worker[v]
    BY <1>0, <1>10 DEF SaveOrder, DeskTyped, TypeOK
  <2>6. \A v \in Workers : ThreadGiven(worker'[v])
    BY <1>a, <2>5, RestingGiven
  <2> QED
    BY <2>4, <2>6 DEF ThreadGiven, Given
<1>11. ASSUME NEW w \in Workers, DatabaseError(w)
       PROVE  Rest
  BY <1>11, RestingGiven, GivenLocalStep DEF DatabaseError
<1>12. ASSUME NEW w \in Workers, Respond(w)
       PROVE  Rest
  BY <1>12, RestingGiven, GivenLocalStep DEF Respond
<1>13. ASSUME Crash
       PROVE  Rest
  BY <1>13 DEF Crash, MoneyInv, MoneyTrail, ThreadGiven, IdleHandler
<1>14. ASSUME UNCHANGED deskVars
       PROVE  Rest
  BY <1>14 DEF deskVars, MoneyInv, MoneyTrail, ThreadGiven, Given
<1> QED
  BY <1>1, <1>2, <1>3, <1>4, <1>5, <1>6, <1>7, <1>8, <1>9, <1>10, <1>11, <1>12, <1>13, <1>14
     DEF GivenNext, GivenRequest, HandlerStep, FlushFulfillment

LEMMA MoneyInit == ConsoleInit => MoneyInv
<1> SUFFICES ASSUME ConsoleInit PROVE MoneyInv
  OBVIOUS
<1>1. ConsoleTyped /\ BackedInv
  BY ConsoleTypedInit, BackedInit DEF ConsoleInit
<1> QED
  BY <1>1 DEF ConsoleInit, Init, MoneyInv, NumbersInHand, MoneyTrail, Given, ThreadGiven,
              IdleHandler, SeedRow, NoRow, Ready

(* Every step is one the desk may take with numbers that were paid for, or *)
(* the operator buying.                                                    *)
LEMMA ConsoleStepKinds ==
    ASSUME MoneyInv, [ConsoleNext]_vars
    PROVE  \/ [GivenNext]_deskVars /\ UNCHANGED paid
           \/ \E t \in Tabs, o \in Orders, n \in AmazonNos : Buy(t, o, n)
<1>1. ASSUME NEW t \in Tabs, NEW w \in Workers, Begin(t, w)
      PROVE  GivenNext /\ UNCHANGED paid
  <2>1. /\ tab[t].mode # "ready" /\ tab[t].ord \in Orders
        /\ tab[t].op = "confirm" => tab[t].no \in AmazonNos
        /\ tab[t].no \in Given(tab[t].ord)
    BY <1>1 DEF Begin, MoneyInv, NumbersInHand, ConsoleTyped, RequestOK
  <2>2. GivenRequest(w, tab[t].ord)
    BY <1>1, <2>1 DEF Begin, GivenRequest
  <2> QED
    BY <1>1, <2>1, <2>2 DEF GivenNext, Begin
<1>2. ASSUME NEW t \in Tabs, Answer(t)
      PROVE  [GivenNext]_deskVars /\ UNCHANGED paid
  <2> DEFINE w == tab[t].thread
  <2>1. Respond(w) /\ UNCHANGED paid
    BY <1>2 DEF Answer
  <2>2. CASE w \in Workers
    BY <2>1, <2>2 DEF GivenNext
  <2>3. CASE w \notin Workers
    <3>1. worker' = worker
      BY <2>1, <2>3 DEF Respond, MoneyInv, BackedInv, DeskTyped, TypeOK
    <3> QED
      BY <2>1, <3>1 DEF Respond, deskVars
  <2> QED
    BY <2>2, <2>3
<1>3. ASSUME NEW t \in Tabs, Operator(t) \/ GiveUp(t)
      PROVE  \/ UNCHANGED <<deskVars, paid>>
             \/ \E o \in Orders, n \in AmazonNos : Buy(t, o, n)
  BY <1>3 DEF Operator, GiveUp, Reload, ClickApprove, ClickReject, ClickConfirm, Send
<1>4. ASSUME NEW w \in Workers, Handle(w) \/ Discard(w) \/ Fail(w)
      PROVE  GivenNext /\ UNCHANGED paid
  BY <1>4 DEF Handle, Discard, Fail, GivenNext, consoleVars
<1>5. ASSUME ServerCrash
      PROVE  GivenNext /\ UNCHANGED paid
  BY <1>5 DEF ServerCrash, GivenNext
<1>6. ASSUME UNCHANGED vars
      PROVE  UNCHANGED <<deskVars, paid>>
  BY <1>6 DEF vars, consoleVars
<1> QED
  BY <1>1, <1>2, <1>3, <1>4, <1>5, <1>6 DEF ConsoleNext

(* The operator pays only for what has its line in the ledger.             *)
LEMMA BuyHasLine ==
    ASSUME BackedInv, NEW t, NEW o \in Orders, NEW n, Buy(t, o, n)
    PROVE  ledger[o] # NoRow
  BY DEF Buy, BackedInv, LedgerBacksOrders

LEMMA MoneyStep == MoneyInv /\ [ConsoleNext]_vars => MoneyInv'
<1> SUFFICES ASSUME MoneyInv, [ConsoleNext]_vars PROVE MoneyInv'
  OBVIOUS
<1>1. ConsoleTyped' /\ BackedInv'
  BY ConsoleTypedStep, ConsoleIsDeskStep, BackedStep DEF MoneyInv
<1>2. MoneyTrail' /\ \A w \in Workers : ThreadGiven(worker[w])'
  <2>1. ASSUME NEW t \in Tabs, NEW o \in Orders, NEW n \in AmazonNos, Buy(t, o, n)
        PROVE  MoneyTrail' /\ \A w \in Workers : ThreadGiven(worker[w])'
    <3>1. /\ UNCHANGED <<orders, ledger, worker>>
          /\ \A p \in Orders : paid'[p] = IF p = o THEN paid[p] \cup {n} ELSE paid[p]
      BY <2>1 DEF Buy, deskVars, MoneyInv, ConsoleTyped, ConsoleTypeOK
    <3>2. MoneyTrail'
      BY <2>1, <3>1, BuyHasLine DEF MoneyInv, MoneyTrail
    <3>3. \A w \in Workers :
              worker[w].pc \notin {"idle", "reply"} => worker[w].ord \in Orders
      BY DEF MoneyInv, BackedInv, DeskTyped, HandlerOK
    <3> QED
      BY <3>1, <3>2, <3>3 DEF MoneyInv, ThreadGiven, Given
  <2> QED
    BY <2>1, ConsoleStepKinds, GivenDeskStep
<1>a. /\ \A o \in Orders : receipt[o] \in Given(o)
      /\ \A t \in Tabs : tab[t].mode # "ready" => tab[t].no \in Given(tab[t].ord)
      /\ \A t \in Tabs : tab[t].mode # "ready" => tab[t].ord \in Orders
      /\ tab \in [Tabs -> TabState]
      /\ receipt \in [Orders -> MaybeNo]
  BY DEF MoneyInv, NumbersInHand, ConsoleTyped, RequestOK, ConsoleTypeOK, TabState
<1>b. ASSUME NEW t \in Tabs, Load(t)
      PROVE  \A o \in Orders : receipt'[o] \in {receipt[o], NULL}
  BY <1>b DEF Load
<1>c. Ready.mode = "ready"
  BY DEF Ready
<1>3. ASSUME NEW t \in Tabs, Reload(t)
      PROVE  NumbersInHand'
  BY <1>3, <1>a, <1>b DEF Reload, Given, NumbersInHand
<1>4. ASSUME NEW t \in Tabs, NEW o \in Orders, NEW n, NEW op, n \in Given(o), Send(t, op, o, n)
      PROVE  NumbersInHand'
  BY <1>4, <1>a DEF Send, Given, NumbersInHand
<1>5. ASSUME NEW t \in Tabs, NEW o \in Orders,
             ClickApprove(t, o) \/ ClickReject(t, o) \/ ClickConfirm(t, o)
      PROVE  NumbersInHand'
  <2>1. NULL \in Given(o) /\ receipt[o] \in Given(o)
    BY <1>a DEF Given
  <2> QED
    BY <1>4, <1>5, <2>1 DEF ClickApprove, ClickReject, ClickConfirm
<1>6. ASSUME NEW t \in Tabs, NEW o \in Orders, NEW n \in AmazonNos, Buy(t, o, n)
      PROVE  NumbersInHand'
  <2>1. \A p \in Orders : paid'[p] = IF p = o THEN paid[p] \cup {n} ELSE paid[p]
    BY <1>6 DEF Buy, MoneyInv, ConsoleTyped, ConsoleTypeOK
  <2>2. \A p \in Orders : receipt'[p] = IF p = o THEN n ELSE receipt[p]
    BY <1>6, <1>a DEF Buy
  <2> QED
    BY <1>6, <1>a, <2>1, <2>2 DEF Buy, Given, NumbersInHand
<1>7. ASSUME NEW t \in Tabs, NEW w \in Workers, Begin(t, w)
      PROVE  NumbersInHand'
  <2>1. \A s \in Tabs : /\ tab'[s].no = tab[s].no /\ tab'[s].ord = tab[s].ord
                        /\ tab'[s].mode # "ready" => tab[s].mode # "ready"
    BY <1>7, <1>a DEF Begin, TabState, NumbersInHand
  <2> QED
    BY <1>7, <1>a, <2>1 DEF Begin, Given, NumbersInHand
<1>8. ASSUME NEW t \in Tabs, Answer(t)
      PROVE  NumbersInHand'
  <2>1. \A o \in Orders : receipt'[o] \in {receipt[o], NULL}
    BY <1>8, <1>b DEF Answer
  <2> QED
    BY <1>8, <1>a, <1>c, <2>1 DEF Answer, Given, NumbersInHand
<1>9. ASSUME NEW t \in Tabs, GiveUp(t)
      PROVE  NumbersInHand'
  BY <1>9, <1>a, <1>c DEF GiveUp, Given, NumbersInHand
<1>10. ASSUME NEW w \in Workers, Handle(w) \/ Discard(w) \/ Fail(w)
       PROVE  NumbersInHand'
  BY <1>10, <1>a DEF Handle, Discard, Fail, consoleVars, Given, NumbersInHand
<1>11. ASSUME ServerCrash
       PROVE  NumbersInHand'
  BY <1>11, <1>a, <1>c DEF ServerCrash, Given, NumbersInHand
<1>12. ASSUME UNCHANGED vars
       PROVE  NumbersInHand'
  BY <1>12, <1>a DEF vars, consoleVars, Given, NumbersInHand
<1>13. NumbersInHand'
  BY <1>3, <1>5, <1>6, <1>7, <1>8, <1>9, <1>10, <1>11, <1>12 DEF ConsoleNext, Operator
<1> QED
  BY <1>1, <1>2, <1>13 DEF MoneyInv

(* With any number of tabs and threads, over a link that loses answers:    *)
(* nothing is paid for before its line is in the ledger, and a number in   *)
(* either table is one paid for that very order.                           *)
THEOREM MoneyTrailAlways == ConsoleSpec => []MoneyTrail
<1>1. MoneyInv => MoneyTrail
  BY DEF MoneyInv
<1> QED
  BY <1>1, MoneyInit, MoneyStep, PTL DEF ConsoleSpec
-----------------------------------------------------------------------------
(***************************************************************************)
(* One tab whose requests are all waited for (~LossyLink).  Its busy flag  *)
(* is then the lock the service does not have: a thread that is not idle   *)
(* works for the request the tab waits for, so that handlers never overlap *)
(* and SerialInv holds however many threads there are.  The operator pays  *)
(* between requests, so an order that is paid for only ever meets its own  *)
(* confirm, with its own number.                                           *)
(***************************************************************************)
OneTab == \A s, t \in Tabs : s = t

(* The tab that waits for thread w, while w is busy.                       *)
Awaited(w) ==
    worker[w].pc # "idle" =>
        \E t \in Tabs :
            /\ tab[t].mode = "running"
            /\ tab[t].thread = w
            /\ tab[t].op = worker[w].op
            /\ tab[t].ord = worker[w].ord
            /\ tab[t].op = "confirm" => tab[t].no = worker[w].no

(* What a request under way may ask of an order that is paid for.          *)
OnlyConfirms(r) ==
    r.mode # "ready" =>
        /\ paid[r.ord] # {} => r.op = "confirm"
        /\ r.op = "confirm" => r.no \in paid[r.ord]

(* Past the ledger, a confirm holds for the order row what the ledger has. *)
ConfirmInHand(h) ==
    h.op = "confirm" /\ h.pc \in {"load_order", "save_order"} =>
        /\ ledger[h.ord] = [status |-> "purchased", amz |-> h.no]
        /\ h.rec = [status |-> "purchased", fid |-> TRUE, amz |-> h.no]

PagesShowPaid ==
    \A t \in Tabs, o \in Orders :
        paid[o] # {} => view[t][o] \in {"awaiting_purchase", "purchased"}

OneTabInv ==
    /\ MoneyInv
    /\ SerialInv
    /\ NoPurchaseLost
    /\ PagesShowPaid
    /\ \A t \in Tabs : OnlyConfirms(tab[t])
    /\ \A w \in Workers : Awaited(w)
    /\ \A w \in Workers : ConfirmInHand(worker[w])

LEMMA AwaitedOneBusy ==
    ASSUME OneTab, \A w \in Workers : Awaited(w)
    PROVE  OneBusy
  BY DEF OneTab, Awaited, OneBusy

(* No thread is busy while the tab waits for none.                         *)
LEMMA QuietTab ==
    ASSUME OneTab, OneTabInv, NEW t \in Tabs, tab[t].mode # "running"
    PROVE  \A w \in Workers : worker[w].pc = "idle"
  BY DEF OneTab, OneTabInv, Awaited

(* A purchase is on record as bought, or its receipt is held for an order  *)
(* that waits: never both.                                                 *)
LEMMA PurchaseKinds ==
    ASSUME NoPurchaseLost, NEW o \in Orders, NEW n \in paid[o]
    PROVE  \/ /\ ledger[o].amz = n /\ ledger[o].status = "purchased"
              /\ orders[o].status = "purchased"
           \/ receipt[o] = n /\ orders[o].status = "awaiting_purchase"
<1>1. CASE /\ ledger[o] = [status |-> "purchased", amz |-> n]
           /\ orders[o] = [status |-> "purchased", fid |-> TRUE, amz |-> n]
  <2>1. ledger[o].amz = n /\ ledger[o].status = "purchased"
    BY <1>1
  <2>2. orders[o].status = "purchased"
    BY <1>1
  <2> QED
    BY <2>1, <2>2
<1>2. CASE receipt[o] = n /\ orders[o].status = "awaiting_purchase"
  BY <1>2
<1> QED
  BY <1>1, <1>2 DEF NoPurchaseLost

(* What is neither lost nor recorded twice was paid once.                  *)
LEMMA OnePurchase ==
    ASSUME NoPurchaseLost, NEW o \in Orders, NEW m \in paid[o], NEW n \in paid[o]
    PROVE  m = n
  BY PurchaseKinds

LEMMA LostNoneIsOnce == NoPurchaseLost => PaidOnce
<1> SUFFICES ASSUME NoPurchaseLost, NEW o \in Orders
             PROVE  Cardinality(paid[o]) <= 1
  BY DEF PaidOnce
<1>1. CASE paid[o] = {}
  BY <1>1, FS_EmptySet
<1>2. ASSUME NEW n \in paid[o]
      PROVE  Cardinality(paid[o]) <= 1
  <2>1. paid[o] = {n}
    BY OnePurchase
  <2>2. Cardinality({n}) = 1
    BY FS_Singleton
  <2> QED
    BY <2>1, <2>2
<1> QED
  BY <1>1, <1>2

(* Loading the page throws away no receipt that is still needed, and shows *)
(* what is paid for as bought or to be bought.                             *)
LEMMA LoadKeeps ==
    ASSUME OneTabInv, NEW t \in Tabs, Load(t), UNCHANGED <<orders, ledger, paid>>
    PROVE  NoPurchaseLost' /\ PagesShowPaid'
<1>1. \A o \in Orders : receipt'[o] = receipt[o] \/ orders[o].status = "purchased"
  BY DEF Load
<1>2. NoPurchaseLost'
  BY <1>1 DEF OneTabInv, NoPurchaseLost
<1>3. \A o \in Orders : paid[o] # {} => Shown[o] \in {"awaiting_purchase", "purchased"}
  BY PurchaseKinds DEF OneTabInv, Shown
<1>4. \A s \in Tabs : view'[s] = IF s = t THEN Shown ELSE view[s]
  BY DEF Load, OneTabInv, MoneyInv, ConsoleTyped, ConsoleTypeOK
<1>5. PagesShowPaid'
  BY <1>3, <1>4 DEF OneTabInv, PagesShowPaid
<1> QED
  BY <1>2, <1>5

(* A request sent from a ready tab.                                        *)
LEMMA SendKeeps ==
    ASSUME OneTab, OneTabInv, NEW t \in Tabs, NEW o \in Orders, NEW n,
           NEW op \in {"approve", "confirm", "reject"}, Send(t, op, o, n),
           paid[o] # {} => op = "confirm",
           op = "confirm" => n \in paid[o]
    PROVE  /\ \A s \in Tabs : OnlyConfirms(tab[s])'
           /\ \A w \in Workers : Awaited(w)'
<1> DEFINE r == [mode |-> "sent", op |-> op, ord |-> o, no |-> n, thread |-> NULL]
<1>1. /\ tab' = [tab EXCEPT ![t] = r]
      /\ UNCHANGED <<worker, paid>>
      /\ tab[t].mode = "ready"
  BY DEF Send, deskVars, Ready
<1>2. \A w \in Workers : Awaited(w)'
  <2>1. \A w \in Workers : worker[w].pc = "idle"
    BY <1>1, QuietTab
  <2> QED
    BY <1>1, <2>1 DEF Awaited
<1>3. tab \in [Tabs -> TabState]
  BY DEF OneTabInv, MoneyInv, ConsoleTyped, ConsoleTypeOK, TabState
<1>4. \A s \in Tabs : tab'[s] = r
  BY <1>1, <1>3 DEF OneTab
<1>5. \A s \in Tabs : OnlyConfirms(tab[s])'
  BY <1>1, <1>4 DEF OnlyConfirms
<1> QED
  BY <1>2, <1>5

(* A handler's step, or its error, is still a step for the same request.   *)
LEMMA HandlerKeepsRequest ==
    ASSUME DeskTyped, NEW w \in Workers, HandlerStep(w) \/ DatabaseError(w)
    PROVE  /\ worker[w].pc # "idle"
           /\ \A v \in Workers : v # w => worker'[v] = worker[v]
           /\ worker'[w].op = worker[w].op
           /\ worker'[w].ord = worker[w].ord
           /\ worker'[w].no = worker[w].no
<1> DEFINE h == worker[w]
           Rest == /\ h.pc # "idle"
                   /\ worker' = [worker EXCEPT ![w] = worker'[w]]
                   /\ worker'[w].op = h.op /\ worker'[w].ord = h.ord /\ worker'[w].no = h.no
<1>1. h \in Handler /\ worker \in [Workers -> Handler]
  BY DEF DeskTyped, TypeOK
<1>2. \A r : /\ Answered(h, r).op = h.op
             /\ Answered(h, r).ord = h.ord
             /\ Answered(h, r).no = h.no
  BY DEF Answered, IdleHandler
<1>3. CASE FindFulfillment(w)
  BY <1>1, <1>3 DEF FindFulfillment, Handler
<1>4. CASE RequireFulfillment(w)
  BY <1>1, <1>2, <1>4 DEF RequireFulfillment, Handler
<1>5. CASE LoadFulfillment(w)
  BY <1>1, <1>5 DEF LoadFulfillment, Handler
<1>6. CASE InsertCollides(w)
  BY <1>1, <1>2, <1>6 DEF InsertCollides
<1>7. CASE SaveFulfillment(w)
  BY <1>1, <1>7 DEF SaveFulfillment, Handler
<1>8. CASE LoadOrder(w)
  BY <1>1, <1>8 DEF LoadOrder, Handler
<1>9. CASE SaveOrder(w)
  BY <1>1, <1>2, <1>9 DEF SaveOrder
<1>10. CASE DatabaseError(w)
  BY <1>1, <1>2, <1>10 DEF DatabaseError
<1> QED
  BY <1>3, <1>4, <1>5, <1>6, <1>7, <1>8, <1>9, <1>10 DEF HandlerStep, FlushFulfillment

(* A handler's step loses no purchase: an order that is paid for meets its *)
(* own confirm alone, which writes what was paid into both tables.         *)
LEMMA HandlerKeepsPurchases ==
    ASSUME OneTab, OneTabInv, NEW w \in Workers, HandlerStep(w) \/ DatabaseError(w),
           UNCHANGED <<receipt, paid>>
    PROVE  NoPurchaseLost' /\ \A v \in Workers : ConfirmInHand(worker[v])'
<1> DEFINE h == worker[w]
           Rest == NoPurchaseLost' /\ ConfirmInHand(worker[w])'
<1>1. DeskTyped /\ SerialInv /\ NoPurchaseLost
  BY DEF OneTabInv, SerialInv
<1>2. /\ h.pc # "idle"
      /\ \A v \in Workers : v # w => worker'[v] = worker[v]
      /\ worker'[w].op = h.op /\ worker'[w].ord = h.ord /\ worker'[w].no = h.no
  BY <1>1, HandlerKeepsRequest
<1>3. /\ paid[h.ord] # {} => h.op = "confirm"
      /\ h.op = "confirm" => h.no \in paid[h.ord]
  <2>1. PICK t \in Tabs : /\ tab[t].mode = "running"
                          /\ tab[t].op = h.op /\ tab[t].ord = h.ord
                          /\ tab[t].op = "confirm" => tab[t].no = h.no
    BY <1>2 DEF OneTabInv, Awaited
  <2>2. OnlyConfirms(tab[t])
    BY DEF OneTabInv
  <2> QED
    BY <2>1, <2>2 DEF OnlyConfirms
<1>4. \A v \in Workers : v # w => ConfirmInHand(worker[v])'
  <2>1. \A v \in Workers : v # w => worker[v].pc = "idle"
    BY <1>2, AwaitedOneBusy DEF OneTabInv, OneBusy
  <2> QED
    BY <1>2, <2>1 DEF ConfirmInHand
<1>5. h \in Handler /\ HandlerOK(h) /\ SerialThread(h) /\ ConfirmInHand(h)
  BY <1>1 DEF DeskTyped, HandlerOK, SerialInv, OneTabInv
<1>6. worker \in [Workers -> Handler]
  BY <1>1 DEF DeskTyped, TypeOK
<1>a. ASSUME UNCHANGED <<orders, ledger>>
      PROVE  NoPurchaseLost'
  BY <1>a, <1>1 DEF NoPurchaseLost
<1>b. ASSUME worker'[w].pc \notin {"load_order", "save_order"} \/ worker'[w].op # "confirm"
      PROVE  ConfirmInHand(worker[w])'
  BY <1>b DEF ConfirmInHand
<1>7. ASSUME FindFulfillment(w)
      PROVE  Rest
  <2>1. h.op = "approve"
    BY <1>5, <1>7 DEF FindFulfillment, SerialThread
  <2> QED
    BY <1>2, <1>7, <1>a, <1>b, <2>1 DEF FindFulfillment
<1>8. ASSUME RequireFulfillment(w)
      PROVE  Rest
  <2>1. worker'[w].pc \in {"load_ledger", "reply"}
    BY <1>5, <1>6, <1>8 DEF RequireFulfillment, Handler, Answered, IdleHandler
  <2> QED
    BY <1>8, <1>a, <1>b, <2>1 DEF RequireFulfillment
<1>9. ASSUME LoadFulfillment(w)
      PROVE  Rest
  <2>1. worker'[w].pc = "save_ledger"
    BY <1>5, <1>6, <1>9 DEF LoadFulfillment, Handler
  <2> QED
    BY <1>9, <1>a, <1>b, <2>1 DEF LoadFulfillment
<1>10. ASSUME InsertCollides(w)
       PROVE  Rest
  <2>1. worker'[w].pc = "reply"
    BY <1>6, <1>10 DEF InsertCollides, Answered, IdleHandler
  <2> QED
    BY <1>10, <1>a, <1>b, <2>1 DEF InsertCollides
<1>11. ASSUME SaveFulfillment(w)
       PROVE  Rest
  <2>1. /\ h.ord \in Orders
        /\ \A o \in Orders : ledger'[o] = IF o = h.ord THEN h.led ELSE ledger[o]
        /\ Entering(h) \/ Recording(h)
        /\ UNCHANGED orders
    BY <1>1, <1>11, SerialSave DEF SaveFulfillment, DeskTyped, TypeOK
  <2>2. h.op = "confirm" => h.led = [status |-> "purchased", amz |-> h.no] /\ h.rec.fid
    BY <2>1 DEF Entering, Recording
  <2>3. NoPurchaseLost'
    <3> SUFFICES ASSUME NEW o \in Orders, NEW n \in paid[o]
                 PROVE  \/ /\ ledger'[o] = [status |-> "purchased", amz |-> n]
                           /\ orders[o] = [status |-> "purchased", fid |-> TRUE, amz |-> n]
                        \/ /\ receipt[o] = n
                           /\ orders[o].status = "awaiting_purchase"
                           /\ orders[o].fid
      BY <2>1 DEF NoPurchaseLost
    <3>1. CASE o # h.ord
      BY <1>1, <2>1, <3>1 DEF NoPurchaseLost
    <3>2. CASE o = h.ord
      <4>1. h.op = "confirm" /\ h.no = n
        BY <1>1, <1>3, <3>2, OnePurchase
      <4>2. ledger'[o] = [status |-> "purchased", amz |-> n]
        BY <2>1, <2>2, <3>2, <4>1
      <4> QED
        BY <1>1, <4>2 DEF NoPurchaseLost
    <3> QED
      BY <3>1, <3>2
  <2>4. ConfirmInHand(worker[w])'
    <3>1. worker'[w].rec = Edited(h.op, h.rec, h.no)
      BY <1>5, <1>6, <1>11 DEF SaveFulfillment, Handler
    <3>2. ASSUME h.op = "confirm"
          PROVE  Edited(h.op, h.rec, h.no) = [status |-> "purchased", fid |-> TRUE, amz |-> h.no]
      <4>1. h.rec \in OrderRow
        BY <1>5 DEF Handler
      <4>2. h.rec.fid = TRUE
        BY <2>2, <3>2
      <4> QED
        BY <3>2, <4>1, <4>2 DEF Edited, OrderRow
    <3> QED
      BY <1>2, <2>1, <2>2, <3>1, <3>2 DEF ConfirmInHand
  <2> QED
    BY <2>3, <2>4
<1>12. ASSUME LoadOrder(w)
       PROVE  Rest
  <2>1. h.pc = "load_order" /\ worker'[w].rec = h.rec /\ UNCHANGED <<orders, ledger>>
    BY <1>5, <1>6, <1>12 DEF LoadOrder, Handler
  <2>2. ConfirmInHand(worker[w])'
    BY <1>2, <1>5, <2>1 DEF ConfirmInHand
  <2> QED
    BY <1>a, <2>1, <2>2
<1>13. ASSUME SaveOrder(w)
       PROVE  Rest
  <2>1. /\ h.ord \in Orders /\ h.pc = "save_order"
        /\ \A o \in Orders : orders'[o] = IF o = h.ord THEN h.rec ELSE orders[o]
        /\ UNCHANGED ledger
    BY <1>1, <1>13, SerialOrderSave DEF SaveOrder, DeskTyped, TypeOK
  <2>2. NoPurchaseLost'
    <3> SUFFICES ASSUME NEW o \in Orders, NEW n \in paid[o]
                 PROVE  \/ /\ ledger[o] = [status |-> "purchased", amz |-> n]
                           /\ orders'[o] = [status |-> "purchased", fid |-> TRUE, amz |-> n]
                        \/ /\ receipt[o] = n
                           /\ orders'[o].status = "awaiting_purchase"
                           /\ orders'[o].fid
      BY <2>1 DEF NoPurchaseLost
    <3>1. CASE o # h.ord
      BY <1>1, <2>1, <3>1 DEF NoPurchaseLost
    <3>2. CASE o = h.ord
      <4>1. h.op = "confirm" /\ h.no = n
        BY <1>1, <1>3, <3>2, OnePurchase
      <4>2. /\ ledger[o] = [status |-> "purchased", amz |-> n]
            /\ orders'[o] = [status |-> "purchased", fid |-> TRUE, amz |-> n]
        BY <1>5, <2>1, <3>2, <4>1 DEF ConfirmInHand
      <4> QED
        BY <4>2
    <3> QED
      BY <3>1, <3>2
  <2>3. worker'[w].pc = "reply"
    BY <1>6, <1>13 DEF SaveOrder, Answered, IdleHandler
  <2> QED
    BY <1>b, <2>2, <2>3
<1>14. ASSUME DatabaseError(w)
       PROVE  Rest
  <2>1. worker'[w].pc = "reply"
    BY <1>6, <1>14 DEF DatabaseError, Answered, IdleHandler
  <2> QED
    BY <1>14, <1>a, <1>b, <2>1 DEF DatabaseError
<1>15. Rest
  BY <1>7, <1>8, <1>9, <1>10, <1>11, <1>12, <1>13, <1>14 DEF HandlerStep, FlushFulfillment
<1> QED
  BY <1>4, <1>15

LEMMA OneTabInit == ConsoleInit => OneTabInv
<1> SUFFICES ASSUME ConsoleInit PROVE OneTabInv
  OBVIOUS
<1>1. MoneyInv /\ SerialInv
  BY MoneyInit, SerialInit DEF ConsoleInit
<1>2. /\ \A o \in Orders : paid[o] = {}
      /\ \A t \in Tabs : tab[t].mode = "ready"
      /\ \A w \in Workers : worker[w].pc = "idle"
  BY DEF ConsoleInit, Init, Ready, IdleHandler
<1> QED
  BY <1>1, <1>2 DEF OneTabInv, NoPurchaseLost, PagesShowPaid, OnlyConfirms, Awaited, ConfirmInHand

LEMMA OneTabStep ==
    ASSUME OneTab, ~LossyLink, OneTabInv, [ConsoleNext]_vars
    PROVE  OneTabInv'
<1>1. MoneyInv'
  BY MoneyStep DEF OneTabInv
<1>2. SerialInv'
  BY AwaitedOneBusy, ConsoleIsDeskStep, SerialStep DEF OneTabInv, MoneyInv
<1> DEFINE Rest == /\ NoPurchaseLost' /\ PagesShowPaid'
                   /\ \A t \in Tabs : OnlyConfirms(tab[t])'
                   /\ \A w \in Workers : Awaited(w)'
                   /\ \A w \in Workers : ConfirmInHand(worker[w])'
<1>a. /\ NoPurchaseLost /\ PagesShowPaid
      /\ \A t \in Tabs : OnlyConfirms(tab[t])
      /\ \A w \in Workers : Awaited(w)
      /\ \A w \in Workers : ConfirmInHand(worker[w])
      /\ tab \in [Tabs -> TabState]
      /\ worker \in [Workers -> Handler]
      /\ paid \in [Orders -> SUBSET AmazonNos]
      /\ receipt \in [Orders -> MaybeNo]
      /\ view \in [Tabs -> [Orders -> Status]]
  BY DEF OneTabInv, MoneyInv, ConsoleTyped, ConsoleTypeOK, DeskTyped, TypeOK, TabState
<1>b. ASSUME \A w \in Workers : worker'[w].pc = "idle"
      PROVE  /\ \A w \in Workers : Awaited(w)'
             /\ \A w \in Workers : ConfirmInHand(worker[w])'
  BY <1>b DEF Awaited, ConfirmInHand
<1>c. Ready.mode = "ready"
  BY DEF Ready
<1>3. ASSUME NEW t \in Tabs, Reload(t)
      PROVE  Rest
  <2>1. UNCHANGED <<orders, ledger, worker, tab, paid>> /\ Load(t)
    BY <1>3 DEF Reload, deskVars
  <2>2. NoPurchaseLost' /\ PagesShowPaid'
    BY <2>1, LoadKeeps
  <2> QED
    BY <1>a, <2>1, <2>2 DEF OnlyConfirms, Awaited, ConfirmInHand
<1>4. ASSUME NEW t \in Tabs, NEW o \in Orders, NEW n,
             NEW op \in {"approve", "confirm", "reject"}, Send(t, op, o, n),
             paid[o] # {} => op = "confirm",
             op = "confirm" => n \in paid[o]
      PROVE  Rest
  <2>1. UNCHANGED <<orders, ledger, worker, view, receipt, paid>>
    BY <1>4 DEF Send, deskVars
  <2>2. /\ \A s \in Tabs : OnlyConfirms(tab[s])'
        /\ \A w \in Workers : Awaited(w)'
    BY <1>4, SendKeeps
  <2> QED
    BY <1>a, <2>1, <2>2 DEF NoPurchaseLost, PagesShowPaid, ConfirmInHand
<1>5. ASSUME NEW t \in Tabs, NEW o \in Orders, ClickApprove(t, o) \/ ClickReject(t, o)
      PROVE  Rest
  <2>1. paid[o] = {}
    BY <1>5, <1>a DEF ClickApprove, ClickReject, PagesShowPaid
  <2> QED
    BY <1>4, <1>5, <2>1 DEF ClickApprove, ClickReject
<1>6. ASSUME NEW t \in Tabs, NEW o \in Orders, ClickConfirm(t, o)
      PROVE  Rest
  <2>1. receipt[o] \in paid[o]
    BY <1>6 DEF ClickConfirm, OneTabInv, MoneyInv, NumbersInHand, Given
  <2> QED
    BY <1>4, <1>6, <2>1 DEF ClickConfirm
<1>7. ASSUME NEW t \in Tabs, NEW o \in Orders, NEW n \in AmazonNos, Buy(t, o, n)
      PROVE  Rest
  <2>1. /\ UNCHANGED <<orders, ledger, worker, tab>>
        /\ tab[t].mode = "ready"
        /\ orders[o].status = "awaiting_purchase" /\ receipt[o] = NULL
        /\ \A p \in Orders : paid'[p] = IF p = o THEN paid[o] \cup {n} ELSE paid[p]
        /\ \A p \in Orders : receipt'[p] = IF p = o THEN n ELSE receipt[p]
        /\ \A s \in Tabs : view'[s] = IF s = t THEN Shown ELSE view[s]
    BY <1>7, <1>a, <1>c DEF Buy, deskVars
  <2>2. paid[o] = {}
    <3> SUFFICES ASSUME NEW m \in paid[o] PROVE FALSE
      OBVIOUS
    <3>1. receipt[o] = m
      BY <1>a, <2>1, PurchaseKinds
    <3> QED
      BY <1>a, <2>1, <3>1, NullAssumption
  <2>3. orders[o].fid
    BY <2>1 DEF OneTabInv, SerialInv, OrdersFollowLedger
  <2>4. \A p \in Orders : p # o => paid'[p] = paid[p] /\ receipt'[p] = receipt[p]
    BY <2>1
  <2>5. NoPurchaseLost'
    <3> SUFFICES ASSUME NEW p \in Orders, NEW m \in paid'[p]
                 PROVE  \/ /\ ledger[p] = [status |-> "purchased", amz |-> m]
                           /\ orders[p] = [status |-> "purchased", fid |-> TRUE, amz |-> m]
                        \/ /\ receipt'[p] = m
                           /\ orders[p].status = "awaiting_purchase"
                           /\ orders[p].fid
      BY <2>1 DEF NoPurchaseLost
    <3>1. CASE p = o
      BY <2>1, <2>2, <2>3, <3>1
    <3>2. CASE p # o
      BY <1>a, <2>4, <3>2 DEF NoPurchaseLost
    <3> QED
      BY <3>1, <3>2
  <2>6. PagesShowPaid'
    <3>1. \A s \in Tabs : view'[s] = Shown
      BY <2>1 DEF OneTab
    <3>2. \A p \in Orders : paid[p] # {} => orders[p].status \in {"awaiting_purchase", "purchased"}
      BY <1>a, PurchaseKinds
    <3>3. \A p \in Orders : paid'[p] # {} => Shown[p] \in {"awaiting_purchase", "purchased"}
      BY <2>1, <2>4, <3>2 DEF Shown
    <3> QED
      BY <3>1, <3>3 DEF PagesShowPaid
  <2>7. \A w \in Workers : worker[w].pc = "idle"
    BY <2>1, QuietTab
  <2>8. \A s \in Tabs : OnlyConfirms(tab[s])'
    BY <2>1 DEF OnlyConfirms, OneTab
  <2> QED
    BY <1>b, <2>1, <2>5, <2>6, <2>7, <2>8
<1>8. ASSUME NEW t \in Tabs, NEW w \in Workers, Begin(t, w)
      PROVE  Rest
  <2> DEFINE r == tab[t]
  <2>1. /\ UNCHANGED <<orders, ledger, view, receipt, paid>>
        /\ r.mode = "sent"
        /\ \A s \in Tabs : /\ tab'[s].op = tab[s].op
                           /\ tab'[s].ord = tab[s].ord
                           /\ tab'[s].no = tab[s].no
                           /\ tab'[s].mode # "ready" => tab[s].mode # "ready"
        /\ tab'[t].mode = "running" /\ tab'[t].thread = w
    BY <1>8, <1>a DEF Begin, TabState, ApproveOrder, ConfirmPurchase, RejectOrder
  <2>2. \A v \in Workers : worker[v].pc = "idle"
    BY <2>1, QuietTab
  <2>3. /\ \A v \in Workers : v # w => worker'[v] = worker[v]
        /\ worker'[w].op = r.op /\ worker'[w].ord = r.ord
        /\ r.op = "confirm" => worker'[w].no = r.no
        /\ r.op = "confirm" => worker'[w].pc \notin {"load_order", "save_order"}
    <3>1. CASE r.op = "approve" /\ ApproveOrder(w, r.ord)
      BY <1>a, <3>1 DEF ApproveOrder, Handling, IdleHandler
    <3>2. CASE r.op = "confirm" /\ ConfirmPurchase(w, r.ord, r.no)
      BY <1>a, <3>2 DEF ConfirmPurchase, Handling, Answered, IdleHandler
    <3>3. CASE r.op = "reject" /\ RejectOrder(w, r.ord)
      BY <1>a, <3>3 DEF RejectOrder, Handling, IdleHandler
    <3> QED
      BY <1>8, <3>1, <3>2, <3>3 DEF Begin
  <2>4. \A v \in Workers : Awaited(v)'
    BY <2>1, <2>2, <2>3 DEF Awaited
  <2>5. \A v \in Workers : ConfirmInHand(worker[v])'
    BY <2>2, <2>3 DEF ConfirmInHand
  <2>6. \A s \in Tabs : OnlyConfirms(tab[s])'
    BY <1>a, <2>1 DEF OnlyConfirms
  <2> QED
    BY <1>a, <2>1, <2>4, <2>5, <2>6 DEF NoPurchaseLost, PagesShowPaid
<1>9. ASSUME NEW w \in Workers, Handle(w) \/ Fail(w)
      PROVE  Rest
  <2>1. /\ HandlerStep(w) \/ DatabaseError(w)
        /\ UNCHANGED <<view, tab, receipt, paid>>
    BY <1>9 DEF Handle, Fail, consoleVars
  <2>2. NoPurchaseLost' /\ \A v \in Workers : ConfirmInHand(worker[v])'
    BY <2>1, HandlerKeepsPurchases
  <2>3. /\ worker[w].pc # "idle"
        /\ \A v \in Workers : v # w => worker'[v] = worker[v]
        /\ worker'[w].op = worker[w].op
        /\ worker'[w].ord = worker[w].ord
        /\ worker'[w].no = worker[w].no
    BY <2>1, HandlerKeepsRequest DEF OneTabInv, SerialInv
  <2>4. \A v \in Workers : Awaited(v)'
    BY <1>a, <2>1, <2>3 DEF Awaited
  <2> QED
    BY <1>a, <2>1, <2>2, <2>4 DEF PagesShowPaid, OnlyConfirms
<1>10. ASSUME NEW w \in Workers, Discard(w)
       PROVE  FALSE
  BY <1>10, <1>a DEF Discard, Respond, Awaited
<1>11. ASSUME NEW t \in Tabs, Answer(t)
       PROVE  Rest
  <2> DEFINE w == tab[t].thread
  <2>1. /\ UNCHANGED <<orders, ledger, paid>>
        /\ worker' = [worker EXCEPT ![w] = IdleHandler]
        /\ tab' = [tab EXCEPT ![t] = Ready]
        /\ Load(t) \/ UNCHANGED <<view, receipt>>
    BY <1>11 DEF Answer, Respond
  <2>2. \A v \in Workers : v # w => worker[v].pc = "idle"
    BY <1>a DEF Awaited, OneTab
  <2>3. \A v \in Workers : worker'[v].pc = "idle"
    BY <1>a, <2>1, <2>2 DEF IdleHandler
  <2>4. NoPurchaseLost' /\ PagesShowPaid'
    <3>1. CASE Load(t)
      BY <2>1, <3>1, LoadKeeps
    <3>2. CASE UNCHANGED <<view, receipt>>
      BY <1>a, <2>1, <3>2 DEF NoPurchaseLost, PagesShowPaid
    <3> QED
      BY <2>1, <3>1, <3>2
  <2>5. \A s \in Tabs : OnlyConfirms(tab[s])'
    BY <1>a, <1>c, <2>1 DEF OnlyConfirms, OneTab
  <2> QED
    BY <1>b, <2>3, <2>4, <2>5
<1>12. ASSUME NEW t \in Tabs, GiveUp(t)
       PROVE  FALSE
  BY <1>12 DEF GiveUp
<1>13. ASSUME ServerCrash
       PROVE  Rest
  <2>1. /\ UNCHANGED <<orders, ledger, view, receipt, paid>>
        /\ \A w \in Workers : worker'[w].pc = "idle"
        /\ \A t \in Tabs : tab'[t].mode = "ready"
    BY <1>13 DEF ServerCrash, Crash, IdleHandler, Ready
  <2> QED
    BY <1>a, <1>b, <2>1 DEF NoPurchaseLost, PagesShowPaid, OnlyConfirms
<1>14. ASSUME UNCHANGED vars
       PROVE  Rest
  BY <1>14, <1>a DEF vars, consoleVars, deskVars, NoPurchaseLost, PagesShowPaid, OnlyConfirms,
                     Awaited, ConfirmInHand
<1>15. Rest
  BY <1>3, <1>5, <1>6, <1>7, <1>8, <1>9, <1>10, <1>11, <1>12, <1>13, <1>14
     DEF ConsoleNext, Operator
<1> QED
  BY <1>1, <1>2, <1>15 DEF OneTabInv

(* One tab, no abandoned request, any number of threads, crashes and       *)
(* database errors: nothing paid for drops out of sight.                   *)
THEOREM OneTabLosesNothing ==
    ASSUME OneTab, ~LossyLink
    PROVE  ConsoleSpec => []NoPurchaseLost
<1>1. OneTabInv /\ [ConsoleNext]_vars => OneTabInv'
  BY OneTabStep
<1>2. OneTabInv => NoPurchaseLost
  BY DEF OneTabInv
<1> QED
  BY <1>1, <1>2, OneTabInit, PTL DEF ConsoleSpec

(* And nothing is paid for twice, which is what the ledger is there for.   *)
THEOREM OneTabPaysOnce ==
    ASSUME OneTab, ~LossyLink
    PROVE  ConsoleSpec => []PaidOnce
<1>1. ConsoleSpec => []NoPurchaseLost
  BY OneTabLosesNothing
<1> QED
  BY <1>1, LostNoneIsOnce, PTL

(* The busy flag of the one tab is all the serialisation there is, and it  *)
(* is enough: with a pool of any size the ledger is a purchase book, its   *)
(* purchases are final, the order rows never run ahead of it and no thread *)
(* meets a key another one entered.                                        *)
THEOREM OneTabSerialisesDesk ==
    ASSUME OneTab, ~LossyLink
    PROVE  ConsoleSpec => /\ BookSpec
                          /\ PurchasedIsFinal
                          /\ []OrdersFollowLedger
                          /\ []RepeatReturnsExisting
<1> DEFINE Inv == OneTabInv /\ RepeatReturnsExisting
<1>1. ConsoleInit => Inv /\ Book!Init
  BY OneTabInit, BookInit DEF ConsoleInit, Init, RepeatReturnsExisting, IdleHandler
<1>2. Inv /\ [ConsoleNext]_vars => Inv'
  BY OneTabStep, ConsoleIsDeskStep, SerialRepeatStep DEF OneTabInv, MoneyInv
<1>3. Inv /\ [ConsoleNext]_vars
        => /\ [Book!Next]_ledger
           /\ [\A o \in Orders : ledger[o].status = "purchased"
                                   => ledger'[o].status = "purchased"]_ledger
  BY ConsoleIsDeskStep, SerialBookStep, SerialFinalStep DEF OneTabInv, MoneyInv
<1>4. Inv => OrdersFollowLedger /\ RepeatReturnsExisting
  BY DEF OneTabInv, SerialInv
<1> HIDE DEF Inv
<1> QED
  BY <1>1, <1>2, <1>3, <1>4, PTL DEF ConsoleSpec, BookSpec, Book!Spec, PurchasedIsFinal
=============================================================================

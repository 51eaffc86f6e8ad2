---------------------------- MODULE AdminConsole ----------------------------
(***************************************************************************)
(* The dashboard page (dashboard/app/page.tsx) and the operator who works  *)
(* with it, on top of the order handlers of OrderDesk.                     *)
(*                                                                         *)
(* A tab shows the orders as of its last load, offers a button only when   *)
(* the status it shows asks for it, sends one request at a time (busy),    *)
(* and reloads after an answer but not after an error.  The operator       *)
(* refreshes a tab, buys on Amazon what it then shows as awaiting a        *)
(* purchase unless a receipt for it is still to be entered, and enters     *)
(* the receipt's number.  Buying is outside the program: paid is what the  *)
(* whole design is there to keep at one purchase per order.                *)
(***************************************************************************)
EXTENDS OrderDesk, Naturals, FiniteSets

CONSTANTS Tabs,        (* browser tabs or administrators with the page open *)
          MaxFaults,   (* bound: crashes, database errors, lost answers     *)
          LossyLink    (* whether a tab may give up on a running request    *)

ASSUME ConsoleAssumption ==
    /\ NULL \notin Workers
    /\ MaxFaults \in Nat
    /\ LossyLink \in BOOLEAN

VARIABLES view,        (* statuses shown: [Tabs -> [Orders -> status]]      *)
          tab,         (* the request a tab waits for: [Tabs -> Request]    *)
          receipt,     (* bought, number not yet entered: [Orders -> no]    *)
          paid,        (* history: the purchases made: [Orders -> {no}]     *)
          faults       (* history: faults so far                            *)

consoleVars == <<view, tab, receipt, paid, faults>>
vars == <<deskVars, consoleVars>>

Shown == [o \in Orders |-> orders[o].status]

Ready == [mode |-> "ready", op |-> "none", ord |-> NULL, no |-> NULL, thread |-> NULL]

ConsoleInit ==
    /\ Init
    /\ view = [t \in Tabs |-> Shown]
    /\ tab = [t \in Tabs |-> Ready]
    /\ receipt = [o \in Orders |-> NULL]
    /\ paid = [o \in Orders |-> {}]
    /\ faults = 0
-----------------------------------------------------------------------------
(* load(): the list of orders is one SELECT.  An operator who sees the     *)
(* number of a receipt on a bought order is done with that receipt.        *)
Load(t) ==
    /\ view' = [view EXCEPT ![t] = Shown]
    /\ receipt' = [o \in Orders |->
          IF orders[o].status = "purchased" /\ orders[o].amz = receipt[o]
          THEN NULL ELSE receipt[o]]

Reload(t) ==
    /\ tab[t] = Ready
    /\ Load(t)
    /\ UNCHANGED <<deskVars, tab, paid, faults>>

Send(t, op, o, n) ==
    /\ tab[t] = Ready
    /\ tab' = [tab EXCEPT ![t] = [mode |-> "sent", op |-> op, ord |-> o, no |-> n, thread |-> NULL]]
    /\ UNCHANGED <<deskVars, view, receipt, paid, faults>>

(* Mutant: the approve button is shown whatever the status.                *)
ClickApproveAnyStatus(t, o) ==
    /\ view[t][o] \in {"pending_approval", "purchased"}
    /\ Send(t, "approve", o, NULL)

ClickApprove(t, o) == view[t][o] = "pending_approval" /\ Send(t, "approve", o, NULL)

ClickReject(t, o) == view[t][o] = "pending_approval" /\ Send(t, "reject", o, NULL)

(* The modal takes the number of a purchase that was really made.          *)
ClickConfirm(t, o) ==
    /\ view[t][o] = "awaiting_purchase"
    /\ receipt[o] # NULL
    /\ Send(t, "confirm", o, receipt[o])

(* The operator refreshes tab t and pays for an order it shows as awaiting *)
(* a purchase; the numbers Amazon gives are new, AmazonNos bounds them.    *)
Buy(t, o, n) ==
    /\ tab[t] = Ready
    /\ orders[o].status = "awaiting_purchase"
    /\ receipt[o] = NULL
    /\ n \notin UNION {paid[p] : p \in Orders}
    /\ view' = [view EXCEPT ![t] = Shown]
    /\ receipt' = [receipt EXCEPT ![o] = n]
    /\ paid' = [paid EXCEPT ![o] = @ \cup {n}]
    /\ UNCHANGED <<deskVars, tab, faults>>
-----------------------------------------------------------------------------
(* The request reaches the server and gets a thread.                       *)
Begin(t, w) ==
    LET r == tab[t] IN
    /\ r.mode = "sent"
    /\ \/ r.op = "approve" /\ ApproveOrder(w, r.ord)
       \/ r.op = "confirm" /\ ConfirmPurchase(w, r.ord, r.no)
       \/ r.op = "reject"  /\ RejectOrder(w, r.ord)
    /\ tab' = [tab EXCEPT ![t].mode = "running", ![t].thread = w]
    /\ UNCHANGED <<view, receipt, paid, faults>>

Handle(w) == HandlerStep(w) /\ UNCHANGED consoleVars

(* act(): after an answer load() runs, and may itself fail and leave the   *)
(* old view; after an error nothing is reloaded.  busy is reset in both.   *)
Answer(t) ==
    LET w == tab[t].thread IN
    /\ tab[t].mode = "running"
    /\ \/ worker[w].reply = "ok" /\ Load(t)
       \/ UNCHANGED <<view, receipt>>
    /\ Respond(w)
    /\ tab' = [tab EXCEPT ![t] = Ready]
    /\ UNCHANGED <<paid, faults>>

(* The answer to a request its tab gave up on goes nowhere.                *)
Discard(w) ==
    /\ \A t \in Tabs : tab[t].thread # w
    /\ Respond(w)
    /\ UNCHANGED consoleVars
-----------------------------------------------------------------------------
Fault == faults < MaxFaults /\ faults' = faults + 1

Fail(w) ==
    /\ Fault
    /\ DatabaseError(w)
    /\ UNCHANGED <<view, tab, receipt, paid>>

(* The connection breaks: the page treats it as an error, the server's     *)
(* thread goes on.                                                         *)
GiveUp(t) ==
    /\ LossyLink
    /\ Fault
    /\ tab[t].mode \in {"sent", "running"}
    /\ tab' = [tab EXCEPT ![t] = Ready]
    /\ UNCHANGED <<deskVars, view, receipt, paid>>

(* The server dies: every request in flight is an error for its tab.       *)
ServerCrash ==
    /\ Fault
    /\ Crash
    /\ tab' = [t \in Tabs |-> Ready]
    /\ UNCHANGED <<view, receipt, paid>>
-----------------------------------------------------------------------------
Operator(t) ==
    \/ Reload(t)
    \/ \E o \in Orders :
          \/ ClickApprove(t, o)
          \/ ClickReject(t, o)
          \/ ClickConfirm(t, o)
          \/ \E n \in AmazonNos : Buy(t, o, n)

ConsoleNext ==
    \/ \E t \in Tabs : Operator(t) \/ Answer(t) \/ GiveUp(t)
    \/ \E t \in Tabs, w \in Workers : Begin(t, w)
    \/ \E w \in Workers : Handle(w) \/ Discard(w) \/ Fail(w)
    \/ ServerCrash

ConsoleSpec == ConsoleInit /\ [][ConsoleNext]_vars

(* The thread pool runs every request it was given and every handler that  *)
(* can take a step; the operator is never forced to do anything.           *)
Fairness ==
    /\ \A t \in Tabs : WF_vars(\E w \in Workers : Begin(t, w)) /\ WF_vars(Answer(t))
    /\ \A w \in Workers : WF_vars(Handle(w)) /\ WF_vars(Discard(w))

FairConsoleSpec == ConsoleSpec /\ Fairness
-----------------------------------------------------------------------------
Status == {"pending_approval", "awaiting_purchase", "purchased", "rejected"}

ConsoleTypeOK ==
    /\ TypeOK
    /\ view \in [Tabs -> [Orders -> Status]]
    /\ tab \in [Tabs -> [mode: {"ready", "sent", "running"},
                         op: {"none", "approve", "confirm", "reject"},
                         ord: Orders \cup {NULL}, no: MaybeNo,
                         thread: Workers \cup {NULL}]]
    /\ receipt \in [Orders -> MaybeNo]
    /\ paid \in [Orders -> SUBSET AmazonNos]
    /\ faults \in 0..MaxFaults

(* The point of the ledger (fulfiller.py, service.py:126): an operator who *)
(* pays only for what a fresh page shows as awaiting a purchase pays at    *)
(* most once for an order.                                                 *)
PaidOnce == \A o \in Orders : Cardinality(paid[o]) <= 1

(* Whatever overlaps or is lost: nothing is paid for before its line is in *)
(* the ledger, and a number on record, in either table, is the number of a *)
(* purchase made for that very order.                                      *)
MoneyTrail ==
    \A o \in Orders :
        /\ paid[o] # {} => ledger[o] # NoRow
        /\ {ledger[o].amz, orders[o].amz} \subseteq paid[o] \cup {NULL}

(* Nothing paid for drops out of sight: the purchase is on record in both  *)
(* tables, under one number and as bought, or its receipt is still in the  *)
(* operator's hands and the order still offers the confirm that takes it.  *)
NoPurchaseLost ==
    \A o \in Orders : \A n \in paid[o] :
        \/ /\ ledger[o] = [status |-> "purchased", amz |-> n]
           /\ orders[o] = [status |-> "purchased", fid |-> TRUE, amz |-> n]
        \/ /\ receipt[o] = n
           /\ orders[o].status = "awaiting_purchase"
           /\ orders[o].fid

(* Once the faults are over, one click on confirm is enough: the number    *)
(* reaches the ledger and the order row without further help.              *)
ConfirmIsRecorded ==
    \A t \in Tabs, o \in Orders, n \in AmazonNos :
        (/\ tab[t].mode = "sent" /\ tab[t].op = "confirm"
         /\ tab[t].ord = o /\ tab[t].no = n
         /\ faults = MaxFaults)
        ~> (/\ ledger[o] = [status |-> "purchased", amz |-> n]
            /\ orders[o] = [status |-> "purchased", fid |-> TRUE, amz |-> n]
            /\ \A s \in Tabs : tab[s] = Ready)
=============================================================================

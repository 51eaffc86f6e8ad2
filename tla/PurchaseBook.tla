---------------------------- MODULE PurchaseBook ----------------------------
(***************************************************************************)
(* What the fulfilment ledger promises, with no threads, tables or crashes *)
(* in sight (jikgugom/order/fulfiller.py, ledger.py): an order is entered  *)
(* once, whoever asks and however often; its purchase is then recorded;    *)
(* and an entry never goes back, neither to "awaiting_purchase" nor to     *)
(* having no Amazon number.  Recording again may correct the number.       *)
(***************************************************************************)

CONSTANTS Orders,      (* channel order numbers, the idempotency keys      *)
          AmazonNos,   (* Amazon order numbers an operator may enter       *)
          NULL         (* "no number"                                      *)

VARIABLE book          (* [Orders -> entry]                                *)

Absent == [status |-> "absent", amz |-> NULL]

Init == book = [o \in Orders |-> Absent]

Place(o) ==
    /\ book[o] = Absent
    /\ book' = [book EXCEPT ![o] = [status |-> "awaiting_purchase", amz |-> NULL]]

Record(o, n) ==
    /\ book[o] # Absent
    /\ book' = [book EXCEPT ![o] = [status |-> "purchased", amz |-> n]]

Next == \E o \in Orders : Place(o) \/ \E n \in AmazonNos : Record(o, n)

Spec == Init /\ [][Next]_book
=============================================================================

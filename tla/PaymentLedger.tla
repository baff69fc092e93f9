--------------------------- MODULE PaymentLedger ---------------------------
(***************************************************************************)
(* What the payment records promise: per payment, a status that only moves *)
(* forward and only as far as the provider's charge allows.  Requests,     *)
(* transactions, retries and subscriptions do not appear.                  *)
(***************************************************************************)
CONSTANT Payments

VARIABLES
    status,   \* what the service has recorded
    charge    \* what the provider did

ledger == <<status, charge>>

Init ==
    /\ status = [p \in Payments |-> "none"]
    /\ charge = [p \in Payments |-> "none"]

\* The provider charges a card once, and settles a 3DS payment once.
Provider(p) ==
    /\ \/ charge[p] = "none" /\ status[p] = "none"
       \/ charge[p] = "pending"
    /\ \E c \in {"pending", "succeeded", "canceled"} \ {charge[p]} :
         charge' = [charge EXCEPT ![p] = c]
    /\ UNCHANGED status

Set(p, st) == status' = [status EXCEPT ![p] = st] /\ UNCHANGED charge

\* A payment that waits for 3DS is recorded; it may have been settled since.
Record(p) == charge[p] # "none" /\ status[p] = "none" /\ Set(p, "pending")

Complete(p) ==
    charge[p] = "succeeded" /\ status[p] \in {"none", "pending"} /\ Set(p, "completed")

Cancel(p) == charge[p] = "canceled" /\ status[p] = "pending" /\ Set(p, "cancelled")

Next == \E p \in Payments : Provider(p) \/ Record(p) \/ Complete(p) \/ Cancel(p)

Spec == Init /\ [][Next]_ledger

=============================================================================

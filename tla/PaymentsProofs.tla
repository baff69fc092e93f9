--------------------------- MODULE PaymentsProofs ---------------------------
(***************************************************************************)
(* Proofs about Payments, for any number of payments, rows and requests.   *)
(***************************************************************************)
EXTENDS Payments, FiniteSetTheorems, TLAPS

\* A request that works on a payment has one, and a cancellation has a row.
RequestsWellFormed ==
    \A w \in Workers :
        /\ req[w].pc \in {"charge", "hold", "fetch", "pay", "void", "sub"} =>
             req[w].pay \in Payments
        /\ req[w].pc = "cancel" => req[w].sub \in SubIds

TypeInv == TypeOK /\ RequestsWellFormed

LEMMA IdleRequest == Idle \in Request
BY PaymentsAssumption DEF Idle, Request

LEMMA InitTypeInv == Init => TypeInv
BY PaymentsAssumption, IdleRequest
   DEF Init, TypeInv, TypeOK, RequestsWellFormed, PaymentRow, SubRow, Idle,
       PaymentStatus, SubscriptionStatus, ChargeStatus

\* Ending a request keeps the requests well-typed.
LEMMA FinishType ==
    ASSUME NEW w \in Workers, TypeInv, Finish(w)
    PROVE  req' \in [Workers -> Request] /\ RequestsWellFormed'
BY IdleRequest DEF TypeInv, TypeOK, RequestsWellFormed, Finish, Idle

\* So does moving one on, if it works on a payment.
LEMMA GotoType ==
    ASSUME NEW w \in Workers, TypeInv, req[w].pay \in Payments,
           NEW pc \in {"hold", "pay", "void"}, Goto(w, pc)
    PROVE  req' \in [Workers -> Request] /\ RequestsWellFormed'
BY DEF TypeInv, TypeOK, RequestsWellFormed, Goto, Request

\* And starting one.
LEMMA StartType ==
    ASSUME NEW w \in Workers, TypeInv, NEW p \in Payments,
           NEW k \in {"checkout", "verify", "webhook"},
           NEW pc \in {"charge", "fetch", "pay", "void"}, Start(w, k, pc, p)
    PROVE  req' \in [Workers -> Request] /\ RequestsWellFormed'
BY PaymentsAssumption DEF TypeInv, TypeOK, RequestsWellFormed, Start, Request, Idle

\* And recording what activate_subscription selected and computed.
LEMMA ActivationType ==
    ASSUME NEW w \in Workers, TypeInv, req[w].pay \in Payments,
           NEW e \in Nat, NEW s \in SubIds \cup {NoSub},
           \/ req' = [req EXCEPT ![w].pc = "sub", ![w].exp = e]
           \/ req' = [req EXCEPT ![w].pc = "sub", ![w].sub = s, ![w].exp = e]
    PROVE  req' \in [Workers -> Request] /\ RequestsWellFormed'
<1>1. req \in [Workers -> Request] /\ req[w] \in Request
  BY DEF TypeInv, TypeOK
<1>2. PICK r \in Request :
         r.pc = "sub" /\ r.pay = req[w].pay /\ req' = [req EXCEPT ![w] = r]
  <2>1. CASE req' = [req EXCEPT ![w].pc = "sub", ![w].exp = e]
    <3>1. [req[w] EXCEPT !.pc = "sub", !.exp = e] \in Request
      BY <1>1 DEF Request
    <3>2. req' = [req EXCEPT ![w] = [req[w] EXCEPT !.pc = "sub", !.exp = e]]
      BY <2>1, <1>1
    <3>3. QED
      BY <3>1, <3>2, <1>1 DEF Request
  <2>2. CASE req' = [req EXCEPT ![w].pc = "sub", ![w].sub = s, ![w].exp = e]
    <3>1. [req[w] EXCEPT !.pc = "sub", !.sub = s, !.exp = e] \in Request
      BY <1>1 DEF Request
    <3>2. req' = [req EXCEPT ![w] = [req[w] EXCEPT !.pc = "sub", !.sub = s, !.exp = e]]
      BY <2>2, <1>1
    <3>3. QED
      BY <3>1, <3>2, <1>1 DEF Request
  <2>3. QED
    BY <2>1, <2>2
<1>3. QED
  BY <1>1, <1>2 DEF TypeInv, RequestsWellFormed

\* And writing down what a request shares.
LEMMA RacedType ==
    ASSUME NEW w \in Workers, TypeInv, raced' = raced \cup Shared(w)
    PROVE  raced' \subseteq Payments \cup SubIds \cup {NoSub}
<1>1. req[w].sub \in SubIds \cup {NoSub}
  BY DEF TypeInv, TypeOK, Request
<1>2. Shared(w) \subseteq Payments \cup SubIds \cup {NoSub}
  BY <1>1 DEF Shared
<1>3. QED
  BY <1>2 DEF TypeInv, TypeOK

LEMMA NextTypeInv == TypeInv /\ [Next]_vars => TypeInv'
<1> SUFFICES ASSUME TypeInv, [Next]_vars PROVE TypeInv'
  OBVIOUS
<1> USE PaymentsAssumption
<1>1. CASE UpsertPlan
  BY <1>1 DEF UpsertPlan, external, TypeInv, TypeOK, RequestsWellFormed
<1>2. CASE PatchPlan
  BY <1>2 DEF PatchPlan, external, TypeInv, TypeOK, RequestsWellFormed
<1>3. CASE Tick
  BY <1>3 DEF Tick, external, tables, TypeInv, TypeOK, RequestsWellFormed
<1>4. ASSUME NEW p \in Payments, Resolve3DS(p) \/ WebhookDrop(p) PROVE TypeInv'
  BY <1>4 DEF Resolve3DS, WebhookDrop, tables, Final, ChargeStatus,
              TypeInv, TypeOK, RequestsWellFormed
<1>5. ASSUME NEW w \in Workers, NEW p \in Payments,
             CheckoutBegin(w, p) \/ VerifyBegin(w, p) \/ WebhookBegin(w, p)
      PROVE  TypeInv'
  <2>1. req' \in [Workers -> Request] /\ RequestsWellFormed'
    BY <1>5, StartType DEF CheckoutBegin, VerifyBegin, WebhookBegin
  <2>2. QED
    BY <2>1, <1>5 DEF CheckoutBegin, VerifyBegin, WebhookBegin, tables, external,
                      TypeInv, TypeOK
<1>6. ASSUME NEW w \in Workers, CancelBegin(w) PROVE TypeInv'
  <2>1. PICK s \in SubIds : req' = [req EXCEPT ![w] =
                 [Idle EXCEPT !.kind = "cancel", !.pc = "cancel", !.sub = s]]
    BY <1>6 DEF CancelBegin, CurrentRows, ActiveRows
  <2>2. req' \in [Workers -> Request] /\ RequestsWellFormed'
    BY <2>1 DEF TypeInv, TypeOK, RequestsWellFormed, Idle, Request
  <2>3. QED
    BY <2>2, <1>6 DEF CancelBegin, tables, external, TypeInv, TypeOK
<1>7. ASSUME NEW w \in Workers, NEW outcome \in {"pending"} \cup Final,
             NEW answered \in BOOLEAN, Charged(w, outcome, answered)
      PROVE  TypeInv'
  <2>1. req[w].pay \in Payments
    BY <1>7 DEF Charged, TypeInv, RequestsWellFormed
  <2>2. req' \in [Workers -> Request] /\ RequestsWellFormed'
    BY <1>7, <2>1, FinishType, GotoType DEF Charged
  <2>3. charge' \in [Payments -> ChargeStatus] /\ notices' \subseteq Payments
    BY <1>7, <2>1 DEF Charged, Final, ChargeStatus, TypeInv, TypeOK
  <2>4. QED
    BY <2>2, <2>3, <1>7 DEF Charged, tables, TypeInv, TypeOK
<1>8. ASSUME NEW w \in Workers, HoldPayment(w) \/ VoidPayment(w) PROVE TypeInv'
  <2>1. req' \in [Workers -> Request] /\ RequestsWellFormed'
    BY <1>8, FinishType DEF HoldPayment, VoidPayment
  <2>2. payments' \in [Payments -> PaymentRow]
    BY <1>8 DEF HoldPayment, VoidPayment, TypeInv, TypeOK, PaymentRow, PaymentStatus
  <2>3. QED
    BY <2>1, <2>2, <1>8 DEF HoldPayment, VoidPayment, Acknowledge, external,
                            TypeInv, TypeOK
<1>9. ASSUME NEW w \in Workers, VerifyFetch(w) PROVE TypeInv'
  <2>1. req' \in [Workers -> Request] /\ RequestsWellFormed'
    BY <1>9, FinishType, GotoType DEF VerifyFetch, TypeInv, RequestsWellFormed
  <2>2. QED
    BY <2>1, <1>9 DEF VerifyFetch, tables, external, TypeInv, TypeOK
<1>10. ASSUME NEW w \in Workers, MarkCompleted(w) PROVE TypeInv'
  <2>1. \A s \in SubIds : Later(subs[s].exp, now) \in Nat
    BY DEF Later, TypeInv, TypeOK, SubRow
  <2>2. req[w].pay \in Payments
    BY <1>10 DEF MarkCompleted, TypeInv, RequestsWellFormed
  <2>3. req' \in [Workers -> Request] /\ RequestsWellFormed'
    <3>1. CASE Finish(w)
      BY <3>1, FinishType
    <3>2. CASE req' = [req EXCEPT ![w].pc = "sub", ![w].exp = now + Duration]
      <4>1. now + Duration \in Nat
        BY DEF TypeInv, TypeOK
      <4>2. QED
        BY <3>2, <4>1, <2>2, ActivationType
    <3>3. ASSUME NEW s \in SubIds,
                 req' = [req EXCEPT ![w].pc = "sub", ![w].sub = s,
                                    ![w].exp = Later(subs[s].exp, now) + Duration]
          PROVE  req' \in [Workers -> Request] /\ RequestsWellFormed'
      <4>1. Later(subs[s].exp, now) + Duration \in Nat
        BY <2>1
      <4>2. QED
        BY <3>3, <4>1, <2>2, ActivationType
    <3>4. QED
      BY <1>10, <3>1, <3>2, <3>3 DEF MarkCompleted, SelectRow, ActiveRows
  <2>4. QED
    BY <2>3, <1>10 DEF MarkCompleted, tables, external, TypeInv, TypeOK
<1>11. ASSUME NEW w \in Workers, Activate(w) PROVE TypeInv'
  <2>1. PICK s \in SubIds : ActivateOn(w, s)
    BY <1>11 DEF Activate
  <2>2. req[w].pay \in Payments /\ req[w].exp \in Nat
    BY <1>11 DEF Activate, TypeInv, TypeOK, RequestsWellFormed, Request
  <2>3. req' \in [Workers -> Request] /\ RequestsWellFormed'
    BY <1>11, FinishType DEF Activate
  <2>4. subs' \in [SubIds -> SubRow]
    BY <2>1, <2>2 DEF ActivateOn, TypeInv, TypeOK, SubRow, SubscriptionStatus
  <2>5. /\ payments' \in [Payments -> PaymentRow]
        /\ credits' \in [Payments -> Nat]
    BY <2>1, <2>2 DEF ActivateOn, TypeInv, TypeOK, PaymentRow, PaymentStatus
  <2>6. raced' \subseteq Payments \cup SubIds \cup {NoSub}
    BY <2>1, RacedType DEF ActivateOn
  <2>7. QED
    BY <2>3, <2>4, <2>5, <2>6, <1>11 DEF Activate, Acknowledge, TypeInv, TypeOK
<1>12. ASSUME NEW w \in Workers, CancelWrite(w) PROVE TypeInv'
  <2>1. req' \in [Workers -> Request] /\ RequestsWellFormed'
    BY <1>12, FinishType DEF CancelWrite
  <2>2. subs' \in [SubIds -> SubRow]
    BY <1>12 DEF CancelWrite, TypeInv, TypeOK, SubRow, SubscriptionStatus
  <2>3. raced' \subseteq Payments \cup SubIds \cup {NoSub}
    BY <1>12, RacedType DEF CancelWrite
  <2>4. QED
    BY <2>1, <2>2, <2>3, <1>12 DEF CancelWrite, external, TypeInv, TypeOK
<1>13. ASSUME NEW w \in Workers, Abort(w) PROVE TypeInv'
  <2>1. req' \in [Workers -> Request] /\ RequestsWellFormed'
    BY <1>13, FinishType DEF Abort
  <2>2. QED
    BY <2>1, <1>13 DEF Abort, tables, external, TypeInv, TypeOK
<1>14. CASE UNCHANGED vars
  BY <1>14 DEF vars, TypeInv, TypeOK, RequestsWellFormed
<1>15. QED
  BY <1>1, <1>2, <1>3, <1>4, <1>5, <1>6, <1>7, <1>8, <1>9, <1>10, <1>11, <1>12,
     <1>13, <1>14 DEF Next, Handler

\* Every reachable state is well-typed, whatever the number of requests.
THEOREM TypeCorrect == Spec => []TypeOK
<1>1. Spec => []TypeInv
  BY InitTypeInv, NextTypeInv, PTL DEF Spec
<1>2. TypeInv => TypeOK
  BY DEF TypeInv
<1>3. QED
  BY <1>1, <1>2, PTL

-----------------------------------------------------------------------------
(***************************************************************************)
(* The records and the provider.                                           *)
(***************************************************************************)

\* What a request knows about its payment at each of its steps stays true until
\* its next one, although it holds no lock while it waits.
Knows(w) ==
    LET p == req[w].pay IN
    /\ req[w].pc = "charge" => charge[p] = "none"
    /\ req[w].pc = "hold" => charge[p] # "none"
    /\ req[w].pc \in {"pay", "sub"} => charge[p] = "succeeded"
    /\ req[w].pc = "void" => charge[p] = "canceled" /\ payments[p].status # "none"

\* Until its row is committed, nobody else works on a checkout's payment.
Owns(w) ==
    req[w].pc \in {"charge", "hold"} =>
        /\ payments[req[w].pay].status = "none"
        /\ \A v \in Workers \ {w} : req[v].pay # req[w].pay

NoticesAreFinal == \A p \in notices : charge[p] \in Final

ChargeInv ==
    /\ \A w \in Workers : Knows(w) /\ Owns(w)
    /\ NoticesAreFinal
    /\ RowsAgreeWithCharges

LEMMA InitChargeInv == Init => ChargeInv
BY DEF Init, ChargeInv, Knows, Owns, NoticesAreFinal, RowsAgreeWithCharges, Idle

\* A step that only ends a request.
LEMMA FinishChargeInv ==
    ASSUME TypeInv, ChargeInv, NEW w \in Workers, Finish(w),
           UNCHANGED <<payments, charge>>, notices' \subseteq notices
    PROVE  ChargeInv'
<1>1. \A v \in Workers : Knows(v)' /\ Owns(v)'
  BY PaymentsAssumption DEF TypeInv, TypeOK, RequestsWellFormed, ChargeInv, Knows, Owns, Finish, Idle
<1>2. QED
  BY <1>1 DEF ChargeInv, NoticesAreFinal, RowsAgreeWithCharges

\* A step that touches neither the requests nor the records.
LEMMA StutterChargeInv ==
    ASSUME ChargeInv, UNCHANGED <<req, payments, charge>>, notices' \subseteq notices
    PROVE  ChargeInv'
BY DEF ChargeInv, Knows, Owns, NoticesAreFinal, RowsAgreeWithCharges

LEMMA StartPay ==
    ASSUME NEW w \in Workers, req \in [Workers -> Request], NEW k, NEW pc, NEW p,
           Start(w, k, pc, p)
    PROVE  req'[w].pay = p /\ req'[w].pc = pc
BY DEF Start, Idle

\* What activate_subscription's SELECT leaves in the request.
LEMMA SelectRowEffect ==
    ASSUME TypeInv, NEW w \in Workers, NEW rows \in SUBSET SubIds, SelectRow(w, rows)
    PROVE  /\ \A v \in Workers \ {w} : req'[v] = req[v]
           /\ \/ req'[w] = Idle
              \/ /\ req'[w].pc = "sub"
                 /\ req'[w].pay = req[w].pay
                 /\ \/ /\ rows = {} /\ req'[w].sub = req[w].sub
                       /\ req'[w].exp = now + Duration
                    \/ /\ req'[w].sub \in rows
                       /\ req'[w].exp = Later(subs[req'[w].sub].exp, now) + Duration
<1>1. req \in [Workers -> Request] /\ req[w] \in Request
  BY DEF TypeInv, TypeOK
<1>2. CASE Finish(w)
  BY <1>1, <1>2 DEF Finish
<1>3. CASE rows = {} /\ req' = [req EXCEPT ![w].pc = "sub", ![w].exp = now + Duration]
  <2>1. req' = [req EXCEPT ![w] = [req[w] EXCEPT !.pc = "sub", !.exp = now + Duration]]
    BY <1>1, <1>3
  <2>2. req'[w] = [req[w] EXCEPT !.pc = "sub", !.exp = now + Duration]
    BY <1>1, <2>1
  <2>3. QED
    BY <1>1, <1>3, <2>1, <2>2 DEF Request
<1>4. ASSUME NEW s \in rows, NEW e,
             req' = [req EXCEPT ![w].pc = "sub", ![w].sub = s, ![w].exp = e]
      PROVE  /\ \A v \in Workers \ {w} : req'[v] = req[v]
             /\ req'[w].pc = "sub" /\ req'[w].pay = req[w].pay
             /\ req'[w].sub = s /\ req'[w].exp = e
  <2>1. req' = [req EXCEPT ![w] = [req[w] EXCEPT !.pc = "sub", !.sub = s, !.exp = e]]
    BY <1>1, <1>4
  <2>2. req'[w] = [req[w] EXCEPT !.pc = "sub", !.sub = s, !.exp = e]
    BY <1>1, <2>1
  <2>3. QED
    BY <1>1, <2>1, <2>2 DEF Request
<1>5. QED
  BY <1>2, <1>3, <1>4 DEF SelectRow

LEMMA NextChargeInv == TypeInv /\ ChargeInv /\ [Next]_vars => ChargeInv'
<1> SUFFICES ASSUME TypeInv, ChargeInv, [Next]_vars PROVE ChargeInv'
  OBVIOUS
<1> USE PaymentsAssumption
<1>1. CASE UpsertPlan \/ PatchPlan \/ Tick \/ UNCHANGED vars
  BY <1>1, StutterChargeInv DEF UpsertPlan, PatchPlan, Tick, tables, external, vars
<1>2. ASSUME NEW p \in Payments, WebhookDrop(p) PROVE ChargeInv'
  BY <1>2, StutterChargeInv DEF WebhookDrop, tables
<1>3. ASSUME NEW p \in Payments, Resolve3DS(p) PROVE ChargeInv'
  <2>1. PICK c \in Final : charge' = [charge EXCEPT ![p] = c]
    BY <1>3 DEF Resolve3DS
  <2>2. charge[p] = "pending" /\ charge'[p] \in Final /\ charge'[p] # "none"
        /\ \A q \in Payments \ {p} : charge'[q] = charge[q]
    BY <1>3, <2>1 DEF Resolve3DS, TypeInv, TypeOK, Final
  <2>3. \A v \in Workers : Knows(v)' /\ Owns(v)'
    BY <1>3, <2>2 DEF Resolve3DS, tables, TypeInv, RequestsWellFormed, ChargeInv, Knows, Owns
  <2>4. NoticesAreFinal' /\ RowsAgreeWithCharges'
    BY <1>3, <2>2 DEF Resolve3DS, tables, ChargeInv, NoticesAreFinal, RowsAgreeWithCharges,
                      TypeInv, TypeOK
  <2>5. QED
    BY <2>3, <2>4 DEF ChargeInv
<1>4. ASSUME NEW w \in Workers, NEW p \in Payments,
             CheckoutBegin(w, p) \/ VerifyBegin(w, p) \/ WebhookBegin(w, p)
      PROVE  ChargeInv'
  <2>1. UNCHANGED <<payments, charge, notices>>
    BY <1>4 DEF CheckoutBegin, VerifyBegin, WebhookBegin, tables, external
  <2>2. \A v \in Workers \ {w} : req'[v] = req[v]
    BY <1>4 DEF CheckoutBegin, VerifyBegin, WebhookBegin, Start, TypeInv, TypeOK
  <2>3. req'[w].pay = p
    BY <1>4, StartPay DEF CheckoutBegin, VerifyBegin, WebhookBegin, TypeInv, TypeOK
  <2>4. \/ req'[w].pc = "charge" /\ Fresh(p)
        \/ req'[w].pc = "fetch" /\ payments[p].status # "none"
        \/ req'[w].pc = "pay" /\ charge[p] = "succeeded" /\ payments[p].status # "none"
        \/ req'[w].pc = "void" /\ charge[p] = "canceled" /\ payments[p].status # "none"
    BY <1>4 DEF CheckoutBegin, VerifyBegin, WebhookBegin, Start, Idle, TypeInv, TypeOK,
                ChargeInv, NoticesAreFinal, Final
  <2>5. \A v \in Workers : Knows(v)'
    BY <2>1, <2>2, <2>3, <2>4 DEF ChargeInv, Knows, Fresh
  <2>6. \A v \in Workers : Owns(v)'
    BY <2>1, <2>2, <2>3, <2>4 DEF ChargeInv, Owns, Fresh
  <2>7. QED
    BY <2>1, <2>5, <2>6 DEF ChargeInv, NoticesAreFinal, RowsAgreeWithCharges
<1>5. ASSUME NEW w \in Workers, CancelBegin(w) PROVE ChargeInv'
  <2>1. UNCHANGED <<payments, charge, notices>>
    BY <1>5 DEF CancelBegin, tables, external
  <2>2. \A v \in Workers \ {w} : req'[v] = req[v]
    BY <1>5 DEF CancelBegin, TypeInv, TypeOK
  <2>3. req'[w].pay = NoPayment /\ req'[w].pc = "cancel"
    BY <1>5 DEF CancelBegin, Idle, TypeInv, TypeOK
  <2>4. \A v \in Workers : Knows(v)' /\ Owns(v)'
    BY <2>1, <2>2, <2>3 DEF ChargeInv, Knows, Owns, TypeInv, RequestsWellFormed
  <2>5. QED
    BY <2>1, <2>4 DEF ChargeInv, NoticesAreFinal, RowsAgreeWithCharges
<1>6. ASSUME NEW w \in Workers, NEW outcome \in {"pending"} \cup Final,
             NEW answered \in BOOLEAN, Charged(w, outcome, answered)
      PROVE  ChargeInv'
  <2> DEFINE p == req[w].pay
  <2>1. p \in Payments /\ charge[p] = "none" /\ payments[p].status = "none"
        /\ \A v \in Workers \ {w} : req[v].pay # p
    BY <1>6 DEF Charged, TypeInv, RequestsWellFormed, ChargeInv, Knows, Owns
  <2>2. charge'[p] = outcome /\ \A q \in Payments \ {p} : charge'[q] = charge[q]
    BY <1>6, <2>1 DEF Charged, TypeInv, TypeOK
  <2>3. UNCHANGED payments /\ \A v \in Workers \ {w} : req'[v] = req[v]
    BY <1>6 DEF Charged, Goto, Finish, tables, TypeInv, TypeOK
  <2>4. \/ req'[w] = Idle
        \/ req'[w].pay = p /\ req'[w].pc = "pay" /\ outcome = "succeeded"
        \/ req'[w].pay = p /\ req'[w].pc = "hold" /\ outcome = "pending"
    BY <1>6 DEF Charged, Goto, Finish, TypeInv, TypeOK, Request
  <2>5. Knows(w)' /\ Owns(w)'
    BY <2>1, <2>2, <2>3, <2>4 DEF Knows, Owns, Idle
  <2>6. \A v \in Workers \ {w} : Knows(v)' /\ Owns(v)'
    BY <2>1, <2>2, <2>3, <2>4 DEF Knows, Owns, Idle, ChargeInv, TypeInv, RequestsWellFormed
  <2>7. NoticesAreFinal'
    BY <1>6, <2>1, <2>2 DEF Charged, ChargeInv, NoticesAreFinal, TypeInv, TypeOK, Final
  <2>8. RowsAgreeWithCharges'
    BY <2>1, <2>2, <2>3 DEF ChargeInv, RowsAgreeWithCharges
  <2>9. QED
    BY <2>5, <2>6, <2>7, <2>8 DEF ChargeInv
<1>7. ASSUME NEW w \in Workers, HoldPayment(w) \/ VoidPayment(w) PROVE ChargeInv'
  <2> DEFINE p == req[w].pay
  <2>1. p \in Payments /\ UNCHANGED charge /\ notices' \subseteq notices
    BY <1>7 DEF HoldPayment, VoidPayment, Acknowledge, external, TypeInv, RequestsWellFormed
  <2>2. /\ \A q \in Payments \ {p} : payments'[q] = payments[q]
        /\ \/ payments'[p].status = "pending" /\ charge[p] # "none"
           \/ payments'[p].status = "cancelled" /\ charge[p] = "canceled"
    BY <1>7, <2>1 DEF HoldPayment, VoidPayment, ChargeInv, Knows, TypeInv, TypeOK, PaymentRow
  <2>3. req'[w] = Idle /\ \A v \in Workers \ {w} : req'[v] = req[v]
    BY <1>7 DEF HoldPayment, VoidPayment, Finish, TypeInv, TypeOK
  <2>4. \A v \in Workers \ {w} : req[v].pc \in {"charge", "hold"} => req[v].pay # p
    BY <1>7 DEF HoldPayment, VoidPayment, ChargeInv, Owns
  <2>5. \A v \in Workers : Knows(v)'
    BY <2>1, <2>2, <2>3 DEF Knows, Idle, ChargeInv, TypeInv, RequestsWellFormed
  <2>6. \A v \in Workers : Owns(v)'
    BY <2>1, <2>2, <2>3, <2>4 DEF Owns, Idle, ChargeInv, TypeInv, RequestsWellFormed
  <2>7. NoticesAreFinal' /\ RowsAgreeWithCharges'
    BY <2>1, <2>2 DEF ChargeInv, NoticesAreFinal, RowsAgreeWithCharges
  <2>8. QED
    BY <2>5, <2>6, <2>7 DEF ChargeInv
<1>8. ASSUME NEW w \in Workers, VerifyFetch(w) \/ MarkCompleted(w) PROVE ChargeInv'
  <2> DEFINE p == req[w].pay
  <2>1. UNCHANGED <<payments, charge, notices>> /\ p \in Payments
    BY <1>8 DEF VerifyFetch, MarkCompleted, tables, external, TypeInv, RequestsWellFormed
  <2>2. \A v \in Workers \ {w} : req'[v] = req[v]
    BY <1>8 DEF VerifyFetch, MarkCompleted, SelectRow, Goto, Finish, TypeInv, TypeOK
  <2>3. \/ req'[w] = Idle
        \/ req'[w].pay = p /\ req'[w].pc \in {"pay", "sub"} /\ charge[p] = "succeeded"
    <3>1. CASE VerifyFetch(w)
      BY <3>1 DEF VerifyFetch, Goto, Finish, TypeInv, TypeOK, Request
    <3>2. CASE MarkCompleted(w)
      <4>1. charge[p] = "succeeded"
        BY <3>2 DEF MarkCompleted, ChargeInv, Knows
      <4>2. req'[w] = Idle \/ (req'[w].pay = p /\ req'[w].pc = "sub")
        BY <3>2, SelectRowEffect DEF MarkCompleted, ActiveRows
      <4>3. QED
        BY <4>1, <4>2
    <3>3. QED
      BY <1>8, <3>1, <3>2
  <2>4. \A v \in Workers : Knows(v)'
    BY <2>1, <2>2, <2>3 DEF Knows, Idle, ChargeInv
  <2>5. \A v \in Workers : Owns(v)'
    BY <2>1, <2>2, <2>3 DEF Owns, Idle, ChargeInv, TypeInv, RequestsWellFormed
  <2>6. QED
    BY <2>1, <2>4, <2>5 DEF ChargeInv, NoticesAreFinal, RowsAgreeWithCharges
<1>9. ASSUME NEW w \in Workers, Activate(w) PROVE ChargeInv'
  <2> DEFINE p == req[w].pay
  <2>1. PICK s \in SubIds : ActivateOn(w, s)
    BY <1>9 DEF Activate
  <2>2. p \in Payments /\ UNCHANGED charge /\ notices' \subseteq notices
        /\ charge[p] = "succeeded"
    BY <1>9 DEF Activate, Acknowledge, TypeInv, RequestsWellFormed, ChargeInv, Knows
  <2>3. payments'[p].status = "completed"
        /\ \A q \in Payments \ {p} : payments'[q] = payments[q]
    BY <2>1, <2>2 DEF ActivateOn, TypeInv, TypeOK, PaymentRow
  <2>4. req'[w] = Idle /\ \A v \in Workers \ {w} : req'[v] = req[v]
    BY <1>9 DEF Activate, Finish, TypeInv, TypeOK
  <2>5. \A v \in Workers \ {w} : req[v].pc \in {"charge", "hold"} => req[v].pay # p
    BY <1>9 DEF Activate, ChargeInv, Owns
  <2>6. \A v \in Workers : Knows(v)'
    BY <2>2, <2>3, <2>4 DEF Knows, Idle, ChargeInv, TypeInv, RequestsWellFormed
  <2>7. \A v \in Workers : Owns(v)'
    BY <2>3, <2>4, <2>5 DEF Owns, Idle, ChargeInv, TypeInv, RequestsWellFormed
  <2>8. QED
    BY <2>2, <2>3, <2>6, <2>7 DEF ChargeInv, NoticesAreFinal, RowsAgreeWithCharges
<1>10. ASSUME NEW w \in Workers, CancelWrite(w) \/ Abort(w) PROVE ChargeInv'
  BY <1>10, FinishChargeInv DEF CancelWrite, Abort, tables, external
<1>11. QED
  BY <1>1, <1>2, <1>3, <1>4, <1>5, <1>6, <1>7, <1>8, <1>9, <1>10 DEF Next, Handler

\* The payments table agrees with the provider in every reachable state: nothing
\* is completed that was not charged, nothing cancelled that was.
THEOREM RecordsAgree == Spec => []RowsAgreeWithCharges
<1>1. Spec => [](TypeInv /\ ChargeInv)
  BY InitTypeInv, NextTypeInv, InitChargeInv, NextChargeInv, PTL DEF Spec
<1>2. ChargeInv => RowsAgreeWithCharges
  BY DEF ChargeInv
<1>3. QED
  BY <1>1, <1>2, PTL

-----------------------------------------------------------------------------
(***************************************************************************)
(* The subscription rows.                                                  *)
(***************************************************************************)

\* What activate_subscription selected stays true until it writes: the row it
\* will extend is still there, and if it selected none, its payment still has no
\* active row (the lock on the payment row keeps the others out).
RowKnown(w) ==
    /\ req[w].pc \notin {"sub", "cancel"} => req[w].sub = NoSub
    /\ req[w].pc = "sub" /\ req[w].sub # NoSub => subs[req[w].sub].status # "none"
    /\ req[w].pc = "sub" /\ req[w].sub = NoSub =>
         \A s \in ActiveRows : subs[s].by # req[w].pay

\* The row lock: one request at a time activates a payment.
OneHolder ==
    \A v, w \in Workers :
        req[v].pc = "sub" /\ req[w].pc = "sub" /\ req[v].pay = req[w].pay => v = w

RequestInv == OneHolder /\ \A w \in Workers : RowKnown(w)

SubInv == RequestInv /\ CompletedIffActivated /\ ActiveRowsFromDistinctPayments

LEMMA InitSubInv == Init => SubInv
BY DEF Init, SubInv, RequestInv, OneHolder, RowKnown, CompletedIffActivated,
       ActiveRowsFromDistinctPayments, ActiveRows, Idle

\* A step that leaves the tables alone and whose request holds no lock after it.
LEMMA QuietSubInv ==
    ASSUME SubInv, UNCHANGED <<payments, subs, credits>>, NEW w \in Workers,
           \A v \in Workers \ {w} : req'[v] = req[v],
           req'[w].pc # "sub", req'[w].pc # "cancel" => req'[w].sub = NoSub
    PROVE  SubInv'
<1>1. RequestInv'
  BY DEF SubInv, RequestInv, OneHolder, RowKnown, ActiveRows
<1>2. QED
  BY <1>1 DEF SubInv, CompletedIffActivated, ActiveRowsFromDistinctPayments, ActiveRows

LEMMA StutterSubInv ==
    ASSUME SubInv, UNCHANGED <<payments, subs, credits, req>>
    PROVE  SubInv'
BY DEF SubInv, RequestInv, OneHolder, RowKnown, CompletedIffActivated,
       ActiveRowsFromDistinctPayments, ActiveRows

\* A request that ends, after writing rows in a way that no other request that
\* activates can tell.
LEMMA WriteRequestInv ==
    ASSUME TypeInv, SubInv, NEW w \in Workers,
           \A v \in Workers \ {w} : req'[v] = req[v], req'[w] = Idle,
           \A t \in SubIds : subs[t].status # "none" => subs'[t].status # "none",
           \A t \in SubIds : subs'[t].status = "active" =>
               \/ subs[t].status = "active" /\ subs'[t].by = subs[t].by
               \/ \A v \in Workers \ {w} : req[v].pc = "sub" => req[v].pay # subs'[t].by
    PROVE  RequestInv'
<1>1. RowKnown(w)' /\ OneHolder'
  BY DEF RowKnown, SubInv, RequestInv, OneHolder, Idle
<1>2. ASSUME NEW v \in Workers \ {w} PROVE RowKnown(v)'
  <2>1. RowKnown(v) /\ req'[v] = req[v] /\ req[v].sub \in SubIds \cup {NoSub}
    BY DEF SubInv, RequestInv, TypeInv, TypeOK, Request
  <2>2. QED
    BY <2>1 DEF RowKnown, ActiveRows
<1>3. QED
  BY <1>1, <1>2 DEF RequestInv

LEMMA NextSubInv == TypeInv /\ ChargeInv /\ SubInv /\ [Next]_vars => SubInv'
<1> SUFFICES ASSUME TypeInv, ChargeInv, SubInv, [Next]_vars PROVE SubInv'
  OBVIOUS
<1> USE PaymentsAssumption
<1>0. req \in [Workers -> Request]
  BY DEF TypeInv, TypeOK
<1>1. CASE UpsertPlan \/ PatchPlan \/ Tick \/ UNCHANGED vars
  BY <1>1, StutterSubInv DEF UpsertPlan, PatchPlan, Tick, tables, vars
<1>2. ASSUME NEW p \in Payments, Resolve3DS(p) \/ WebhookDrop(p) PROVE SubInv'
  BY <1>2, StutterSubInv DEF Resolve3DS, WebhookDrop, tables
<1>3. ASSUME NEW w \in Workers, NEW p \in Payments,
             CheckoutBegin(w, p) \/ VerifyBegin(w, p) \/ WebhookBegin(w, p)
      PROVE  SubInv'
  <2>1. /\ \A v \in Workers \ {w} : req'[v] = req[v]
        /\ req'[w].sub = NoSub /\ req'[w].pc \in {"charge", "fetch", "pay", "void"}
    BY <1>3, <1>0 DEF CheckoutBegin, VerifyBegin, WebhookBegin, Start, Idle
  <2>2. QED
    BY <2>1, <1>3, QuietSubInv DEF CheckoutBegin, VerifyBegin, WebhookBegin, tables
<1>4. ASSUME NEW w \in Workers, CancelBegin(w) PROVE SubInv'
  <2>1. (\A v \in Workers \ {w} : req'[v] = req[v]) /\ req'[w].pc = "cancel"
    BY <1>4, <1>0 DEF CancelBegin, Idle
  <2>2. QED
    BY <2>1, <1>4, QuietSubInv DEF CancelBegin, tables
<1>5. ASSUME NEW w \in Workers, NEW outcome \in {"pending"} \cup Final,
             NEW answered \in BOOLEAN,
             Charged(w, outcome, answered) \/ VerifyFetch(w) \/ Abort(w)
      PROVE  SubInv'
  <2>1. Finish(w) \/ Goto(w, "pay") \/ Goto(w, "hold")
    BY <1>5 DEF Charged, VerifyFetch, Abort
  <2>2. CASE Finish(w)
    <3>1. (\A v \in Workers \ {w} : req'[v] = req[v]) /\ req'[w] = Idle
      BY <2>2, <1>0 DEF Finish
    <3>2. QED
      BY <3>1, <1>5, QuietSubInv DEF Charged, VerifyFetch, Abort, tables, Idle
  <2>3. CASE ~Abort(w) /\ (Goto(w, "pay") \/ Goto(w, "hold"))
    <3>1. req[w].sub = NoSub
      BY <1>5, <2>3 DEF Charged, VerifyFetch, SubInv, RequestInv, RowKnown
    <3>2. /\ \A v \in Workers \ {w} : req'[v] = req[v]
          /\ req'[w].sub = req[w].sub /\ req'[w].pc \in {"pay", "hold"}
      BY <2>3, <1>0 DEF Goto, Request
    <3>3. QED
      BY <3>1, <3>2, <1>5, QuietSubInv DEF Charged, VerifyFetch, Abort, tables
  <2>4. QED
    BY <2>1, <2>2, <2>3 DEF Abort
<1>6. ASSUME NEW w \in Workers, HoldPayment(w) \/ VoidPayment(w) PROVE SubInv'
  <2> DEFINE p == req[w].pay
  <2>1. /\ p \in Payments /\ payments[p].status # "completed"
        /\ UNCHANGED <<subs, credits>>
    BY <1>6 DEF HoldPayment, VoidPayment, TypeInv, RequestsWellFormed, ChargeInv,
                Knows, Owns, RowsAgreeWithCharges
  <2>2. /\ payments'[p].status # "completed"
        /\ \A q \in Payments \ {p} : payments'[q] = payments[q]
    BY <1>6, <2>1 DEF HoldPayment, VoidPayment, TypeInv, TypeOK, PaymentRow
  <2>3. (\A v \in Workers \ {w} : req'[v] = req[v]) /\ req'[w] = Idle
    BY <1>6, <1>0 DEF HoldPayment, VoidPayment, Finish
  <2>4. RequestInv'
    BY <2>1, <2>3 DEF SubInv, RequestInv, OneHolder, RowKnown, ActiveRows, Idle
  <2>5. CompletedIffActivated'
    BY <2>1, <2>2 DEF SubInv, CompletedIffActivated
  <2>6. QED
    BY <2>1, <2>4, <2>5 DEF SubInv, ActiveRowsFromDistinctPayments, ActiveRows
<1>7. ASSUME NEW w \in Workers, MarkCompleted(w) PROVE SubInv'
  <2>1. /\ UNCHANGED <<payments, subs, credits>>
        /\ req[w].pc = "pay" /\ ~Locked(req[w].pay) /\ SelectRow(w, ActiveRows)
        /\ ActiveRows \subseteq SubIds
    BY <1>7 DEF MarkCompleted, tables, ActiveRows
  <2>2. req[w].sub = NoSub
    BY <2>1 DEF SubInv, RequestInv, RowKnown
  <2>3. CASE req'[w] = Idle
    BY <2>1, <2>3, SelectRowEffect, QuietSubInv DEF Idle
  <2>4. CASE /\ req'[w].pc = "sub" /\ req'[w].pay = req[w].pay
             /\ \/ ActiveRows = {} /\ req'[w].sub = NoSub
                \/ req'[w].sub \in ActiveRows
    <3>1. \A v \in Workers \ {w} : req'[v] = req[v]
      BY <2>1, SelectRowEffect
    <3>2. OneHolder'
      BY <2>1, <2>4, <3>1 DEF SubInv, RequestInv, OneHolder, Locked
    <3>3. RowKnown(w)'
      BY <2>1, <2>4 DEF RowKnown, ActiveRows
    <3>4. \A v \in Workers \ {w} : RowKnown(v)'
      BY <2>1, <3>1 DEF SubInv, RequestInv, RowKnown, ActiveRows
    <3>5. QED
      BY <2>1, <3>2, <3>3, <3>4 DEF SubInv, RequestInv, CompletedIffActivated,
         ActiveRowsFromDistinctPayments, ActiveRows
  <2>5. QED
    BY <2>1, <2>2, <2>3, <2>4, SelectRowEffect
<1>8. ASSUME NEW w \in Workers, Activate(w) PROVE SubInv'
  <2> DEFINE p == req[w].pay
  <2>1. PICK s \in SubIds :
             /\ IF req[w].sub = NoSub THEN subs[s].status = "none" ELSE s = req[w].sub
             /\ ActivateOn(w, s)
    BY <1>8 DEF Activate
  <2>2. p \in Payments /\ req[w].pc = "sub"
    BY <1>8 DEF Activate, TypeInv, RequestsWellFormed
  <2>3. (\A v \in Workers \ {w} : req'[v] = req[v]) /\ req'[w] = Idle
    BY <1>8, <1>0 DEF Activate, Finish
  <2>4. /\ payments'[p] = [status |-> "completed", sub |-> s]
        /\ \A q \in Payments \ {p} : payments'[q] = payments[q] /\ credits'[q] = credits[q]
        /\ credits'[p] = credits[p] + 1 /\ credits[p] \in Nat
    BY <2>1, <2>2 DEF ActivateOn, TypeInv, TypeOK
  <2>5. \A t \in SubIds \ {s} : subs'[t] = subs[t]
    BY <2>1 DEF ActivateOn, TypeInv, TypeOK
  <2>6. CASE req[w].sub = NoSub
    <3>1. subs'[s].status = "active" /\ subs'[s].by = p /\ subs[s].status = "none"
      BY <2>1, <2>6 DEF ActivateOn, TypeInv, TypeOK
    <3>2. \A t \in ActiveRows : subs[t].by # p
      BY <2>2, <2>6 DEF SubInv, RequestInv, RowKnown
    <3>3. ActiveRowsFromDistinctPayments'
      BY <3>1, <3>2, <2>5 DEF SubInv, ActiveRowsFromDistinctPayments, ActiveRows
    <3>4. \A v \in Workers \ {w} : req[v].pc = "sub" => req[v].pay # p
      BY <2>2 DEF SubInv, RequestInv, OneHolder
    <3>5. RequestInv'
      BY <2>3, <2>5, <3>1, <3>4, WriteRequestInv
    <3>6. CompletedIffActivated'
      BY <2>4, <2>5, <3>1 DEF SubInv, CompletedIffActivated
    <3>7. QED
      BY <3>3, <3>5, <3>6 DEF SubInv
  <2>7. CASE req[w].sub # NoSub
    <3>1. subs'[s].status = subs[s].status /\ subs'[s].by = subs[s].by
          /\ subs[s].status # "none"
      BY <2>1, <2>2, <2>7 DEF ActivateOn, TypeInv, TypeOK, SubRow, SubInv, RequestInv, RowKnown
    <3>2. ActiveRowsFromDistinctPayments'
      BY <3>1, <2>5 DEF SubInv, ActiveRowsFromDistinctPayments, ActiveRows
    <3>3. RequestInv'
      BY <2>3, <2>5, <3>1, WriteRequestInv
    <3>4. CompletedIffActivated'
      BY <2>4, <2>5, <3>1 DEF SubInv, CompletedIffActivated
    <3>5. QED
      BY <3>2, <3>3, <3>4 DEF SubInv
  <2>8. QED
    BY <2>6, <2>7
<1>9. ASSUME NEW w \in Workers, CancelWrite(w) PROVE SubInv'
  <2>1. PICK s \in SubIds : subs' = [subs EXCEPT ![s].status = "cancelled"]
    BY <1>9 DEF CancelWrite, TypeInv, RequestsWellFormed
  <2>2. /\ subs'[s].status = "cancelled"
        /\ \A t \in SubIds \ {s} : subs'[t] = subs[t]
        /\ \A t \in SubIds : subs'[t].by = subs[t].by
    BY <2>1 DEF TypeInv, TypeOK, SubRow
  <2>3. (\A v \in Workers \ {w} : req'[v] = req[v]) /\ req'[w] = Idle
    BY <1>9, <1>0 DEF CancelWrite, Finish
  <2>4. RequestInv'
    BY <2>2, <2>3, WriteRequestInv
  <2>5. CompletedIffActivated'
    BY <1>9, <2>2 DEF CancelWrite, SubInv, CompletedIffActivated
  <2>6. QED
    BY <2>2, <2>4, <2>5 DEF SubInv, ActiveRowsFromDistinctPayments, ActiveRows
<1>10. ASSUME NEW w \in Workers, Abort(w) PROVE SubInv'
  <2>1. (\A v \in Workers \ {w} : req'[v] = req[v]) /\ req'[w] = Idle
    BY <1>10, <1>0 DEF Abort, Finish
  <2>2. QED
    BY <2>1, <1>10, QuietSubInv DEF Abort, tables, Idle
<1>11. QED
  BY <1>1, <1>2, <1>3, <1>4, <1>5, <1>6, <1>7, <1>8, <1>9, <1>10 DEF Next, Handler

LEMMA Invariants == Spec => [](TypeInv /\ ChargeInv /\ SubInv)
BY InitTypeInv, NextTypeInv, InitChargeInv, NextChargeInv, InitSubInv, NextSubInv,
   PTL DEF Spec

\* Completing a payment and activating for it happen together or not at all.
THEOREM CompletionIsActivation == Spec => []CompletedIffActivated
<1>1. SubInv => CompletedIffActivated
  BY DEF SubInv
<1>2. QED
  BY <1>1, Invariants, PTL

\* No payment, however often it is reported, leaves two active subscriptions.
THEOREM DistinctPayments == Spec => []ActiveRowsFromDistinctPayments
<1>1. SubInv => ActiveRowsFromDistinctPayments
  BY DEF SubInv
<1>2. QED
  BY <1>1, Invariants, PTL

-----------------------------------------------------------------------------
(***************************************************************************)
(* The records implement the ledger.                                       *)
(***************************************************************************)

\* Writing one payment's row is a Set of the ledger, or a stutter.
LEMMA SetStatus ==
    ASSUME TypeInv, NEW p \in Payments, NEW row \in PaymentRow,
           payments' = [payments EXCEPT ![p] = row], UNCHANGED charge
    PROVE  /\ Ledger!Set(p, row.status)
           /\ row.status = payments[p].status => UNCHANGED Ledger!ledger
<1> DEFINE st == [q \in Payments |-> payments[q].status]
<1>1. [q \in Payments |-> payments'[q].status] = [st EXCEPT ![p] = row.status]
  BY DEF TypeInv, TypeOK, PaymentRow
<1>2. row.status = payments[p].status => [st EXCEPT ![p] = row.status] = st
  OBVIOUS
<1>3. QED
  BY <1>1, <1>2 DEF Ledger!Set, Ledger!ledger

LEMMA InitLedger == Init => Ledger!Init
BY DEF Init, Ledger!Init

LEMMA NextLedger ==
    TypeInv /\ ChargeInv /\ [Next]_vars => [Ledger!Next]_(Ledger!ledger)
<1> SUFFICES ASSUME TypeInv, ChargeInv, [Next]_vars
             PROVE  [Ledger!Next]_(Ledger!ledger)
  OBVIOUS
<1>1. CASE UNCHANGED <<payments, charge>>
  BY <1>1 DEF Ledger!ledger
<1>2. ASSUME NEW p \in Payments, Resolve3DS(p) PROVE Ledger!Next
  BY <1>2 DEF Resolve3DS, tables, Final, Ledger!Next, Ledger!Provider
<1>3. ASSUME NEW w \in Workers, NEW outcome \in {"pending"} \cup Final,
             NEW answered \in BOOLEAN, Charged(w, outcome, answered)
      PROVE  Ledger!Next
  <2> DEFINE p == req[w].pay
  <2>1. p \in Payments /\ charge[p] = "none" /\ payments[p].status = "none"
    BY <1>3 DEF Charged, TypeInv, RequestsWellFormed, ChargeInv, Knows, Owns
  <2>2. Ledger!Provider(p)
    BY <1>3, <2>1 DEF Charged, tables, Final, Ledger!Provider
  <2>3. QED
    BY <2>1, <2>2 DEF Ledger!Next
<1>4. ASSUME NEW w \in Workers, HoldPayment(w) PROVE Ledger!Next
  <2> DEFINE p == req[w].pay
  <2>1. p \in Payments /\ charge[p] # "none" /\ payments[p].status = "none"
    BY <1>4 DEF HoldPayment, TypeInv, RequestsWellFormed, ChargeInv, Knows, Owns
  <2>2. /\ [payments[p] EXCEPT !.status = "pending"] \in PaymentRow
        /\ payments' = [payments EXCEPT ![p] = [payments[p] EXCEPT !.status = "pending"]]
        /\ UNCHANGED charge
    BY <1>4, <2>1 DEF HoldPayment, external, TypeInv, TypeOK, PaymentRow, PaymentStatus
  <2>3. Ledger!Set(p, "pending")
    BY <2>1, <2>2, SetStatus DEF TypeInv, TypeOK, PaymentRow
  <2>4. QED
    BY <2>1, <2>3 DEF Ledger!Next, Ledger!Record
<1>5. ASSUME NEW w \in Workers, VoidPayment(w) PROVE [Ledger!Next]_(Ledger!ledger)
  <2> DEFINE p == req[w].pay
  <2>1. p \in Payments /\ charge[p] = "canceled"
        /\ payments[p].status \in {"pending", "cancelled"}
    BY <1>5 DEF VoidPayment, TypeInv, TypeOK, PaymentRow, PaymentStatus,
                RequestsWellFormed, ChargeInv, Knows, RowsAgreeWithCharges
  <2>2. /\ [payments[p] EXCEPT !.status = "cancelled"] \in PaymentRow
        /\ payments' = [payments EXCEPT ![p] = [payments[p] EXCEPT !.status = "cancelled"]]
        /\ UNCHANGED charge
    BY <1>5, <2>1 DEF VoidPayment, TypeInv, TypeOK, PaymentRow, PaymentStatus
  <2>3. /\ Ledger!Set(p, "cancelled")
        /\ payments[p].status = "cancelled" => UNCHANGED Ledger!ledger
    BY <2>1, <2>2, SetStatus DEF TypeInv, TypeOK, PaymentRow
  <2>4. QED
    BY <2>1, <2>3 DEF Ledger!Next, Ledger!Cancel
<1>6. ASSUME NEW w \in Workers, Activate(w) PROVE [Ledger!Next]_(Ledger!ledger)
  <2> DEFINE p == req[w].pay
  <2>1. p \in Payments /\ charge[p] = "succeeded"
        /\ payments[p].status \in {"none", "pending", "completed"}
    BY <1>6 DEF Activate, TypeInv, TypeOK, PaymentRow, PaymentStatus,
                RequestsWellFormed, ChargeInv, Knows, RowsAgreeWithCharges
  <2>2. PICK s \in SubIds :
             payments' = [payments EXCEPT ![p] = [status |-> "completed", sub |-> s]]
    BY <1>6 DEF Activate, ActivateOn
  <2>3. [status |-> "completed", sub |-> s] \in PaymentRow /\ UNCHANGED charge
    BY <1>6 DEF Activate, PaymentRow, PaymentStatus
  <2>4. /\ Ledger!Set(p, "completed")
        /\ payments[p].status = "completed" => UNCHANGED Ledger!ledger
    BY <2>1, <2>2, <2>3, SetStatus
  <2>5. QED
    BY <2>1, <2>4 DEF Ledger!Next, Ledger!Complete
<1>7. CASE \/ UpsertPlan \/ PatchPlan \/ Tick \/ UNCHANGED vars
           \/ \E p \in Payments : WebhookDrop(p)
           \/ \E w \in Workers, p \in Payments :
                CheckoutBegin(w, p) \/ VerifyBegin(w, p) \/ WebhookBegin(w, p)
           \/ \E w \in Workers : \/ CancelBegin(w) \/ CancelWrite(w) \/ Abort(w)
                                 \/ VerifyFetch(w) \/ MarkCompleted(w)
  BY <1>1, <1>7 DEF UpsertPlan, PatchPlan, Tick, WebhookDrop, CheckoutBegin, VerifyBegin,
     WebhookBegin, CancelBegin, CancelWrite, Abort, VerifyFetch, MarkCompleted, tables,
     external, vars
<1>8. QED
  BY <1>2, <1>3, <1>4, <1>5, <1>6, <1>7 DEF Next, Handler

\* The service's payment records implement PaymentLedger: statuses move only
\* forward, and only as the provider's charges allow.
THEOREM ImplementsLedger == Spec => LedgerSpec
<1>1. Init => Ledger!Init
  BY InitLedger
<1>2. TypeInv /\ ChargeInv /\ [Next]_vars => [Ledger!Next]_(Ledger!ledger)
  BY NextLedger
<1>3. Spec => [](TypeInv /\ ChargeInv)
  BY InitTypeInv, NextTypeInv, InitChargeInv, NextChargeInv, PTL DEF Spec
<1>4. QED
  BY <1>1, <1>2, <1>3, PTL DEF Spec, LedgerSpec, Ledger!Spec

-----------------------------------------------------------------------------
(***************************************************************************)
(* What the code and its documentation say, and the overlap that breaks    *)
(* it.  The records of raced make the invariants inductive: while a        *)
(* request is open, what it read is still so or is recorded.  The bounds   *)
(* count with the activations that were committed the requests that may    *)
(* commit another.                                                         *)
(***************************************************************************)

\* The requests that may still activate p.
Upcoming(p) ==
    {w \in Workers : req[w].pay = p /\ req[w].pc \in {"charge", "fetch", "pay", "sub"}}

\* The requests that found no active row and will insert one.
Inserting == {w \in Workers : req[w].pc = "sub" /\ req[w].sub = NoSub}

CreditOK(p) ==
    /\ credits[p] > 1 => p \in raced
    /\ credits[p] > 0 /\ Upcoming(p) # {} => p \in raced
    /\ credits[p] + Cardinality(Upcoming(p)) <= Cardinality(Workers)

CreditInv == \A p \in Payments : CreditOK(p)

RowInv ==
    /\ (\A s, t \in ActiveRows : s = t) \/ NoSub \in raced
    /\ Inserting = {} \/ ActiveRows = {} \/ NoSub \in raced
    /\ IsFiniteSet(ActiveRows)
    /\ Cardinality(ActiveRows) + Cardinality(Inserting) <= Cardinality(Workers)

\* The row an activation selected is active and the expiry it computed adds a period.
TermOK(w) ==
    req[w].pc = "sub" =>
        /\ req[w].sub = NoSub => req[w].exp >= Duration
        /\ req[w].sub # NoSub /\ req[w].sub \notin raced =>
             req[w].sub \in ActiveRows /\ req[w].exp >= subs[req[w].sub].exp + Duration

TermInv == EveryTermCounts /\ \A w \in Workers : TermOK(w)

OverlapInv == CreditInv /\ RowInv /\ TermInv

LEMMA WorkerSets ==
    ASSUME NEW S, S \subseteq Workers
    PROVE  /\ IsFiniteSet(S) /\ Cardinality(S) \in Nat /\ Cardinality(Workers) \in Nat
           /\ Cardinality(S) <= Cardinality(Workers)
BY FS_Subset, FS_CardinalityType, PaymentsAssumption

\* A smaller set of requests has no more members.
LEMMA FewerWorkers ==
    ASSUME NEW S, NEW T, S \subseteq T, T \subseteq Workers
    PROVE  Cardinality(S) \in Nat /\ Cardinality(T) \in Nat /\ Cardinality(S) <= Cardinality(T)
BY WorkerSets, FS_Subset

LEMMA OneWorkerLess ==
    ASSUME NEW S, NEW T, S \subseteq T, T \subseteq Workers, NEW w, w \in T, w \notin S
    PROVE  /\ Cardinality(S) \in Nat /\ Cardinality(T) \in Nat
           /\ Cardinality(S) + 1 <= Cardinality(T)
<1>1. Cardinality(T \ {w}) = Cardinality(T) - 1
  BY WorkerSets, FS_RemoveElement
<1>2. S \subseteq T \ {w} /\ T \ {w} \subseteq Workers
  OBVIOUS
<1>3. Cardinality(S) \in Nat /\ Cardinality(S) <= Cardinality(T \ {w})
  BY <1>2, FewerWorkers
<1>4. QED
  BY <1>1, <1>3, WorkerSets

LEMMA InitOverlapInv == Init => OverlapInv
<1> SUFFICES ASSUME Init PROVE OverlapInv
  OBVIOUS
<1> USE PaymentsAssumption
<1>1. /\ Inserting = {} /\ ActiveRows = {}
      /\ \A p \in Payments : credits[p] = 0
      /\ \A w \in Workers : req[w].pc = "idle"
  BY DEF Init, Inserting, ActiveRows, Idle
<1>2. CreditInv
  BY <1>1, WorkerSets DEF CreditInv, CreditOK, Upcoming
<1>3. RowInv
  BY <1>1, WorkerSets, FS_EmptySet DEF RowInv
<1>4. TermInv
  BY <1>1 DEF Init, TermInv, EveryTermCounts, TermOK
<1>5. QED
  BY <1>2, <1>3, <1>4 DEF OverlapInv

\* A step that leaves the tables alone and whose request selects no row.
LEMMA QuietOverlapInv ==
    ASSUME TypeInv, OverlapInv, UNCHANGED <<subs, credits, raced>>, NEW w \in Workers,
           \A v \in Workers \ {w} : req'[v] = req[v],
           req'[w].pc # "sub",
           req'[w].pc \in {"charge", "fetch", "pay"} =>
               w \in Upcoming(req'[w].pay) \/ credits[req'[w].pay] = 0
    PROVE  OverlapInv'
<1>1. CreditInv'
  <2>1. SUFFICES ASSUME NEW p \in Payments PROVE CreditOK(p)'
    BY DEF CreditInv
  <2>2. CreditOK(p) /\ credits[p] \in Nat
    BY DEF OverlapInv, CreditInv, TypeInv, TypeOK
  <2>3. CASE credits[p] = 0
    <3>1. Upcoming(p)' \subseteq Workers
      BY DEF Upcoming
    <3>2. QED
      BY <2>3, <3>1, WorkerSets DEF CreditOK
  <2>4. CASE credits[p] # 0
    <3>1. Upcoming(p)' \subseteq Upcoming(p) /\ Upcoming(p) \subseteq Workers
      BY <2>4 DEF Upcoming
    <3>2. QED
      BY <2>2, <3>1, FewerWorkers, WorkerSets DEF CreditOK
  <2>5. QED
    BY <2>3, <2>4
<1>2. RowInv'
  <2>1. ActiveRows' = ActiveRows /\ Inserting' \subseteq Inserting /\ Inserting \subseteq Workers
    BY DEF ActiveRows, Inserting
  <2>2. QED
    BY <2>1, FewerWorkers, WorkerSets, FS_CardinalityType DEF OverlapInv, RowInv
<1>3. TermInv'
  BY DEF OverlapInv, TermInv, TermOK, EveryTermCounts, ActiveRows
<1>4. QED
  BY <1>1, <1>2, <1>3 DEF OverlapInv

\* The arithmetic of a renewal.
LEMMA OneMoreTerm ==
    ASSUME NEW d \in Nat, NEW old \in Nat, NEW exp \in Nat, NEW terms \in Nat,
           old >= d * terms, exp >= old + d
    PROVE  exp >= d * (terms + 1)
<1>1. d * (terms + 1) = d * terms + d /\ d * terms \in Nat
  OBVIOUS
<1>2. QED
  BY <1>1

\* What an activation on row s writes, and which of it was shared.
LEMMA ActivateEffect ==
    ASSUME TypeInv, ChargeInv, SubInv, OverlapInv, NEW w \in Workers, Activate(w)
    PROVE  \E s \in SubIds :
             LET p == req[w].pay IN
             /\ p \in Payments /\ req'[w] = Idle
             /\ \A v \in Workers \ {w} : req'[v] = req[v]
             /\ credits'[p] = credits[p] + 1 /\ payments'[p].sub = s
             /\ \A q \in Payments \ {p} : credits'[q] = credits[q] /\ payments'[q] = payments[q]
             /\ \A t \in SubIds \ {s} : subs'[t] = subs[t]
             /\ raced \subseteq raced'
             /\ (\E v \in Workers \ {w} : v \in Upcoming(p)) => p \in raced'
             /\ (\E v \in Workers \ {w} : AtRow(v, req[w].sub)) => req[w].sub \in raced'
             /\ req[w].sub = NoSub =>
                  /\ subs[s].status = "none" /\ subs'[s].status = "active"
                  /\ subs'[s].exp >= Duration * subs'[s].terms
             /\ req[w].sub # NoSub =>
                  /\ s = req[w].sub /\ subs'[s].status = subs[s].status
                  /\ s \notin raced =>
                       s \in ActiveRows /\ subs'[s].exp >= Duration * subs'[s].terms
<1> USE PaymentsAssumption
<1> DEFINE p == req[w].pay
<1>1. PICK s \in SubIds :
           /\ IF req[w].sub = NoSub THEN subs[s].status = "none" ELSE s = req[w].sub
           /\ ActivateOn(w, s)
  BY DEF Activate
<1>2. /\ p \in Payments /\ req[w].exp \in Nat /\ req[w].pc = "sub"
      /\ req'[w] = Idle /\ \A v \in Workers \ {w} : req'[v] = req[v]
  BY DEF Activate, Finish, TypeInv, TypeOK, RequestsWellFormed, Request
<1>3. /\ credits'[p] = credits[p] + 1 /\ payments'[p].sub = s
      /\ \A q \in Payments \ {p} : credits'[q] = credits[q] /\ payments'[q] = payments[q]
      /\ \A t \in SubIds \ {s} : subs'[t] = subs[t]
      /\ raced' = raced \cup Shared(w)
  BY <1>1, <1>2 DEF ActivateOn, TypeInv, TypeOK
<1>4. (\E v \in Workers \ {w} : v \in Upcoming(p)) => p \in raced'
  <2>1. ASSUME NEW v \in Workers \ {w}, v \in Upcoming(p)
        PROVE  PastCheck(v, p)
    <3>1. req[v].pc # "sub"
      BY <1>2, <2>1 DEF SubInv, RequestInv, OneHolder, Upcoming
    <3>2. req[v].pc # "charge"
      BY <1>2, <2>1 DEF ChargeInv, Owns, Upcoming
    <3>3. QED
      BY <2>1, <3>1, <3>2 DEF Upcoming, PastCheck
  <2>2. QED
    BY <1>2, <1>3, <2>1 DEF Shared
<1>5. (\E v \in Workers \ {w} : AtRow(v, req[w].sub)) => req[w].sub \in raced'
  BY <1>3 DEF Shared
<1>6. CASE req[w].sub = NoSub
  <2>1. subs'[s] = [status |-> "active", exp |-> req[w].exp, by |-> p, terms |-> 1]
    BY <1>1, <1>6 DEF ActivateOn, TypeInv, TypeOK
  <2>2. req[w].exp >= Duration /\ Duration * 1 = Duration
    BY <1>2, <1>6 DEF OverlapInv, TermInv, TermOK
  <2>3. QED
    BY <1>1, <1>2, <1>3, <1>4, <1>5, <1>6, <2>1, <2>2
<1>7. CASE req[w].sub # NoSub
  <2>1. s = req[w].sub /\ subs[s].exp \in Nat /\ subs[s].terms \in Nat
    BY <1>1, <1>7 DEF TypeInv, TypeOK, SubRow
  <2>2. /\ subs'[s].status = subs[s].status
        /\ subs'[s].exp = req[w].exp
        /\ subs'[s].terms = subs[s].terms + 1
    <3>1. subs'[s] = [subs[s] EXCEPT !.exp = req[w].exp, !.terms = subs[s].terms + 1]
      <4>1. subs' = [subs EXCEPT ![s] =
                       [subs[s] EXCEPT !.exp = req[w].exp, !.terms = subs[s].terms + 1]]
        BY <1>1, <1>7 DEF ActivateOn, TypeInv, TypeOK
      <4>2. QED
        BY <4>1 DEF TypeInv, TypeOK
    <3>2. QED
      BY <3>1 DEF TypeInv, TypeOK, SubRow
  <2>3. s \notin raced => s \in ActiveRows /\ subs'[s].exp >= Duration * subs'[s].terms
    <3>1. ASSUME s \notin raced
          PROVE  /\ s \in ActiveRows /\ req[w].exp >= subs[s].exp + Duration
                 /\ subs[s].exp >= Duration * subs[s].terms
      BY <1>2, <1>7, <2>1, <3>1 DEF OverlapInv, TermInv, TermOK, EveryTermCounts
    <3>2. QED
      BY <1>2, <2>1, <2>2, <3>1, OneMoreTerm
  <2>4. QED
    BY <1>2, <1>3, <1>4, <1>5, <1>7, <2>1, <2>2, <2>3
<1>8. QED
  BY <1>6, <1>7

LEMMA ActivateOverlapInv ==
    ASSUME TypeInv, ChargeInv, SubInv, OverlapInv, NEW w \in Workers, Activate(w)
    PROVE  OverlapInv'
<1>0. req[w].pc = "sub" /\ req[w].pay \in Payments
  BY DEF Activate, TypeInv, RequestsWellFormed
<1>p. PICK p \in Payments : p = req[w].pay
  BY <1>0
<1>1. PICK s \in SubIds :
        /\ req'[w] = Idle
        /\ \A v \in Workers \ {w} : req'[v] = req[v]
        /\ credits'[p] = credits[p] + 1
        /\ \A q \in Payments \ {p} : credits'[q] = credits[q]
        /\ \A t \in SubIds \ {s} : subs'[t] = subs[t]
        /\ raced \subseteq raced'
        /\ (\E v \in Workers \ {w} : v \in Upcoming(p)) => p \in raced'
        /\ (\E v \in Workers \ {w} : AtRow(v, req[w].sub)) => req[w].sub \in raced'
        /\ req[w].sub = NoSub =>
             /\ subs[s].status = "none" /\ subs'[s].status = "active"
             /\ subs'[s].exp >= Duration * subs'[s].terms
        /\ req[w].sub # NoSub =>
             /\ s = req[w].sub /\ subs'[s].status = subs[s].status
             /\ s \notin raced =>
                  s \in ActiveRows /\ subs'[s].exp >= Duration * subs'[s].terms
  BY <1>p, ActivateEffect
<1>2. CreditInv'
  <2>1. SUFFICES ASSUME NEW q \in Payments PROVE CreditOK(q)'
    BY DEF CreditInv
  <2>2. CreditOK(q) /\ credits[q] \in Nat /\ Upcoming(q) \subseteq Workers
    BY DEF OverlapInv, CreditInv, TypeInv, TypeOK, Upcoming
  <2>3. CASE q # p
    <3>1. Upcoming(q)' \subseteq Upcoming(q)
      BY <1>1 DEF Upcoming, Idle
    <3>2. QED
      BY <1>1, <2>2, <2>3, <3>1, FewerWorkers, WorkerSets DEF CreditOK
  <2>4. CASE q = p
    <3>1. w \in Upcoming(p) /\ w \notin Upcoming(p)' /\ Upcoming(p)' \subseteq Upcoming(p)
      BY <1>0, <1>p, <1>1 DEF Upcoming, Idle
    <3>2. Cardinality(Upcoming(p)') + 1 <= Cardinality(Upcoming(p))
          /\ Cardinality(Upcoming(p)') \in Nat /\ Cardinality(Upcoming(p)) \in Nat
      BY <2>2, <2>4, <3>1, OneWorkerLess
    <3>3. Upcoming(p)' # {} => p \in raced'
      BY <1>1, <3>1, <2>2, <2>4
    <3>4. credits'[p] > 1 => p \in raced'
      BY <1>1, <2>2, <2>4, <3>1 DEF CreditOK
    <3>5. QED
      BY <1>1, <2>2, <2>4, <3>2, <3>3, <3>4, WorkerSets DEF CreditOK
  <2>5. QED
    BY <2>3, <2>4
<1>3. RowInv'
  <2>0. IsFiniteSet(ActiveRows) /\ Cardinality(ActiveRows) \in Nat /\ Inserting \subseteq Workers
    BY FS_CardinalityType DEF OverlapInv, RowInv, Inserting
  <2>1. CASE req[w].sub = NoSub
    <3>1. /\ s \notin ActiveRows /\ ActiveRows' = ActiveRows \cup {s}
          /\ w \in Inserting /\ w \notin Inserting' /\ Inserting' \subseteq Inserting
      BY <1>0, <1>1, <2>1 DEF ActiveRows, Inserting, Idle
    <3>2. /\ IsFiniteSet(ActiveRows') /\ Cardinality(ActiveRows') = Cardinality(ActiveRows) + 1
      BY <2>0, <3>1, FS_AddElement
    <3>3. /\ Cardinality(Inserting') + 1 <= Cardinality(Inserting)
          /\ Cardinality(Inserting') \in Nat /\ Cardinality(Inserting) \in Nat
      BY <2>0, <3>1, OneWorkerLess
    <3>4. ActiveRows = {} \/ NoSub \in raced
      BY <3>1 DEF OverlapInv, RowInv
    <3>5. Inserting' # {} => NoSub \in raced'
      <4>1. \A v \in Inserting' : v \in Workers \ {w} /\ AtRow(v, NoSub)
        BY <3>1 DEF Inserting, AtRow
      <4>2. QED
        BY <1>1, <2>1, <4>1
    <3>6. QED
      BY <1>1, <2>0, <3>1, <3>2, <3>3, <3>4, <3>5, WorkerSets DEF OverlapInv, RowInv
  <2>2. CASE req[w].sub # NoSub
    <3>1. ActiveRows' = ActiveRows /\ Inserting' \subseteq Inserting
      BY <1>1, <2>2 DEF ActiveRows, Inserting, Idle
    <3>2. QED
      BY <1>1, <2>0, <3>1, FewerWorkers, WorkerSets DEF OverlapInv, RowInv
  <2>3. QED
    BY <2>1, <2>2
<1>4. TermInv'
  <2>1. EveryTermCounts'
    BY <1>1 DEF OverlapInv, TermInv, EveryTermCounts
  <2>2. ASSUME NEW v \in Workers PROVE TermOK(v)'
    <3>1. CASE v = w
      BY <1>1, <3>1 DEF TermOK, Idle
    <3>2. CASE v # w
      <4>1. TermOK(v) /\ req'[v] = req[v] /\ RowKnown(v) /\ req[v].sub \in SubIds \cup {NoSub}
        BY <1>1, <3>2 DEF OverlapInv, TermInv, SubInv, RequestInv, TypeInv, TypeOK, Request
      <4>2. CASE req[v].pc = "sub" /\ req[v].sub = s
        <5>1. s # NoSub /\ subs[s].status # "none"
          BY <4>1, <4>2, PaymentsAssumption DEF RowKnown
        <5>2. AtRow(v, s)
          BY <4>2 DEF AtRow
        <5>3. s \in raced'
          BY <1>1, <3>2, <5>1, <5>2
        <5>4. QED
          BY <4>1, <4>2, <5>1, <5>3 DEF TermOK
      <4>3. CASE ~(req[v].pc = "sub" /\ req[v].sub = s)
        BY <1>1, <4>1, <4>3 DEF TermOK, ActiveRows
      <4>4. QED
        BY <4>2, <4>3
    <3>3. QED
      BY <3>1, <3>2
  <2>3. QED
    BY <2>1, <2>2 DEF TermInv
<1>5. QED
  BY <1>2, <1>3, <1>4 DEF OverlapInv

LEMMA NextOverlapInv ==
    ASSUME TypeInv, ChargeInv, SubInv, OverlapInv, [Next]_vars
    PROVE  OverlapInv'
<1> USE PaymentsAssumption
<1>0. req \in [Workers -> Request]
  BY DEF TypeInv, TypeOK
<1>1. CASE \/ UpsertPlan \/ PatchPlan \/ Tick \/ UNCHANGED vars
           \/ \E p \in Payments : Resolve3DS(p) \/ WebhookDrop(p)
  <2>1. UNCHANGED <<subs, credits, raced, req>>
    BY <1>1 DEF UpsertPlan, PatchPlan, Tick, Resolve3DS, WebhookDrop, tables, vars
  <2>2. QED
    BY <2>1 DEF OverlapInv, CreditInv, CreditOK, Upcoming, RowInv, Inserting, ActiveRows,
                TermInv, TermOK, EveryTermCounts
<1>2. ASSUME NEW w \in Workers, NEW p \in Payments,
             CheckoutBegin(w, p) \/ VerifyBegin(w, p) \/ WebhookBegin(w, p)
      PROVE  OverlapInv'
  <2>1. payments[p].status # "completed" /\ UNCHANGED <<subs, credits, raced>>
    BY <1>2 DEF CheckoutBegin, VerifyBegin, WebhookBegin, Fresh, tables
  <2>2. credits[p] = 0
    BY <2>1 DEF SubInv, CompletedIffActivated, TypeInv, TypeOK
  <2>3. /\ req'[w].pay = p /\ req'[w].pc # "sub"
        /\ \A v \in Workers \ {w} : req'[v] = req[v]
    BY <1>2, <1>0 DEF CheckoutBegin, VerifyBegin, WebhookBegin, Start, Idle
  <2>4. QED
    BY <2>1, <2>2, <2>3, QuietOverlapInv
<1>3. ASSUME NEW w \in Workers, NEW outcome \in {"pending"} \cup Final, NEW answered \in BOOLEAN,
             \/ CancelBegin(w) \/ HoldPayment(w) \/ VoidPayment(w) \/ Abort(w)
             \/ Charged(w, outcome, answered) \/ VerifyFetch(w)
      PROVE  OverlapInv'
  <2>1. UNCHANGED <<subs, credits, raced>>
    BY <1>3 DEF CancelBegin, HoldPayment, VoidPayment, Abort, Charged, VerifyFetch, tables
  <2>2. /\ \A v \in Workers \ {w} : req'[v] = req[v]
        /\ \/ req'[w].pc \in {"idle", "cancel", "hold"}
           \/ req'[w].pc = "pay" /\ req'[w].pay = req[w].pay /\ req[w].pc \in {"charge", "fetch"}
    <3>1. CASE Finish(w)
      BY <3>1, <1>0 DEF Finish, Idle
    <3>2. CASE CancelBegin(w)
      BY <3>2, <1>0 DEF CancelBegin, Idle
    <3>3. CASE req[w].pc \in {"charge", "fetch"} /\ (Goto(w, "pay") \/ Goto(w, "hold"))
      BY <3>3, <1>0 DEF Goto, Request
    <3>4. QED
      BY <1>3, <3>1, <3>2, <3>3 DEF HoldPayment, VoidPayment, Abort, Charged, VerifyFetch
  <2>3. req'[w].pc = "pay" => w \in Upcoming(req'[w].pay)
    BY <2>2 DEF Upcoming
  <2>4. QED
    BY <2>1, <2>2, <2>3, QuietOverlapInv
<1>4. ASSUME NEW w \in Workers, MarkCompleted(w) PROVE OverlapInv'
  <2>1. /\ UNCHANGED <<subs, credits, raced>> /\ req[w].pc = "pay" /\ SelectRow(w, ActiveRows)
        /\ ActiveRows \in SUBSET SubIds /\ req[w].sub = NoSub /\ now \in Nat
    BY <1>4 DEF MarkCompleted, tables, ActiveRows, SubInv, RequestInv, RowKnown,
                TypeInv, TypeOK
  <2>2. \A v \in Workers \ {w} : req'[v] = req[v]
    BY <2>1, SelectRowEffect
  <2>3. CASE req'[w] = Idle
    BY <2>1, <2>2, <2>3, QuietOverlapInv DEF Idle
  <2>4. CASE /\ req'[w].pc = "sub" /\ req'[w].pay = req[w].pay
             /\ \/ ActiveRows = {} /\ req'[w].sub = NoSub /\ req'[w].exp = now + Duration
                \/ /\ req'[w].sub \in ActiveRows
                   /\ req'[w].exp = Later(subs[req'[w].sub].exp, now) + Duration
    <3>1. CreditInv'
      <4>1. \A p \in Payments : Upcoming(p)' = Upcoming(p)
        BY <2>1, <2>2, <2>4 DEF Upcoming
      <4>2. QED
        BY <2>1, <4>1 DEF OverlapInv, CreditInv, CreditOK
    <3>2. RowInv'
      <4>1. ActiveRows' = ActiveRows
        BY <2>1 DEF ActiveRows
      <4>2. CASE ActiveRows = {}
        <5>1. Inserting' \subseteq Workers
          BY DEF Inserting
        <5>2. QED
          BY <4>1, <4>2, <5>1, WorkerSets, FS_EmptySet DEF RowInv
      <4>3. CASE ActiveRows # {}
        <5>1. Inserting' = Inserting
          BY <2>1, <2>2, <2>4, <4>3 DEF Inserting, ActiveRows
        <5>2. QED
          BY <2>1, <4>1, <5>1 DEF OverlapInv, RowInv
      <4>4. QED
        BY <4>2, <4>3
    <3>3. TermOK(w)'
      BY <2>1, <2>4 DEF TermOK, ActiveRows, Later, TypeInv, TypeOK, SubRow
    <3>4. TermInv'
      BY <2>1, <2>2, <3>3 DEF OverlapInv, TermInv, TermOK, EveryTermCounts, ActiveRows
    <3>5. QED
      BY <3>1, <3>2, <3>4 DEF OverlapInv
  <2>5. QED
    BY <2>1, <2>3, <2>4, SelectRowEffect
<1>5. ASSUME NEW w \in Workers, CancelWrite(w) PROVE OverlapInv'
  <2>1. PICK s \in SubIds : /\ s = req[w].sub /\ req[w].pc = "cancel"
                            /\ subs' = [subs EXCEPT ![s].status = "cancelled"]
    BY <1>5 DEF CancelWrite, TypeInv, RequestsWellFormed
  <2>2. /\ subs'[s].status = "cancelled"
        /\ \A t \in SubIds \ {s} : subs'[t] = subs[t]
        /\ \A t \in SubIds : subs'[t].exp = subs[t].exp /\ subs'[t].terms = subs[t].terms
    BY <2>1 DEF TypeInv, TypeOK, SubRow
  <2>3. /\ req'[w] = Idle /\ UNCHANGED credits /\ raced' = raced \cup Shared(w)
        /\ \A v \in Workers \ {w} : req'[v] = req[v]
    BY <1>5, <1>0 DEF CancelWrite, Finish
  <2>4. CreditInv'
    <3>1. \A p \in Payments : Upcoming(p)' = Upcoming(p)
      BY <2>1, <2>3 DEF Upcoming, Idle
    <3>2. QED
      BY <2>3, <3>1 DEF OverlapInv, CreditInv, CreditOK
  <2>5. RowInv'
    <3>1. ActiveRows' \subseteq ActiveRows /\ Inserting' = Inserting /\ Inserting \subseteq Workers
      BY <2>1, <2>2, <2>3 DEF ActiveRows, Inserting, Idle
    <3>2. /\ IsFiniteSet(ActiveRows') /\ Cardinality(ActiveRows') <= Cardinality(ActiveRows)
          /\ Cardinality(ActiveRows') \in Nat /\ Cardinality(ActiveRows) \in Nat
      BY <3>1, FS_Subset, FS_CardinalityType DEF OverlapInv, RowInv
    <3>3. QED
      BY <2>3, <3>1, <3>2, WorkerSets DEF OverlapInv, RowInv
  <2>6. TermInv'
    <3>1. EveryTermCounts'
      BY <2>2, <2>3 DEF OverlapInv, TermInv, EveryTermCounts
    <3>2. ASSUME NEW v \in Workers PROVE TermOK(v)'
      <4>1. CASE v = w
        BY <2>3, <4>1 DEF TermOK, Idle
      <4>2. CASE v # w /\ AtRow(v, s)
        <5>1. s \in raced'
          BY <2>1, <2>3, <4>2 DEF Shared
        <5>2. QED
          BY <2>3, <4>2, <5>1 DEF TermOK, AtRow
      <4>3. CASE v # w /\ ~AtRow(v, s)
        <5>1. TermOK(v) /\ req'[v] = req[v] /\ req[v].sub \in SubIds \cup {NoSub}
          BY <2>3, <4>3 DEF OverlapInv, TermInv, TypeInv, TypeOK, Request
        <5>2. QED
          BY <2>2, <2>3, <4>3, <5>1 DEF TermOK, AtRow, ActiveRows
      <4>4. QED
        BY <4>1, <4>2, <4>3
    <3>3. QED
      BY <3>1, <3>2 DEF TermInv
  <2>7. QED
    BY <2>4, <2>5, <2>6 DEF OverlapInv
<1>6. ASSUME NEW w \in Workers, Activate(w) PROVE OverlapInv'
  BY <1>6, ActivateOverlapInv
<1>7. QED
  BY <1>1, <1>2, <1>3, <1>4, <1>5, <1>6 DEF Next, Handler

LEMMA OverlapInvariant == Spec => []OverlapInv
<1>1. TypeInv /\ ChargeInv /\ SubInv /\ OverlapInv /\ [Next]_vars => OverlapInv'
  BY NextOverlapInv
<1>2. QED
  BY <1>1, Invariants, InitOverlapInv, PTL DEF Spec

\* A payment buys a second period only from a request that had read it before the
\* first activation committed, and no more than there can be requests at a time.
THEOREM CreditsStayBounded == Spec => []CreditsBounded
<1>1. ASSUME TypeInv, OverlapInv, NEW p \in Payments, credits[p] > 1
      PROVE  p \in raced /\ credits[p] <= Cardinality(Workers)
  <2>1. CreditOK(p) /\ credits[p] \in Nat /\ Upcoming(p) \subseteq Workers
    BY <1>1 DEF OverlapInv, CreditInv, TypeInv, TypeOK, Upcoming
  <2>2. QED
    BY <1>1, <2>1, WorkerSets DEF CreditOK
<1>2. TypeInv /\ OverlapInv => CreditsBounded
  BY <1>1 DEF CreditsBounded
<1>3. QED
  BY <1>2, OverlapInvariant, Invariants, PTL

LEMMA OneElement == \A x : ~(Cardinality({x}) > 1)
<1>1. \A x : Cardinality({x}) = 1
  BY FS_Singleton
<1>2. QED
  BY <1>1

\* A pair has a second active row only if two activations had both found none, and
\* no more rows than requests at a time, for any number of payments, renewals and
\* cancellations.
THEOREM RowsStayBounded == Spec => []ActiveRowsBounded
<1>1. ASSUME OverlapInv, Cardinality(ActiveRows) > 1
      PROVE  NoSub \in raced /\ Cardinality(ActiveRows) <= Cardinality(Workers)
  <2>1. IsFiniteSet(ActiveRows) /\ Cardinality(ActiveRows) \in Nat /\ Inserting \subseteq Workers
    BY <1>1, FS_CardinalityType DEF OverlapInv, RowInv, Inserting
  <2>2. Cardinality(ActiveRows) <= Cardinality(Workers)
    BY <1>1, <2>1, WorkerSets DEF OverlapInv, RowInv
  <2>3. ASSUME \A s, t \in ActiveRows : s = t PROVE FALSE
    <3>1. CASE ActiveRows = {}
      BY <1>1, <3>1, FS_EmptySet
    <3>2. ASSUME NEW s \in ActiveRows PROVE FALSE
      <4>1. ActiveRows = {s}
        BY <2>3, <3>2
      <4>2. QED
        BY <1>1, <4>1, OneElement
    <3>3. QED
      BY <3>1, <3>2
  <2>4. QED
    BY <1>1, <2>2, <2>3 DEF OverlapInv, RowInv
<1>2. OverlapInv => ActiveRowsBounded
  BY <1>1 DEF ActiveRowsBounded
<1>3. QED
  BY <1>2, OverlapInvariant, PTL

\* Every activation adds a full period to its row, unless another request had read
\* the row too when one of them wrote it.
THEOREM TermsCount == Spec => []EveryTermCounts
<1>1. OverlapInv => EveryTermCounts
  BY DEF OverlapInv, TermInv
<1>2. QED
  BY <1>1, OverlapInvariant, PTL

\* The step that completes a payment leaves its subscription active, unless a
\* cancellation came between the SELECT and the UPDATE.
THEOREM AccessGiven == Spec => CompletionGivesAccess
<1> DEFINE Gives == \A p \in Payments :
         payments[p].status # "completed" /\ payments'[p].status = "completed" =>
           \/ subs'[payments'[p].sub].status = "active"
           \/ payments'[p].sub \in raced
<1>1. TypeInv /\ ChargeInv /\ SubInv /\ OverlapInv /\ [Next]_vars => [Gives]_vars
  <2> SUFFICES ASSUME TypeInv, ChargeInv, SubInv, OverlapInv, Next PROVE Gives
    OBVIOUS
  <2>1. ASSUME NEW w \in Workers, Activate(w) PROVE Gives
    BY <2>1, ActivateEffect DEF ActiveRows
  <2>2. ASSUME NEW w \in Workers, HoldPayment(w) \/ VoidPayment(w) PROVE Gives
    BY <2>2 DEF HoldPayment, VoidPayment, TypeInv, TypeOK, PaymentRow, RequestsWellFormed
  <2>3. CASE UNCHANGED payments
    BY <2>3
  <2>4. QED
    BY <2>1, <2>2, <2>3 DEF Next, Handler, UpsertPlan, PatchPlan, Tick, Resolve3DS,
       WebhookDrop, CheckoutBegin, VerifyBegin, WebhookBegin, CancelBegin, Charged,
       VerifyFetch, MarkCompleted, CancelWrite, Abort, tables
<1>2. QED
  BY <1>1, OverlapInvariant, Invariants, PTL DEF Spec, CompletionGivesAccess

=============================================================================

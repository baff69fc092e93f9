------------------------------ MODULE Payments ------------------------------
(***************************************************************************)
(* Paid subscriptions: checkout, 3DS verification, the YooKassa webhook,   *)
(* cancellation, and the creator's plan.                                   *)
(*                                                                         *)
(* The module follows the rows of ONE (subscriber, creator) pair: every    *)
(* statement of these handlers selects by that pair or by a payment id.    *)
(*                                                                         *)
(* A request is one READ COMMITTED transaction that commits when its       *)
(* handler returns and rolls back when it raises (get_db).  A step below   *)
(* ends at each point where another request can observe or change what     *)
(* this one uses: after a SELECT, at a row lock it may wait for, at the    *)
(* provider call, at the commit.  Writes become visible at the commit; an  *)
(* UPDATE followed only by statements nobody can interfere with is merged  *)
(* with the commit.  A payment row stays locked from its UPDATE to the     *)
(* commit.                                                                 *)
(***************************************************************************)
EXTENDS Naturals, FiniteSets

CONSTANTS
    Payments,   \* ids of payments; each is used by at most one checkout
    SubIds,     \* ids of creator_subscriptions rows
    Workers,    \* requests that can be in progress at the same time
    Duration,   \* SUBSCRIPTION_DURATION_DAYS, in clock ticks
    MaxTime,    \* bound: last value of the clock
    NoPayment, NoSub

ASSUME PaymentsAssumption ==
    /\ NoPayment \notin Payments
    /\ NoSub \notin SubIds
    /\ Duration \in Nat \ {0}
    /\ MaxTime \in Nat
    /\ IsFiniteSet(Workers)

VARIABLES
    plan,       \* the creator's subscription_plans row
    payments,   \* committed payments rows
    subs,       \* committed creator_subscriptions rows
    req,        \* the requests in progress
    charge,     \* external: what YooKassa did with each payment
    notices,    \* external: payments whose final webhook is not yet answered 200
    now,        \* wall clock
    credits,    \* observation: activations committed for each payment
    raced       \* observation: the payments, and the rows (NoSub: the absence of an
                \* active row), that overlapping requests acted on

vars == <<plan, payments, subs, req, charge, notices, now, credits, raced>>
external == <<charge, notices>>
tables == <<plan, payments, subs, credits, raced>>

-----------------------------------------------------------------------------
\* The rows.  "failed" payments and "expired" subscriptions are members of
\* the enums that no committed row ever has.
PaymentStatus == {"none", "pending", "completed", "cancelled"}
SubscriptionStatus == {"none", "active", "cancelled"}
ChargeStatus == {"none", "pending", "succeeded", "canceled"}
Final == {"succeeded", "canceled"}

PaymentRow == [status : PaymentStatus, sub : SubIds \cup {NoSub}]

\* by and terms are observations: the payment that inserted the row, and the
\* number of activations committed on it.
SubRow == [status : SubscriptionStatus, exp : Nat,
           by : Payments \cup {NoPayment}, terms : Nat]

Request ==
    [kind : {"none", "checkout", "verify", "webhook", "cancel"},
     pc   : {"idle", "charge", "hold", "fetch", "pay", "void", "sub", "cancel"},
     pay  : Payments \cup {NoPayment},
     sub  : SubIds \cup {NoSub},      \* the row activate/cancel selected
     exp  : Nat]                      \* the expiry activate computed

Idle == [kind |-> "none", pc |-> "idle", pay |-> NoPayment, sub |-> NoSub, exp |-> 0]

\* The strongest statement about the shape of the state.
TypeOK ==
    /\ plan \in {"none", "active", "inactive"}
    /\ payments \in [Payments -> PaymentRow]
    /\ subs \in [SubIds -> SubRow]
    /\ req \in [Workers -> Request]
    /\ charge \in [Payments -> ChargeStatus]
    /\ notices \subseteq Payments
    /\ now \in 0..MaxTime
    /\ credits \in [Payments -> Nat]
    /\ raced \subseteq Payments \cup SubIds \cup {NoSub}

Init ==
    /\ plan = "none"
    /\ payments = [p \in Payments |-> [status |-> "none", sub |-> NoSub]]
    /\ subs = [s \in SubIds |->
                [status |-> "none", exp |-> 0, by |-> NoPayment, terms |-> 0]]
    /\ req = [w \in Workers |-> Idle]
    /\ charge = [p \in Payments |-> "none"]
    /\ notices = {}
    /\ now = 0
    /\ credits = [p \in Payments |-> 0]
    /\ raced = {}

-----------------------------------------------------------------------------
\* What the statements select.
AnyRows == {s \in SubIds : subs[s].status # "none"}   \* mutant: no status filter
ActiveRows == {s \in SubIds : subs[s].status = "active"}
CurrentRows == {s \in ActiveRows : subs[s].exp > now}

\* check_subscription; the listings use the same condition.
HasAccess == CurrentRows # {}

\* UPDATE payments ... has run and the transaction is open.
NeverLocked(p) == FALSE   \* mutant: the UPDATE comes after the activation
Locked(p) == \E w \in Workers : req[w].pc = "sub" /\ req[w].pay = p

\* A payment id no request, row or charge has used.
Fresh(p) ==
    /\ payments[p].status = "none"
    /\ charge[p] = "none"
    /\ \A w \in Workers : req[w].pay # p

\* Request w has read payment p as one that it may complete, and goes on without
\* looking again.
PastCheck(w, p) == req[w].pc \in {"fetch", "pay"} /\ req[w].pay = p

\* Request w is about to write the row it selected (NoSub: to insert one).
AtRow(w, s) == req[w].pc \in {"sub", "cancel"} /\ req[w].sub = s

\* What request w shares with another one at its write.
Shared(w) ==
    {p \in {req[w].pay} \cap Payments : \E v \in Workers \ {w} : PastCheck(v, p)}
        \cup {s \in {req[w].sub} : \E v \in Workers \ {w} : AtRow(v, s)}

Second(a, b) == b         \* mutant: a renewal counts from today
Later(a, b) == IF a > b THEN a ELSE b

Goto(w, pc) == req' = [req EXCEPT ![w].pc = pc]
Finish(w) == req' = [req EXCEPT ![w] = Idle]
Start(w, k, pc, p) ==
    /\ req[w].pc = "idle"
    /\ req' = [req EXCEPT ![w] = [Idle EXCEPT !.kind = k, !.pc = pc, !.pay = p]]

\* A webhook request answered with 200 is not delivered again.
Acknowledge(w) ==
    notices' = IF req[w].kind = "webhook" THEN notices \ {req[w].pay} ELSE notices

-----------------------------------------------------------------------------
(***************************************************************************)
(* The creator's plan.                                                     *)
(***************************************************************************)

UpsertPlan ==
    /\ plan' = "active"
    /\ UNCHANGED <<payments, subs, req, external, now, credits, raced>>

PatchPlan ==
    /\ plan # "none"
    /\ plan' \in {"active", "inactive"}
    /\ UNCHANGED <<payments, subs, req, external, now, credits, raced>>

-----------------------------------------------------------------------------
(***************************************************************************)
(* Checkout.  The payment row is inserted before the charge and stays      *)
(* invisible until the commit.                                             *)
(***************************************************************************)

CheckoutBegin(w, p) ==
    /\ plan = "active"
    /\ Fresh(p)
    /\ Start(w, "checkout", "charge", p)
    /\ UNCHANGED <<tables, external, now>>

\* YooKassa makes the charge and may answer the caller; a final charge also
\* gets a webhook.  A lost answer is reported as 503 and rolls back.
Charged(w, outcome, answered) ==
    LET p == req[w].pay IN
    /\ req[w].pc = "charge"
    /\ charge' = [charge EXCEPT ![p] = outcome]
    /\ notices' = IF outcome \in Final THEN notices \cup {p} ELSE notices
    /\ \/ answered /\ outcome = "succeeded" /\ Goto(w, "pay")
       \/ answered /\ outcome = "pending" /\ Goto(w, "hold")
       \/ answered /\ outcome = "canceled" /\ Finish(w)   \* 402: rolled back
       \/ ~answered /\ Finish(w)
    /\ UNCHANGED <<tables, now>>

\* The charge waits for 3DS: the row is committed as pending.
HoldPayment(w) ==
    /\ req[w].pc = "hold"
    /\ payments' = [payments EXCEPT ![req[w].pay].status = "pending"]
    /\ Finish(w)
    /\ UNCHANGED <<plan, subs, external, now, credits, raced>>

(***************************************************************************)
(* Verification by the client.  A row that is completed is answered        *)
(* "success" at once, which changes nothing.                               *)
(***************************************************************************)

VerifyBegin(w, p) ==
    /\ payments[p].status \in {"pending", "cancelled"}
    /\ Start(w, "verify", "fetch", p)
    /\ UNCHANGED <<tables, external, now>>

\* mutants: a payment that is not refused counts as paid; a payment still
\* waiting for 3DS is voided; verify only reports.
VerifyFetchOr(w, paid, otherwise) ==
    /\ req[w].pc = "fetch"
    /\ IF paid THEN Goto(w, "pay") /\ UNCHANGED payments ELSE otherwise
    /\ UNCHANGED <<plan, subs, credits, raced, external, now>>

VerifyTrustsPending(w) ==
    VerifyFetchOr(w, charge[req[w].pay] # "canceled", Finish(w) /\ UNCHANGED payments)
VerifyVoidsPending(w) ==
    VerifyFetchOr(w, charge[req[w].pay] = "succeeded", Goto(w, "void") /\ UNCHANGED payments)
VerifyOnlyReports(w) ==
    VerifyFetchOr(w, FALSE, Finish(w) /\ UNCHANGED payments)

\* Any answer but "succeeded" leaves the row as it is: "pending" is passed on
\* to the client, the UPDATE to "failed" is rolled back by the 402 after it.
VerifyFetch(w) ==
    /\ req[w].pc = "fetch"
    /\ IF charge[req[w].pay] = "succeeded" THEN Goto(w, "pay") ELSE Finish(w)
    /\ UNCHANGED <<tables, external, now>>

(***************************************************************************)
(* The webhook.  YooKassa repeats a notification until it is answered 200. *)
(***************************************************************************)

\* No such row, or a row that is not pending: answered 200 and dropped.
WebhookDrop(p) ==
    /\ p \in notices
    /\ payments[p].status # "pending"
    /\ notices' = notices \ {p}
    /\ UNCHANGED <<tables, req, charge, now>>

\* mutant: the status of the row is not looked at.
WebhookAnyRow(w, p) ==
    /\ p \in notices
    /\ payments[p].status # "none"
    /\ Start(w, "webhook", IF charge[p] = "succeeded" THEN "pay" ELSE "void", p)
    /\ UNCHANGED <<tables, external, now>>

WebhookBegin(w, p) ==
    /\ p \in notices
    /\ payments[p].status = "pending"
    /\ Start(w, "webhook", IF charge[p] = "succeeded" THEN "pay" ELSE "void", p)
    /\ UNCHANGED <<tables, external, now>>

VoidPayment(w) ==
    /\ req[w].pc = "void"
    /\ ~Locked(req[w].pay)
    /\ payments' = [payments EXCEPT ![req[w].pay].status = "cancelled"]
    /\ Acknowledge(w)
    /\ Finish(w)
    /\ UNCHANGED <<plan, subs, charge, now, credits, raced>>

-----------------------------------------------------------------------------
(***************************************************************************)
(* Payment completed: UPDATE the payment, whatever its status is by now,   *)
(* then activate_subscription.                                             *)
(***************************************************************************)

\* activate_subscription up to its write, on the rows its SELECT returns.  More
\* than one raises MultipleResultsFound.
SelectRow(w, rows) ==
    IF Cardinality(rows) > 1
    THEN Finish(w)
    ELSE IF rows = {}
    THEN req' = [req EXCEPT ![w].pc = "sub", ![w].exp = now + Duration]
    ELSE \E s \in rows :
           req' = [req EXCEPT ![w].pc = "sub", ![w].sub = s,
                              ![w].exp = Later(subs[s].exp, now) + Duration]

\* mutants: the SELECT leaves out the rows that have expired; the status is
\* committed before the activation.
MarkCompletedCurrent(w) ==
    /\ req[w].pc = "pay"
    /\ ~Locked(req[w].pay)
    /\ SelectRow(w, CurrentRows)
    /\ UNCHANGED <<tables, external, now>>
MarkCompletedEarly(w) ==
    /\ req[w].pc = "pay"
    /\ ~Locked(req[w].pay)
    /\ SelectRow(w, ActiveRows)
    /\ payments' = [payments EXCEPT ![req[w].pay].status = "completed"]
    /\ UNCHANGED <<plan, subs, credits, raced, external, now>>

\* The UPDATE takes the row lock; then the active rows are selected, expired
\* ones included.
MarkCompleted(w) ==
    /\ req[w].pc = "pay"
    /\ ~Locked(req[w].pay)
    /\ SelectRow(w, ActiveRows)
    /\ UNCHANGED <<tables, external, now>>

\* Writes the subscription row (UPDATE by id, or INSERT), links the payment to
\* it and commits everything the request did.
ActivateOn(w, s) ==
    LET p == req[w].pay IN
    /\ subs' = IF req[w].sub = NoSub
               THEN [subs EXCEPT ![s] = [status |-> "active", exp |-> req[w].exp,
                                         by |-> p, terms |-> 1]]
               ELSE [subs EXCEPT ![s].exp = req[w].exp, ![s].terms = @ + 1]
    /\ payments' = [payments EXCEPT ![p] = [status |-> "completed", sub |-> s]]
    /\ credits' = [credits EXCEPT ![p] = @ + 1]
    /\ raced' = raced \cup Shared(w)

Activate(w) ==
    /\ req[w].pc = "sub"
    /\ \E s \in SubIds :
         /\ IF req[w].sub = NoSub THEN subs[s].status = "none" ELSE s = req[w].sub
         /\ ActivateOn(w, s)
    /\ Acknowledge(w)
    /\ Finish(w)
    /\ UNCHANGED <<plan, charge, now>>

-----------------------------------------------------------------------------
(***************************************************************************)
(* Cancellation by the subscriber.                                         *)
(***************************************************************************)

\* None is a 404; more than one raises MultipleResultsFound.
CancelBegin(w) ==
    /\ req[w].pc = "idle"
    /\ Cardinality(CurrentRows) = 1
    /\ \E s \in CurrentRows :
         req' = [req EXCEPT ![w] = [Idle EXCEPT !.kind = "cancel", !.pc = "cancel", !.sub = s]]
    /\ UNCHANGED <<tables, external, now>>

CancelWrite(w) ==
    /\ req[w].pc = "cancel"
    /\ subs' = [subs EXCEPT ![req[w].sub].status = "cancelled"]
    /\ raced' = raced \cup Shared(w)
    /\ Finish(w)
    /\ UNCHANGED <<plan, payments, external, now, credits>>

-----------------------------------------------------------------------------
(***************************************************************************)
(* The environment.                                                        *)
(***************************************************************************)

\* A crash of the server, a lost database connection, a provider error before
\* the charge: the transaction rolls back and the caller gets no 200.
Abort(w) ==
    /\ req[w].pc # "idle"
    /\ Finish(w)
    /\ UNCHANGED <<tables, external, now>>

\* External: the payer passes or fails 3DS.
Resolve3DS(p) ==
    /\ charge[p] = "pending"
    /\ \E outcome \in Final : charge' = [charge EXCEPT ![p] = outcome]
    /\ notices' = notices \cup {p}
    /\ UNCHANGED <<tables, req, now>>

Tick ==
    /\ now < MaxTime
    /\ now' = now + 1
    /\ UNCHANGED <<tables, req, external>>

Handler(w) ==
    \/ \E outcome \in {"pending"} \cup Final, answered \in BOOLEAN :
         Charged(w, outcome, answered)
    \/ HoldPayment(w)
    \/ VerifyFetch(w)
    \/ VoidPayment(w)
    \/ MarkCompleted(w)
    \/ Activate(w)
    \/ CancelWrite(w)

Next ==
    \/ UpsertPlan
    \/ PatchPlan
    \/ Tick
    \/ \E p \in Payments : Resolve3DS(p) \/ WebhookDrop(p)
    \/ \E w \in Workers, p \in Payments :
         CheckoutBegin(w, p) \/ VerifyBegin(w, p) \/ WebhookBegin(w, p)
    \/ \E w \in Workers : CancelBegin(w) \/ Handler(w) \/ Abort(w)

Spec == Init /\ [][Next]_vars

-----------------------------------------------------------------------------
(***************************************************************************)
(* What holds whatever the interleaving.                                   *)
(***************************************************************************)

\* The payments table never disagrees with the provider: a completed payment
\* was charged, a cancelled one was refused, and a pending one reached YooKassa
\* (the webhook and verify both write the status without looking at it again).
RowsAgreeWithCharges ==
    \A p \in Payments :
        /\ payments[p].status = "completed" => charge[p] = "succeeded"
        /\ payments[p].status = "cancelled" => charge[p] = "canceled"
        /\ payments[p].status = "pending"   => charge[p] # "none"

\* A payment is completed exactly when an activation was committed for it, and
\* it then points at a subscription row that exists: the status, the activation
\* and the link commit together or not at all, through aborts and retries.
CompletedIffActivated ==
    \A p \in Payments :
        /\ payments[p].status = "completed" <=> credits[p] > 0
        /\ payments[p].status = "completed" =>
             payments[p].sub \in {s \in SubIds : subs[s].status # "none"}

\* One payment never leaves two active rows behind, however often it is
\* activated: the lock on its payment row lets its activations see each other.
\* Two payments can (see ActiveRowsBounded).
ActiveRowsFromDistinctPayments ==
    \A s, t \in ActiveRows : subs[s].by = subs[t].by => s = t

\* A status moves only forward: none, pending, then completed or cancelled, and
\* each move is one the provider's own state allows.
Ledger == INSTANCE PaymentLedger WITH
              status <- [p \in Payments |-> payments[p].status]
LedgerSpec == Ledger!Spec

(***************************************************************************)
(* What the code and its documentation say.  It does not hold as said when *)
(* requests overlap; what is stated, besides the sentence itself, is which *)
(* overlap alone breaks it, and how far.                                   *)
(***************************************************************************)

\* "Idempotent - safe to call several times" (verify): a payment buys at most
\* one subscription period, whoever reports it and however often.
CreditedOnce == \A p \in Payments : credits[p] <= 1

\* A payment buys a second period only from a request that had read it before the
\* first activation committed, and no more periods than there are requests at a time:
\* repeated webhooks and verifications add none, however many come.
CreditsBounded ==
    \A p \in Payments :
        credits[p] > 1 => p \in raced /\ credits[p] <= Cardinality(Workers)

\* A CreatorSubscription row is "the active subscription of a user to a given
\* creator": scalar_one_or_none in activate, cancel and check needs at most one.
\* There are more only if two activations had both found none, and no more than
\* requests at a time: no renewal, cancellation or expiry adds another.
ActiveRowsBounded ==
    Cardinality(ActiveRows) > 1 =>
        NoSub \in raced /\ Cardinality(ActiveRows) <= Cardinality(Workers)

\* Every activation extends its row by a full period ("activate or prolong by 30
\* days"): one is lost only if two requests had read the same row when one wrote it.
EveryTermCounts ==
    \A s \in SubIds \ raced : subs[s].exp >= Duration * subs[s].terms

\* When a payment becomes completed (the answer "success - subscription activated")
\* the subscription it was spent on is active, unless a cancellation came between
\* the SELECT and the UPDATE of the activation.
CompletionGivesAccess ==
    [][\A p \in Payments :
         payments[p].status # "completed" /\ payments'[p].status = "completed" =>
           \/ subs'[payments'[p].sub].status = "active"
           \/ payments'[p].sub \in raced]_vars

(***************************************************************************)
(* Liveness.                                                               *)
(***************************************************************************)

\* Every request ends: the calls to YooKassa have a timeout.
ServerFairness == \A w \in Workers : WF_vars(Handler(w) \/ Abort(w))

\* Somebody keeps reporting a payment: its client, which asks until it has an
\* answer, or YooKassa, which repeats what is not answered 200.  An attempt may
\* abort and be made again: not every attempt on a payment does.
Report(w, p) == VerifyBegin(w, p) \/ WebhookBegin(w, p)
OfPayment(w, p, step) == req[w].pay = p /\ step
ReportFairness ==
    \A p \in Payments :
        /\ SF_vars(\E w \in Workers : Report(w, p))
        /\ \A w \in Workers :
             /\ SF_vars(OfPayment(w, p, VerifyFetch(w)))
             /\ SF_vars(OfPayment(w, p, MarkCompleted(w)))
             /\ SF_vars(OfPayment(w, p, Activate(w)))

FairSpec == Spec /\ ServerFairness /\ ReportFairness

\* A recorded payment that went through is completed in the end.
RecordedPaymentCompletes ==
    \A p \in Payments :
        (payments[p].status = "pending" /\ charge[p] = "succeeded")
            ~> payments[p].status = "completed"

=============================================================================

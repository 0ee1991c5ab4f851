------------------------------ MODULE Payment ------------------------------
(***************************************************************************)
(* Premium plans, from an order to its expiry: the payment service's order *)
(* and webhook handlers and its two periodic workers                       *)
(* (services/payment/main.go), and the scoring service's consumer of       *)
(* payment.captured, which upgrades the user (services/scoring/main.go).   *)
(* They share the users' documents in MongoDB and know nothing of each     *)
(* other's steps.                                                          *)
(*                                                                         *)
(* A unit of time is three days, the lead of the expiry warning.  Razorpay *)
(* delivers the webhook of a payment until it is answered with 200,        *)
(* possibly twice at once.  The plan's cached copy, deleted after every    *)
(* change, is modelled in Matchmaking.                                     *)
(***************************************************************************)
EXTENDS Naturals, Sequences, FiniteSets

CONSTANTS
    None,
    Users,
    Payments, \* payments; an order has one
    Handlers, \* concurrent deliveries of webhooks
    Terms,    \* plan durations, monthly and yearly in the code
    MaxTime,  \* bound: time
    MaxSlips  \* bound: failures with an effect, crashes, lost retries

ASSUME NoneAssumption == None \notin Payments \cup Users
ASSUME TermsAssumption == Terms \subseteq Nat \ {0}
ASSUME BoundsAssumption == MaxTime \in Nat /\ MaxSlips \in Nat

VARIABLES
    now,
    order,     \* the payments collection
    hook,      \* the webhook handlers
    idem,      \* webhook:idempotency:{payment} keys
    answered,  \* payments whose webhook was answered with 200
    queue,     \* payment-success-queue
    consumer,  \* consumePaymentCaptured: where it stands
    user,      \* users: plan, planExpiresAt (0 for null), premiumExpiryWarned
    sweep,     \* checkExpiredPlans: users found expired and not yet handled
    warn,      \* sendPremiumExpiryWarnings: where it stands
    published, \* history: payment.captured published for a payment
    grants,    \* history: upgrades made for a payment
    plans,     \* history: upgrades made for a user; they number its plans
    notices,   \* history: warnings published, with the user's upgrade they are for
    slips

hookVars == <<order, hook, idem, answered>>
workerVars == <<sweep, warn, notices>>
granted == <<grants, plans>>
vars == <<now, hookVars, queue, consumer, user, workerVars, published, granted,
          slips>>

NoOrder == [status |-> "none", user |-> None, term |-> 0]
IdleHook == [at |-> "idle", payment |-> None]
IdleConsumer == [at |-> "idle", payment |-> None, expires |-> 0]
IdleWarn == [at |-> "idle", todo |-> {}, user |-> None, plan |-> [u \in Users |-> 0]]

TypeOK ==
    /\ now \in 0..MaxTime
    /\ order \in [Payments -> [status : {"none", "created", "captured"},
                               user : Users \cup {None}, term : Terms \cup {0}]]
    /\ hook \in [Handlers -> [at : {"idle", "key", "update", "find", "publish",
                                    "rollback"},
                              payment : Payments \cup {None}]]
    /\ idem \subseteq Payments
    /\ answered \subseteq Payments
    /\ queue \in Seq(Payments)
    /\ consumer \in [at : {"idle", "write", "ack"},
                     payment : Payments \cup {None}, expires : Nat]
    /\ user \in [Users -> [plan : {"free", "premium"}, expires : Nat,
                           warned : BOOLEAN]]
    /\ sweep \subseteq Users
    /\ warn \in [at : {"idle", "mark", "publish", "unmark"}, todo : SUBSET Users,
                 user : Users \cup {None}, plan : [Users -> Nat]]
    /\ published \in [Payments -> Nat]
    /\ grants \in [Payments -> Nat]
    /\ plans \in [Users -> Nat]
    /\ notices \in Seq([user : Users, plan : Nat])
    /\ slips \in 0..MaxSlips

Init ==
    /\ now = 0
    /\ order = [p \in Payments |-> NoOrder]
    /\ hook = [h \in Handlers |-> IdleHook]
    /\ idem = {} /\ answered = {}
    /\ queue = <<>> /\ consumer = IdleConsumer
    /\ user = [u \in Users |-> [plan |-> "free", expires |-> 0, warned |-> FALSE]]
    /\ sweep = {} /\ warn = IdleWarn
    /\ published = [p \in Payments |-> 0]
    /\ grants = [p \in Payments |-> 0]
    /\ plans = [u \in Users |-> 0]
    /\ notices = <<>>
    /\ slips = 0

Slip == slips < MaxSlips /\ slips' = slips + 1
NoSlip == UNCHANGED slips

Tick ==
    /\ now < MaxTime /\ now' = now + 1
    /\ UNCHANGED <<hookVars, queue, consumer, user, workerVars, published,
                   granted, slips>>

-----------------------------------------------------------------------------
(* Orders and webhooks.                                                    *)

(* CreateOrder, once the document is in the collection.                    *)
CreateOrder ==
    /\ \E p \in Payments, u \in Users, t \in Terms :
         /\ order[p] = NoOrder
         /\ order' = [order EXCEPT ![p] = [status |-> "created", user |-> u,
                                           term |-> t]]
    /\ UNCHANGED <<now, hook, idem, answered, queue, consumer, user, workerVars,
                   published, granted, slips>>

Goto(h, at) == hook' = [hook EXCEPT ![h].at = at]
Finish(h) == hook' = [hook EXCEPT ![h] = IdleHook]

(* Razorpay delivers the webhook of a payment made.                        *)
HookDeliver(h) ==
    /\ hook[h].at = "idle"
    /\ \E p \in Payments \ answered :
         /\ order[p] # NoOrder
         /\ hook' = [hook EXCEPT ![h] = [at |-> "key", payment |-> p]]
    /\ UNCHANGED <<now, order, idem, answered, queue, consumer, user, workerVars,
                   published, granted, slips>>

Answer200(h) == answered' = answered \cup {hook[h].payment} /\ Finish(h)
Answer500(h) == UNCHANGED answered /\ Finish(h)

(* A key that is set without looking whether it was.                       *)
HookKey_Set(h) ==
    /\ hook[h].at = "key"
    /\ idem' = idem \cup {hook[h].payment} /\ Goto(h, "update")
    /\ UNCHANGED <<now, order, answered, queue, consumer, user, workerVars,
                   published, granted, slips>>

(* SETNX; a failed one is answered with 500, whether it set the key or not.*)
HookKey(h) ==
    /\ hook[h].at = "key"
    /\ LET p == hook[h].payment IN
         \/ p \in idem /\ Answer200(h) /\ UNCHANGED idem /\ NoSlip
         \/ /\ p \notin idem /\ idem' = idem \cup {p}
            /\ Goto(h, "update") /\ UNCHANGED answered /\ NoSlip
         \/ Answer500(h) /\ UNCHANGED idem /\ NoSlip
         \/ Answer500(h) /\ idem' = idem \cup {p} /\ Slip
    /\ UNCHANGED <<now, order, queue, consumer, user, workerVars, published, granted>>

Captured(p) == order' = [order EXCEPT ![p].status = "captured"]

(* An update whose error is overlooked.                                    *)
HookUpdate_Overlooks(h) ==
    /\ hook[h].at = "update"
    /\ Goto(h, "find")
    /\ Captured(hook[h].payment) \/ UNCHANGED order
    /\ UNCHANGED <<now, idem, answered, queue, consumer, user, workerVars,
                   published, granted, slips>>

(* The payment's document is updated.                                      *)
HookUpdate(h) ==
    /\ hook[h].at = "update"
    /\ \/ Captured(hook[h].payment) /\ Goto(h, "find") /\ NoSlip
       \/ UNCHANGED order /\ Goto(h, "rollback") /\ NoSlip
       \/ Captured(hook[h].payment) /\ Goto(h, "rollback") /\ Slip
    /\ UNCHANGED <<now, idem, answered, queue, consumer, user, workerVars,
                   published, granted>>

(* The document is read back; any error counts as "no matching order".     *)
HookFind(h) ==
    /\ hook[h].at = "find"
    /\ \/ Goto(h, "publish") /\ UNCHANGED answered /\ NoSlip
       \/ Answer200(h) /\ Slip
    /\ UNCHANGED <<now, order, idem, queue, consumer, user, workerVars,
                   published, granted>>

Publish(p) ==
    /\ queue' = Append(queue, p)
    /\ published' = [published EXCEPT ![p] = @ + 1]

(* A failed publication that leaves the key.                               *)
HookPublish_KeepsKey(h) ==
    /\ hook[h].at = "publish"
    /\ \/ Publish(hook[h].payment) /\ Answer200(h) /\ NoSlip
       \/ UNCHANGED <<queue, published>> /\ Answer500(h) /\ NoSlip
    /\ UNCHANGED <<now, order, idem, consumer, user, workerVars, granted>>

HookPublish(h) ==
    /\ hook[h].at = "publish"
    /\ \/ Publish(hook[h].payment) /\ Answer200(h) /\ NoSlip
       \/ /\ UNCHANGED <<queue, published, answered>>
          /\ Goto(h, "rollback") /\ NoSlip
       \/ /\ Publish(hook[h].payment) /\ UNCHANGED answered
          /\ Goto(h, "rollback") /\ Slip
    /\ UNCHANGED <<now, order, idem, consumer, user, workerVars, granted>>

(* The key is deleted, an error of that ignored, and 500 answered.         *)
HookRollback(h) ==
    /\ hook[h].at = "rollback"
    /\ Answer500(h)
    /\ \/ idem' = idem \ {hook[h].payment} /\ NoSlip
       \/ UNCHANGED idem /\ Slip
    /\ UNCHANGED <<now, order, queue, consumer, user, workerVars, published, granted>>

Hook == \E h \in Handlers : \/ HookDeliver(h) \/ HookKey(h) \/ HookUpdate(h)
                            \/ HookFind(h) \/ HookPublish(h) \/ HookRollback(h)

-----------------------------------------------------------------------------
(* consumePaymentCaptured.                                                 *)

(* The new expiry is the present plus the term: the remaining days of a    *)
(* running plan would be added only if the driver decoded a date into a    *)
(* time.Time, and in a bson.M it does not.                                 *)
CaptureRead ==
    /\ consumer.at = "idle" /\ queue # <<>>
    /\ consumer' = [at |-> "write", payment |-> Head(queue),
                    expires |-> now + order[Head(queue)].term]
    /\ queue' = Tail(queue)
    /\ UNCHANGED <<now, hookVars, user, workerVars, published, granted, slips>>

Upgrade ==
    LET p == consumer.payment IN
    /\ user' = [user EXCEPT ![order[p].user] =
                  [plan |-> "premium", expires |-> consumer.expires,
                   warned |-> FALSE]]
    /\ grants' = [grants EXCEPT ![p] = @ + 1]
    /\ plans' = [plans EXCEPT ![order[p].user] = @ + 1]

Return == queue' = <<consumer.payment>> \o queue /\ consumer' = IdleConsumer

(* A failed upgrade that is acked.                                         *)
CaptureWrite_Discards ==
    /\ consumer.at = "write"
    /\ \/ Upgrade /\ NoSlip
       \/ UNCHANGED <<user, granted>> /\ Slip
    /\ consumer' = [consumer EXCEPT !.at = "ack"]
    /\ UNCHANGED <<now, hookVars, queue, workerVars, published>>

(* The user is upgraded; a failed update, effective or not, is requeued.   *)
CaptureWrite ==
    /\ consumer.at = "write"
    /\ \/ /\ Upgrade /\ consumer' = [consumer EXCEPT !.at = "ack"]
          /\ UNCHANGED queue /\ NoSlip
       \/ (Upgrade \/ UNCHANGED <<user, granted>>) /\ Return /\ Slip
    /\ UNCHANGED <<now, hookVars, workerVars, published>>

CaptureAck ==
    /\ consumer.at = "ack"
    /\ consumer' = IdleConsumer
    /\ UNCHANGED <<now, hookVars, queue, user, workerVars, published, granted, slips>>

Capture == CaptureRead \/ CaptureWrite \/ CaptureAck

-----------------------------------------------------------------------------
(* The periodic workers of the payment service.                            *)

Expired(u) == user[u].plan = "premium" /\ user[u].expires < now

(* A sweep that compares with the wrong end of the day.                    *)
SweepStart_Late ==
    /\ sweep = {}
    /\ sweep' = {u \in Users : Expired(u) /\ user[u].expires + 1 < now}
    /\ UNCHANGED <<now, hookVars, queue, consumer, user, warn, notices, published,
                   granted, slips>>

(* checkExpiredPlans finds the expired plans ...                           *)
SweepStart ==
    /\ sweep = {}
    /\ sweep' = {u \in Users : Expired(u)}
    /\ UNCHANGED <<now, hookVars, queue, consumer, user, warn, notices, published,
                   granted, slips>>

(* ... and ends them one by one, as found; an error is ignored.            *)
SweepDowngrade ==
    /\ \E u \in sweep :
         /\ sweep' = sweep \ {u}
         /\ \/ /\ user' = [user EXCEPT ![u] = [plan |-> "free", expires |-> 0,
                                               warned |-> FALSE]]
               /\ NoSlip
            \/ UNCHANGED user /\ Slip
    /\ UNCHANGED <<now, hookVars, queue, consumer, warn, notices, published, granted>>

Sweep == SweepStart \/ SweepDowngrade

(* sendPremiumExpiryWarnings finds the plans that expire in three days,    *)
(* whose user was not warned ...                                           *)
Due(u) == /\ user[u].plan = "premium" /\ user[u].expires = now + 1
          /\ ~ user[u].warned

WarnStart ==
    /\ warn.at = "idle"
    /\ \E u \in Users : Due(u)
    /\ warn' = [IdleWarn EXCEPT !.at = "mark", !.todo = {u \in Users : Due(u)},
                                !.plan = plans]
    /\ UNCHANGED <<now, hookVars, queue, consumer, user, sweep, notices, published,
                   granted, slips>>

WarnNext ==
    warn' = IF warn.todo = {} THEN IdleWarn
            ELSE [warn EXCEPT !.at = "mark", !.user = None]

Warned(u, b) == user' = [user EXCEPT ![u].warned = b]

(* ... marks them one by one, skipping those it fails to mark, ...         *)
WarnMark ==
    /\ warn.at = "mark"
    /\ \E u \in warn.todo :
         LET rest == [warn EXCEPT !.todo = @ \ {u}] IN
         \/ /\ Warned(u, TRUE) /\ NoSlip
            /\ warn' = [rest EXCEPT !.at = "publish", !.user = u]
         \/ /\ Warned(u, TRUE) \/ UNCHANGED user
            /\ warn' = IF rest.todo = {} THEN IdleWarn ELSE rest
            /\ Slip
    /\ UNCHANGED <<now, hookVars, queue, consumer, sweep, notices, published, granted>>

Notice == notices' = Append(notices, [user |-> warn.user,
                                      plan |-> warn.plan[warn.user]])

(* ... publishes the warning ...                                           *)
WarnPublish ==
    /\ warn.at = "publish"
    /\ \/ Notice /\ WarnNext /\ NoSlip
       \/ UNCHANGED notices /\ warn' = [warn EXCEPT !.at = "unmark"] /\ NoSlip
       \/ Notice /\ warn' = [warn EXCEPT !.at = "unmark"] /\ Slip
    /\ UNCHANGED <<now, hookVars, queue, consumer, user, sweep, published, granted>>

(* ... and takes the mark back when that failed.                           *)
WarnUnmark ==
    /\ warn.at = "unmark"
    /\ WarnNext
    /\ \/ Warned(warn.user, FALSE) /\ NoSlip
       \/ UNCHANGED user /\ Slip
    /\ UNCHANGED <<now, hookVars, queue, consumer, sweep, notices, published, granted>>

Warn == WarnStart \/ WarnMark \/ WarnPublish \/ WarnUnmark

-----------------------------------------------------------------------------
(* Restarts.                                                               *)

PaymentCrash ==
    /\ Slip
    /\ hook' = [h \in Handlers |-> IdleHook]
    /\ sweep' = {} /\ warn' = IdleWarn
    /\ UNCHANGED <<now, order, idem, answered, queue, consumer, user, notices,
                   published, granted>>

ScoringCrash ==
    /\ Slip
    /\ consumer.at # "idle" /\ Return
    /\ UNCHANGED <<now, hookVars, user, workerVars, published, granted>>

Next == \/ Tick \/ CreateOrder \/ Hook \/ Capture \/ Sweep \/ Warn
        \/ PaymentCrash \/ ScoringCrash

Spec == Init /\ [][Next]_vars

(* The consumer consumes and the expiry ticker ticks.                      *)
FairSpec == Spec /\ WF_vars(Capture) /\ WF_vars(Sweep)

-----------------------------------------------------------------------------
InHandler(p) == \E h \in Handlers :
    hook[h].payment = p /\ hook[h].at \in {"update", "find", "publish", "rollback"}

UnderWay(p) == \/ \E i \in DOMAIN queue : queue[i] = p
               \/ consumer.payment = p

(* A paid upgrade is not forgotten.  As long as calls either work or fail  *)
(* cleanly, a key that turns further webhooks away belongs to a payment    *)
(* that was published or is in a handler that will publish it or delete    *)
(* the key, whatever deliveries cross it; and, whatever fails, what was    *)
(* published is queued, in the consumer's hands, or granted.               *)
PaymentIsFollowed ==
    \A p \in Payments :
       /\ slips = 0 /\ p \in idem => published[p] > 0 \/ InHandler(p)
       /\ published[p] > 0 => UnderWay(p) \/ grants[p] > 0

(* README on the webhook: "SETNX idempotency ... prevents duplicate        *)
(* processing".  A payment is published once, and granted once for each    *)
(* publication, but for one repetition per failure.                        *)
GrantedOnce ==
    \A p \in Payments : /\ published[p] <= 1 + slips
                         /\ grants[p] <= 1 + slips

(* Whoever is premium has a payment in the history that was captured: the  *)
(* document is updated before the upgrade is published.                    *)
PremiumIsPaid ==
    \A u \in Users : user[u].plan = "premium" =>
       \E p \in Payments : order[p].user = u /\ order[p].status = "captured"

(* The comment of premiumExpiryWarningWorker: "Each user is warned at most *)
(* once per plan", whatever renewals and downgrades cross the sweep, but   *)
(* for one repetition per failure.                                         *)
WarnedOncePerPlan ==
    \A i \in DOMAIN notices :
       Cardinality({j \in DOMAIN notices : notices[j] = notices[i]}) <= 1 + slips

(* What happens once: a payment's plan is granted, and a plan's user is    *)
(* warned of its end.                                                      *)
GrantSafety == TypeOK /\ GrantedOnce /\ WarnedOncePerPlan

(* A published payment upgrades its user in the end.                       *)
PublishedIsGranted == \A p \in Payments : published[p] > 0 ~> grants[p] > 0

(* "The actual downgrade still happens on time via planExpiryWorker": an   *)
(* expired plan is ended, unless it is renewed.                            *)
ExpiredPlanEnds == \A u \in Users : Expired(u) ~> ~ Expired(u)

(* The comment at services/payment/main.go:313: the publication "must      *)
(* succeed or rollback".  A webhook that is answered with 200, and so not  *)
(* delivered again, was published, or is in a handler that will do it.     *)
AnsweredIsPublished ==
    \A p \in answered : published[p] > 0 \/ InHandler(p)
=============================================================================

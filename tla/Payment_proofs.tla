--------------------------- MODULE Payment_proofs ---------------------------
(***************************************************************************)
(* Theorems about Payment, for any users, payments, deliveries, terms and  *)
(* failures: nobody is premium without a captured payment, a paid upgrade  *)
(* is not forgotten nor made twice, and a plan's user is warned once.      *)
(***************************************************************************)
EXTENDS Payment, FiniteSetTheorems, TLAPS

USE DEF granted

(* The part of TypeOK the proofs need (the rest concerns the warnings).    *)
PayTypes ==
    /\ order \in [Payments -> [status : {"none", "created", "captured"},
                               user : Users \cup {None}, term : Terms \cup {0}]]
    /\ hook \in [Handlers -> [at : {"idle", "key", "update", "find", "publish",
                                    "rollback"},
                              payment : Payments \cup {None}]]
    /\ \A h \in Handlers : hook[h].at # "idle" => hook[h].payment \in Payments
    /\ idem \subseteq Payments
    /\ queue \in Seq(Payments)
    /\ consumer \in [at : {"idle", "write", "ack"},
                     payment : Payments \cup {None}, expires : Nat]
    /\ consumer.at # "idle" <=> consumer.payment \in Payments
    /\ user \in [Users -> [plan : {"free", "premium"}, expires : Nat,
                           warned : BOOLEAN]]
    /\ published \in [Payments -> Nat]
    /\ grants \in [Payments -> Nat]
    /\ now \in Nat /\ slips \in Nat

Paid(p) == order[p].status = "captured"

(* Behind every step towards an upgrade there is a captured payment.       *)
PaidSteps ==
    /\ \A p \in Payments : order[p].status = "none" <=> order[p] = NoOrder
    /\ \A p \in Payments : order[p] # NoOrder => order[p].user \in Users
    /\ \A h \in Handlers : hook[h].at # "idle" => order[hook[h].payment] # NoOrder
    /\ \A h \in Handlers :
          hook[h].at \in {"find", "publish"} => Paid(hook[h].payment)
    /\ \A p \in Payments : UnderWay(p) => Paid(p)

PayInv == PayTypes /\ PaidSteps /\ PremiumIsPaid /\ PaymentIsFollowed

-----------------------------------------------------------------------------
(* What the queue holds.                                                   *)

Holds(q, x) == \E i \in DOMAIN q : q[i] = x

LEMMA HoldsAppend ==
    ASSUME NEW S, NEW q \in Seq(S), NEW e \in S, NEW x
    PROVE  Holds(Append(q, e), x) <=> Holds(q, x) \/ x = e
<1>1. /\ Len(q) \in Nat /\ DOMAIN q = 1..Len(q)
      /\ DOMAIN Append(q, e) = 1..(Len(q) + 1)
      /\ Append(q, e)[Len(q) + 1] = e
      /\ \A i \in 1..Len(q) : Append(q, e)[i] = q[i]
  OBVIOUS
<1>2. \A i \in 1..(Len(q) + 1) : i \in 1..Len(q) \/ i = Len(q) + 1
  BY <1>1
<1>3. Len(q) + 1 \in 1..(Len(q) + 1) /\ 1..Len(q) \subseteq 1..(Len(q) + 1)
  BY <1>1
<1> QED BY <1>1, <1>2, <1>3 DEF Holds

LEMMA HoldsTail ==
    ASSUME NEW S, NEW q \in Seq(S), q # <<>>, NEW x
    PROVE  /\ Head(q) \in S /\ Tail(q) \in Seq(S)
           /\ Holds(q, x) <=> Holds(Tail(q), x) \/ x = Head(q)
<1>1. /\ Len(q) \in Nat /\ Len(q) >= 1
      /\ Head(q) \in S /\ Tail(q) \in Seq(S) /\ Head(q) = q[1]
      /\ DOMAIN q = 1..Len(q) /\ DOMAIN Tail(q) = 1..(Len(q) - 1)
      /\ \A i \in 1..(Len(q) - 1) : Tail(q)[i] = q[i + 1]
  OBVIOUS
<1>2. ASSUME NEW i \in 1..Len(q)
      PROVE  i = 1 \/ (i - 1 \in 1..(Len(q) - 1) /\ Tail(q)[i - 1] = q[i])
  BY <1>1
<1>3. \A i \in 1..(Len(q) - 1) : i + 1 \in 1..Len(q)
  BY <1>1
<1>4. Holds(q, x) => Holds(Tail(q), x) \/ x = Head(q)
  BY <1>1, <1>2 DEF Holds
<1>5. Holds(Tail(q), x) \/ x = Head(q) => Holds(q, x)
  BY <1>1, <1>3 DEF Holds
<1> QED BY <1>1, <1>4, <1>5

LEMMA HoldsCons ==
    ASSUME NEW S, NEW q \in Seq(S), NEW e \in S, NEW x
    PROVE  /\ <<e>> \o q \in Seq(S)
           /\ Holds(<<e>> \o q, x) <=> Holds(q, x) \/ x = e
<1>1. /\ Len(q) \in Nat /\ DOMAIN q = 1..Len(q)
      /\ <<e>> \o q \in Seq(S) /\ DOMAIN (<<e>> \o q) = 1..(Len(q) + 1)
      /\ (<<e>> \o q)[1] = e
      /\ \A i \in 1..Len(q) : (<<e>> \o q)[i + 1] = q[i]
  OBVIOUS
<1>2. ASSUME NEW i \in 1..(Len(q) + 1)
      PROVE  i = 1 \/ (i - 1 \in 1..Len(q) /\ (<<e>> \o q)[i] = q[i - 1])
  BY <1>1
<1>3. 1 \in 1..(Len(q) + 1) /\ \A i \in 1..Len(q) : i + 1 \in 1..(Len(q) + 1)
  BY <1>1
<1>4. Holds(<<e>> \o q, x) => Holds(q, x) \/ x = e
  BY <1>1, <1>2 DEF Holds
<1>5. Holds(q, x) \/ x = e => Holds(<<e>> \o q, x)
  BY <1>1, <1>3 DEF Holds
<1> QED BY <1>1, <1>4, <1>5

LEMMA UnderWayHolds ==
    \A p : UnderWay(p) <=> Holds(queue, p) \/ consumer.payment = p
BY DEF UnderWay, Holds

-----------------------------------------------------------------------------
(* What a handler's step does to the handlers.                             *)

LEMMA GotoShape ==
    ASSUME PayTypes, NEW h \in Handlers, hook[h].at # "idle",
           NEW a \in {"update", "find", "publish", "rollback"}, Goto(h, a)
    PROVE  /\ hook' \in [Handlers -> [at : {"idle", "key", "update", "find",
                                           "publish", "rollback"},
                                     payment : Payments \cup {None}]]
           /\ hook'[h].at = a /\ hook'[h].payment = hook[h].payment
           /\ \A g \in Handlers \ {h} : hook'[g] = hook[g]
BY DEF PayTypes, Goto

LEMMA FinishShape ==
    ASSUME PayTypes, NEW h \in Handlers, Finish(h)
    PROVE  /\ hook' \in [Handlers -> [at : {"idle", "key", "update", "find",
                                           "publish", "rollback"},
                                     payment : Payments \cup {None}]]
           /\ hook'[h] = IdleHook
           /\ \A g \in Handlers \ {h} : hook'[g] = hook[g]
BY DEF PayTypes, Finish, IdleHook

(* A handler in hand has a payment, with an order.                         *)
LEMMA HookPayment ==
    ASSUME PayInv, NEW h \in Handlers, hook[h].at # "idle"
    PROVE  hook[h].payment \in Payments /\ order[hook[h].payment] # NoOrder
BY DEF PayInv, PayTypes, PaidSteps

-----------------------------------------------------------------------------
(* Steps that neither pay, publish nor grant.                              *)

LEMMA Frame ==
    ASSUME PayInv,
           UNCHANGED <<order, hook, idem, queue, consumer, published, grants>>,
           user' \in [Users -> [plan : {"free", "premium"}, expires : Nat,
                               warned : BOOLEAN]],
           \A u \in Users : user'[u].plan = "premium" => user[u].plan = "premium",
           now' \in Nat, slips' \in Nat, slips' = 0 => slips = 0
    PROVE  PayInv'
<1> USE DEF PayInv
<1>1. PayTypes'
  BY DEF PayTypes
<1>2. PaidSteps'
  BY DEF PaidSteps, UnderWay, Paid
<1>3. PremiumIsPaid'
  BY DEF PremiumIsPaid
<1>4. PaymentIsFollowed'
  BY DEF PaymentIsFollowed, UnderWay, InHandler
<1> QED BY <1>1, <1>2, <1>3, <1>4

LEMMA SlipFacts ==
    ASSUME slips \in Nat, Slip \/ NoSlip
    PROVE  slips' \in Nat /\ (slips' = 0 => slips = 0)
BY DEF Slip, NoSlip

LEMMA TickInv == PayInv /\ Tick => PayInv'
<1> SUFFICES ASSUME PayInv, Tick PROVE PayInv'
  OBVIOUS
<1>1. now' \in Nat /\ slips' \in Nat /\ (slips' = 0 => slips = 0)
  BY DEF Tick, PayInv, PayTypes
<1>2. user' \in [Users -> [plan : {"free", "premium"}, expires : Nat,
                          warned : BOOLEAN]]
  BY DEF Tick, PayInv, PayTypes
<1> QED BY <1>1, <1>2, Frame DEF Tick, hookVars

LEMMA SweepInv == PayInv /\ Sweep => PayInv'
<1> SUFFICES ASSUME PayInv, Sweep PROVE PayInv'
  OBVIOUS
<1> DEFINE T == [Users -> [plan : {"free", "premium"}, expires : Nat,
                           warned : BOOLEAN]]
<1>1. user \in T /\ slips \in Nat /\ now \in Nat
  BY DEF PayInv, PayTypes
<1>2. /\ UNCHANGED <<now, order, hook, idem, queue, consumer, published, grants>>
      /\ Slip \/ NoSlip
  BY DEF Sweep, SweepStart, SweepDowngrade, hookVars, NoSlip
<1>3. /\ user' \in T
      /\ \A u \in Users : user'[u].plan = "premium" => user[u].plan = "premium"
  <2>1. CASE UNCHANGED user
    BY <1>1, <2>1
  <2>2. ASSUME NEW u, user' = [user EXCEPT ![u] = [plan |-> "free", expires |-> 0,
                                                   warned |-> FALSE]]
        PROVE  /\ user' \in T
               /\ \A v \in Users :
                     user'[v].plan = "premium" => user[v].plan = "premium"
    BY <1>1, <2>2
  <2> QED BY <2>1, <2>2 DEF Sweep, SweepStart, SweepDowngrade
<1> QED BY <1>1, <1>2, <1>3, SlipFacts, Frame

LEMMA WarnInv == PayInv /\ Warn => PayInv'
<1> SUFFICES ASSUME PayInv, Warn PROVE PayInv'
  OBVIOUS
<1> DEFINE T == [Users -> [plan : {"free", "premium"}, expires : Nat,
                           warned : BOOLEAN]]
<1>1. user \in T /\ slips \in Nat /\ now \in Nat
  BY DEF PayInv, PayTypes
<1>2. /\ UNCHANGED <<now, order, hook, idem, queue, consumer, published, grants>>
      /\ Slip \/ NoSlip
  BY DEF Warn, WarnStart, WarnMark, WarnPublish, WarnUnmark, hookVars, NoSlip
<1>3. UNCHANGED user \/ (\E u : \E b \in BOOLEAN : Warned(u, b))
  BY DEF Warn, WarnStart, WarnMark, WarnPublish, WarnUnmark
<1>4. /\ user' \in T
      /\ \A u \in Users : user'[u].plan = "premium" => user[u].plan = "premium"
  <2>1. CASE UNCHANGED user
    BY <1>1, <2>1
  <2>2. ASSUME NEW u, NEW b \in BOOLEAN, Warned(u, b)
        PROVE  /\ user' \in T
               /\ \A v \in Users :
                     user'[v].plan = "premium" => user[v].plan = "premium"
    <3>1. CASE u \in Users
      BY <1>1, <2>2, <3>1 DEF Warned
    <3>2. CASE u \notin Users
      BY <1>1, <2>2, <3>2 DEF Warned
    <3> QED BY <3>1, <3>2
  <2> QED BY <1>3, <2>1, <2>2
<1> QED BY <1>1, <1>2, <1>4, SlipFacts, Frame

-----------------------------------------------------------------------------
(* Orders and webhooks.                                                    *)

LEMMA OrderInv == PayInv /\ CreateOrder => PayInv'
<1> SUFFICES ASSUME PayInv, CreateOrder PROVE PayInv'
  OBVIOUS
<1> USE DEF PayInv
<1>1. PICK p \in Payments, u \in Users, t \in Terms :
         /\ order[p] = NoOrder
         /\ order' = [order EXCEPT ![p] = [status |-> "created", user |-> u,
                                          term |-> t]]
  BY DEF CreateOrder
<1>2. UNCHANGED <<now, hook, idem, queue, consumer, user, published, grants, slips>>
  BY DEF CreateOrder
<1>3. /\ order'[p] = [status |-> "created", user |-> u, term |-> t]
      /\ \A q \in Payments \ {p} : order'[q] = order[q]
      /\ ~ Paid(p)
  BY <1>1 DEF PayTypes, Paid, NoOrder
<1>4. PayTypes'
  <2>1. order' \in [Payments -> [status : {"none", "created", "captured"},
                               user : Users \cup {None}, term : Terms \cup {0}]]
    BY <1>1 DEF PayTypes
  <2> QED BY <1>2, <2>1 DEF PayTypes
<1>5. \A q \in Payments : Paid(q) => q # p /\ Paid(q)'
  BY <1>3 DEF Paid
<1>6. PaidSteps'
  <2>1. \A q \in Payments : /\ order'[q].status = "none" <=> order'[q] = NoOrder
                            /\ order'[q] # NoOrder => order'[q].user \in Users
    BY <1>3 DEF PaidSteps, NoOrder
  <2>2. \A h \in Handlers : hook[h].at # "idle" => order'[hook[h].payment] # NoOrder
    BY <1>3 DEF PaidSteps, PayTypes, NoOrder
  <2>3. \A h \in Handlers : hook[h].at \in {"find", "publish"} =>
                              Paid(hook[h].payment)'
    BY <1>2, <1>5 DEF PaidSteps, PayTypes
  <2>4. \A q \in Payments : UnderWay(q)' => Paid(q)'
    BY <1>2, <1>5 DEF PaidSteps, UnderWay
  <2> QED BY <1>2, <2>1, <2>2, <2>3, <2>4 DEF PaidSteps, Paid
<1>7. PremiumIsPaid'
  BY <1>2, <1>3, <1>5 DEF PremiumIsPaid, Paid
<1>8. PaymentIsFollowed'
  BY <1>2 DEF PaymentIsFollowed, InHandler, UnderWay
<1> QED BY <1>4, <1>6, <1>7, <1>8

(* A webhook arrives; its handler has no key yet.                          *)
LEMMA DeliverInv ==
    ASSUME PayInv, NEW h \in Handlers, HookDeliver(h)
    PROVE  PayInv'
<1> USE DEF PayInv
<1>1. PICK p \in Payments : /\ order[p] # NoOrder
                            /\ hook' = [hook EXCEPT ![h] = [at |-> "key",
                                                           payment |-> p]]
  BY DEF HookDeliver
<1>2. /\ hook[h].at = "idle"
      /\ UNCHANGED <<now, order, idem, queue, consumer, user, published, grants,
                     slips>>
  BY DEF HookDeliver
<1>3. /\ hook'[h] = [at |-> "key", payment |-> p]
      /\ \A g \in Handlers \ {h} : hook'[g] = hook[g]
  BY <1>1 DEF PayTypes
<1>4. PayTypes'
  <2>1. hook' \in [Handlers -> [at : {"idle", "key", "update", "find", "publish",
                                     "rollback"}, payment : Payments \cup {None}]]
    BY <1>1 DEF PayTypes
  <2>2. ASSUME NEW g \in Handlers, hook'[g].at # "idle"
        PROVE  hook'[g].payment \in Payments
    <3>1. CASE g = h
      BY <1>3, <3>1
    <3>2. CASE g # h
      BY <1>3, <2>2, <3>2 DEF PayTypes
    <3> QED BY <3>1, <3>2
  <2> QED BY <1>2, <2>1, <2>2 DEF PayTypes
<1>5. PaidSteps'
  BY <1>1, <1>2, <1>3 DEF PaidSteps, UnderWay, Paid
<1>6. PremiumIsPaid'
  BY <1>2 DEF PremiumIsPaid
<1>7. PaymentIsFollowed'
  BY <1>2, <1>3 DEF PaymentIsFollowed, InHandler, UnderWay
<1> QED BY <1>4, <1>5, <1>6, <1>7

(* The handler's later steps, all of one shape: it goes on with the same   *)
(* payment or returns; it may set or delete its payment's key, capture its *)
(* payment, or publish it.                                                 *)
LEMMA HandlerStep ==
    ASSUME PayInv, NEW h \in Handlers, hook[h].at # "idle",
           NEW p \in Payments, p = hook[h].payment,
           UNCHANGED <<now, consumer, user, grants>>,
           slips' \in Nat, slips' = 0 => slips = 0,
           \/ UNCHANGED order
           \/ Captured(p),
           \/ Finish(h)
           \/ Goto(h, "update") \/ Goto(h, "rollback")
           \/ Goto(h, "find") /\ Captured(p)
           \/ Goto(h, "publish") /\ hook[h].at = "find",
           \/ UNCHANGED <<queue, published>>
           \/ Publish(p) /\ hook[h].at = "publish",
           idem' \subseteq Payments,
           \A q \in Payments : q # p => (q \in idem' <=> q \in idem),
           slips' = 0 /\ p \in idem' => published'[p] > 0 \/ InHandler(p)'
    PROVE  PayInv'
<1> USE DEF PayInv
<1>1. /\ hook' \in [Handlers -> [at : {"idle", "key", "update", "find", "publish",
                                     "rollback"}, payment : Payments \cup {None}]]
      /\ hook'[h] = IdleHook \/ (/\ hook'[h].payment = p
                                 /\ hook'[h].at \in {"update", "find", "publish",
                                                     "rollback"})
      /\ \A g \in Handlers \ {h} : hook'[g] = hook[g]
  BY GotoShape, FinishShape
<1>2. hook'[h].at = "find" => Captured(p)
  BY GotoShape, FinishShape DEF IdleHook
<1>3. hook'[h].at = "publish" => hook[h].at = "find"
  BY GotoShape, FinishShape DEF IdleHook
<1>4. order[p] # NoOrder
  BY HookPayment
<1> DEFINE Kept(q) == /\ order'[q].user = order[q].user
                      /\ order'[q] = NoOrder <=> order[q] = NoOrder
                      /\ order'[q].status = "none" <=> order'[q] = NoOrder
                      /\ order[q].status = "captured" =>
                            order'[q].status = "captured"
<1>5. order' \in [Payments -> [status : {"none", "created", "captured"},
                              user : Users \cup {None}, term : Terms \cup {0}]]
  <2>1. CASE UNCHANGED order
    BY <2>1 DEF PayTypes
  <2>2. CASE Captured(p)
    <3>1. order' = [order EXCEPT ![p].status = "captured"]
      BY <2>2 DEF Captured
    <3>2. order \in [Payments -> [status : {"none", "created", "captured"},
                                 user : Users \cup {None}, term : Terms \cup {0}]]
      BY DEF PayTypes
    <3> QED BY <3>1, <3>2
  <2> QED BY <2>1, <2>2
<1>5a. \A q \in Payments : Kept(q)
  <2>1. CASE UNCHANGED order
    BY <2>1 DEF PaidSteps
  <2>2. CASE Captured(p)
    <3>1. /\ order'[p].status = "captured" /\ order'[p].user = order[p].user
          /\ \A q \in Payments \ {p} : order'[q] = order[q]
      BY <2>2 DEF Captured, PayTypes
    <3>2. ASSUME NEW q \in Payments
          PROVE  Kept(q)
      <4>1. CASE q = p
        BY <1>4, <3>1, <4>1 DEF NoOrder
      <4>2. CASE q # p
        BY <3>1, <4>2 DEF PaidSteps
      <4> QED BY <4>1, <4>2
    <3> QED BY <3>2
  <2> QED BY <2>1, <2>2
<1>6. Captured(p) => Paid(p)'
  BY DEF Captured, Paid, PayTypes
<1>7. /\ queue' \in Seq(Payments) /\ published' \in [Payments -> Nat]
      /\ \A q \in Payments : Holds(queue', q) =>
             Holds(queue, q) \/ (q = p /\ hook[h].at = "publish")
      /\ \A q \in Payments : Holds(queue, q) => Holds(queue', q)
      /\ \A q \in Payments : published[q] > 0 => published'[q] > 0
      /\ \A q \in Payments : published'[q] > 0 =>
             published[q] > 0 \/ Holds(queue', q)
  <2>1. CASE UNCHANGED <<queue, published>>
    BY <2>1 DEF PayTypes
  <2>2. CASE Publish(p) /\ hook[h].at = "publish"
    <3>1. queue' = Append(queue, p) /\ published' = [published EXCEPT ![p] = @ + 1]
      BY <2>2 DEF Publish
    <3>2. queue \in Seq(Payments) /\ published \in [Payments -> Nat]
      BY DEF PayTypes
    <3>3. /\ queue' \in Seq(Payments)
          /\ \A q \in Payments : Holds(queue', q) <=> Holds(queue, q) \/ q = p
      BY <3>1, <3>2, HoldsAppend
    <3>4. /\ published' \in [Payments -> Nat]
          /\ \A q \in Payments : published'[q] >= published[q]
          /\ \A q \in Payments \ {p} : published'[q] = published[q]
      BY <3>1, <3>2
    <3>5. \A q \in Payments : published[q] \in Nat /\ published'[q] \in Nat
      BY <3>2, <3>4
    <3> QED BY <2>2, <3>3, <3>4, <3>5
  <2> QED BY <2>1, <2>2
<1>8. PayTypes'
  <2>1. ASSUME NEW g \in Handlers, hook'[g].at # "idle"
        PROVE  hook'[g].payment \in Payments
    <3>1. CASE g = h
      BY <1>1, <2>1, <3>1 DEF IdleHook
    <3>2. CASE g # h
      BY <1>1, <2>1, <3>2 DEF PayTypes
    <3> QED BY <3>1, <3>2
  <2>2. /\ consumer' = consumer /\ user' = user /\ grants' = grants /\ now' = now
        /\ idem' \subseteq Payments /\ slips' \in Nat
    OBVIOUS
  <2> QED BY <1>1, <1>5, <1>7, <2>1, <2>2 DEF PayTypes
<1>9. PaidSteps'
  <2>1. ASSUME NEW g \in Handlers, hook'[g].at # "idle"
        PROVE  order'[hook'[g].payment] # NoOrder
    <3>1. CASE g = h
      BY <1>1, <1>4, <1>5a, <2>1, <3>1 DEF IdleHook
    <3>2. CASE g # h
      BY <1>1, <1>5a, <2>1, <3>2 DEF PaidSteps, PayTypes
    <3> QED BY <3>1, <3>2
  <2>2. ASSUME NEW g \in Handlers, hook'[g].at \in {"find", "publish"}
        PROVE  order'[hook'[g].payment].status = "captured"
    <3>1. CASE g = h
      <4>1. hook'[h].payment = p
        BY <1>1, <2>2, <3>1 DEF IdleHook
      <4>2. CASE hook'[h].at = "find"
        BY <1>2, <1>6, <3>1, <4>1, <4>2 DEF Paid
      <4>3. CASE hook'[h].at = "publish"
        <5>1. Paid(p)
          BY <1>3, <4>3 DEF PaidSteps
        <5> QED BY <1>5a, <3>1, <4>1, <5>1 DEF Paid
      <4> QED BY <2>2, <3>1, <4>2, <4>3
    <3>2. CASE g # h
      <4>1. hook'[g] = hook[g] /\ hook[g].payment \in Payments /\ Paid(hook[g].payment)
        BY <1>1, <2>2, <3>2 DEF PaidSteps, PayTypes
      <4> QED BY <1>5a, <4>1 DEF Paid
    <3> QED BY <3>1, <3>2
  <2>3. ASSUME NEW q \in Payments, UnderWay(q)'
        PROVE  Paid(q)'
    <3>1. Holds(queue', q) \/ consumer.payment = q
      BY <2>3 DEF UnderWay, Holds
    <3>2. CASE Holds(queue, q) \/ consumer.payment = q
      BY <1>5a, <3>2, UnderWayHolds DEF PaidSteps, Paid
    <3>3. CASE q = p /\ hook[h].at = "publish"
      BY <1>5a, <3>3 DEF PaidSteps, Paid
    <3> QED BY <1>7, <3>1, <3>2, <3>3
  <2>4. ASSUME NEW q \in Payments, order'[q] # NoOrder
        PROVE  order'[q].user \in Users
    BY <1>5a, <2>4 DEF PaidSteps
  <2> QED BY <1>5a, <2>1, <2>2, <2>3, <2>4 DEF PaidSteps, Paid
<1>10. PremiumIsPaid'
  <2>1. ASSUME NEW u \in Users, user'[u].plan = "premium"
        PROVE  \E q \in Payments : /\ order'[q].user = u
                                   /\ order'[q].status = "captured"
    <3>1. PICK q \in Payments : order[q].user = u /\ order[q].status = "captured"
      BY <2>1 DEF PremiumIsPaid
    <3> QED BY <1>5a, <3>1 DEF Paid
  <2> QED BY <2>1 DEF PremiumIsPaid
<1>11. PaymentIsFollowed'
  <2>1. ASSUME NEW q \in Payments, q # p, slips' = 0, q \in idem'
        PROVE  published'[q] > 0 \/ InHandler(q)'
    <3>1. published[q] > 0 \/ InHandler(q)
      BY <2>1 DEF PaymentIsFollowed
    <3>2. InHandler(q) => InHandler(q)'
      BY <1>1, <2>1 DEF InHandler
    <3> QED BY <1>7, <3>1, <3>2
  <2>2. ASSUME NEW q \in Payments, published'[q] > 0
        PROVE  UnderWay(q)' \/ grants'[q] > 0
    BY <1>7, <2>2 DEF PaymentIsFollowed, UnderWay, Holds
  <2> QED BY <2>1, <2>2 DEF PaymentIsFollowed
<1> QED BY <1>8, <1>9, <1>10, <1>11

(* A handler that goes on stays in the handlers' hands.                    *)
LEMMA GotoInHandler ==
    ASSUME PayTypes, NEW h \in Handlers, hook[h].at # "idle",
           NEW a \in {"update", "find", "publish", "rollback"}, Goto(h, a),
           NEW p, p = hook[h].payment
    PROVE  InHandler(p)'
BY GotoShape DEF InHandler

LEMMA KeyInv ==
    ASSUME PayInv, NEW h \in Handlers, HookKey(h)
    PROVE  PayInv'
<1>1. PayTypes /\ hook[h].at = "key"
  BY DEF PayInv, HookKey
<1>p. PICK p \in Payments : p = hook[h].payment
  BY <1>1, HookPayment
<1>2. UNCHANGED <<now, order, queue, consumer, user, published, grants>>
  BY DEF HookKey
<1>3. slips' \in Nat /\ (slips' = 0 => slips = 0)
  BY <1>1, <1>p, SlipFacts DEF HookKey, PayTypes
<1>4. /\ Finish(h) \/ Goto(h, "update")
      /\ idem' \subseteq Payments
      /\ \A q \in Payments : q # p => (q \in idem' <=> q \in idem)
  BY <1>1, <1>p DEF HookKey, Answer200, Answer500, PayTypes
<1>5. slips' = 0 /\ p \in idem' => published'[p] > 0 \/ InHandler(p)'
  <2> SUFFICES ASSUME slips' = 0, p \in idem'
               PROVE  published'[p] > 0 \/ InHandler(p)'
    OBVIOUS
  <2>1. CASE Goto(h, "update")
    BY <1>1, <1>p, <2>1, GotoInHandler
  <2>2. CASE Finish(h) /\ p \in idem
    (* the key was there: a publication, or another handler, has it *)
    <3>1. published[p] > 0 \/ InHandler(p)
      BY <1>1, <1>p, <1>3, <2>2 DEF PayInv, PaymentIsFollowed
    <3>2. \A g \in Handlers \ {h} : hook'[g] = hook[g]
      BY <1>1, <1>p, <2>2, FinishShape
    <3>3. ASSUME InHandler(p)
          PROVE  InHandler(p)'
      <4>1. PICK g \in Handlers : /\ hook[g].payment = p
                                  /\ hook[g].at \in {"update", "find", "publish",
                                                     "rollback"}
        BY <3>3 DEF InHandler
      <4>2. g # h /\ hook'[g] = hook[g]
        BY <1>1, <1>p, <3>2, <4>1
      <4> QED BY <4>1, <4>2 DEF InHandler
    <3> QED BY <1>2, <3>1, <3>3
  <2>3. slips' # slips => slips' # 0
    BY <1>1, <1>p DEF HookKey, Slip, NoSlip, PayTypes
  <2>4. Goto(h, "update") \/ (Finish(h) /\ p \in idem)
    BY <1>1, <1>p, <2>3 DEF HookKey, Answer200, Answer500, Slip, PayTypes
  <2> QED BY <2>1, <2>2, <2>4
<1> QED BY <1>1, <1>p, <1>2, <1>3, <1>4, <1>5, HandlerStep

LEMMA UpdateInv ==
    ASSUME PayInv, NEW h \in Handlers, HookUpdate(h)
    PROVE  PayInv'
<1>1. PayTypes /\ hook[h].at = "update"
  BY DEF PayInv, HookUpdate
<1>p. PICK p \in Payments : p = hook[h].payment
  BY <1>1, HookPayment
<1>2. UNCHANGED <<now, idem, queue, consumer, user, published, grants>>
  BY DEF HookUpdate
<1>3. slips' \in Nat /\ (slips' = 0 => slips = 0)
  BY <1>1, <1>p, SlipFacts DEF HookUpdate, PayTypes
<1>4. /\ UNCHANGED order \/ Captured(p)
      /\ Goto(h, "rollback") \/ (Goto(h, "find") /\ Captured(p))
  BY <1>p DEF HookUpdate
<1>5. InHandler(p)'
  BY <1>1, <1>p, <1>4, GotoInHandler
<1>6. idem' \subseteq Payments /\ \A q \in Payments : q \in idem' <=> q \in idem
  BY <1>1, <1>p, <1>2 DEF PayTypes
<1> QED BY <1>1, <1>p, <1>2, <1>3, <1>4, <1>5, <1>6, HandlerStep

LEMMA FindInv ==
    ASSUME PayInv, NEW h \in Handlers, HookFind(h)
    PROVE  PayInv'
<1>1. PayTypes /\ hook[h].at = "find"
  BY DEF PayInv, HookFind
<1>p. PICK p \in Payments : p = hook[h].payment
  BY <1>1, HookPayment
<1>2. UNCHANGED <<now, order, idem, queue, consumer, user, published, grants>>
  BY DEF HookFind
<1>3. slips' \in Nat /\ (slips' = 0 => slips = 0)
  BY <1>1, <1>p, SlipFacts DEF HookFind, PayTypes
<1>4. Goto(h, "publish") \/ (Finish(h) /\ slips' # 0)
  BY <1>1, <1>p DEF HookFind, Answer200, Slip, PayTypes
<1>5. slips' = 0 => InHandler(p)'
  BY <1>1, <1>p, <1>4, GotoInHandler
<1>6. idem' \subseteq Payments /\ \A q \in Payments : q \in idem' <=> q \in idem
  BY <1>1, <1>p, <1>2 DEF PayTypes
<1> QED BY <1>1, <1>p, <1>2, <1>3, <1>4, <1>5, <1>6, HandlerStep

LEMMA PublishInv ==
    ASSUME PayInv, NEW h \in Handlers, HookPublish(h)
    PROVE  PayInv'
<1>1. PayTypes /\ hook[h].at = "publish"
  BY DEF PayInv, HookPublish
<1>p. PICK p \in Payments : p = hook[h].payment
  BY <1>1, HookPayment
<1>2. UNCHANGED <<now, order, idem, consumer, user, grants>>
  BY DEF HookPublish
<1>3. slips' \in Nat /\ (slips' = 0 => slips = 0)
  BY <1>1, <1>p, SlipFacts DEF HookPublish, PayTypes
<1>4. /\ Goto(h, "rollback") \/ (Finish(h) /\ Publish(p))
      /\ UNCHANGED <<queue, published>> \/ Publish(p)
  BY <1>p DEF HookPublish, Answer200
<1>5. published'[p] > 0 \/ InHandler(p)'
  <2>1. CASE Goto(h, "rollback")
    BY <1>1, <1>p, <2>1, GotoInHandler
  <2>2. CASE Publish(p)
    <3>1. published \in [Payments -> Nat] /\ published' = [published EXCEPT ![p] = @ + 1]
      BY <1>1, <1>p, <2>2 DEF PayTypes, Publish
    <3> QED BY <1>1, <1>p, <3>1
  <2> QED BY <1>4, <2>1, <2>2
<1>6. idem' \subseteq Payments /\ \A q \in Payments : q \in idem' <=> q \in idem
  BY <1>1, <1>p, <1>2 DEF PayTypes
<1> QED BY <1>1, <1>p, <1>2, <1>3, <1>4, <1>5, <1>6, HandlerStep

LEMMA RollbackInv ==
    ASSUME PayInv, NEW h \in Handlers, HookRollback(h)
    PROVE  PayInv'
<1>1. PayTypes /\ hook[h].at = "rollback"
  BY DEF PayInv, HookRollback
<1>p. PICK p \in Payments : p = hook[h].payment
  BY <1>1, HookPayment
<1>2. UNCHANGED <<now, order, queue, consumer, user, published, grants>>
  BY DEF HookRollback
<1>3. slips' \in Nat /\ (slips' = 0 => slips = 0)
  BY <1>1, <1>p, SlipFacts DEF HookRollback, PayTypes
<1>4. /\ Finish(h)
      /\ idem' \subseteq Payments
      /\ \A q \in Payments : q # p => (q \in idem' <=> q \in idem)
  BY <1>1, <1>p DEF HookRollback, Answer500, PayTypes
<1>5. slips' = 0 => p \notin idem'
  BY <1>1, <1>p DEF HookRollback, Slip, PayTypes
<1> QED BY <1>1, <1>p, <1>2, <1>3, <1>4, <1>5, HandlerStep

LEMMA HookInv == PayInv /\ Hook => PayInv'
BY DeliverInv, KeyInv, UpdateInv, FindInv, PublishInv, RollbackInv DEF Hook

-----------------------------------------------------------------------------
(* The consumer.  Whatever it does with a message, the payment stays under *)
(* way until it is granted.                                                *)

LEMMA ConsumerStep ==
    ASSUME PayInv, UNCHANGED <<now, order, hook, idem, published>>,
           slips' \in Nat, slips' = 0 => slips = 0,
           queue' \in Seq(Payments), grants' \in [Payments -> Nat],
           consumer' \in [at : {"idle", "write", "ack"},
                          payment : Payments \cup {None}, expires : Nat],
           consumer'.at # "idle" <=> consumer'.payment \in Payments,
           user' \in [Users -> [plan : {"free", "premium"}, expires : Nat,
                               warned : BOOLEAN]],
           \A p \in Payments : grants[p] > 0 => grants'[p] > 0,
           \A p \in Payments : UnderWay(p)' => UnderWay(p),
           \A p \in Payments : UnderWay(p) => UnderWay(p)' \/ grants'[p] > 0,
           PremiumIsPaid'
    PROVE  PayInv'
<1>1. PayTypes'
  BY DEF PayInv, PayTypes
<1>2. PaidSteps'
  BY DEF PayInv, PaidSteps, Paid
<1>3. PaymentIsFollowed'
  BY DEF PayInv, PaymentIsFollowed, InHandler
<1> QED BY <1>1, <1>2, <1>3 DEF PayInv

LEMMA ReadInv == PayInv /\ CaptureRead => PayInv'
<1> SUFFICES ASSUME PayInv, CaptureRead PROVE PayInv'
  OBVIOUS
<1> DEFINE p == Head(queue)
<1>1. /\ PayTypes /\ consumer.at = "idle" /\ queue # <<>> /\ queue' = Tail(queue)
      /\ consumer' = [at |-> "write", payment |-> p, expires |-> now + order[p].term]
      /\ UNCHANGED <<now, order, hook, idem, published, grants, user, slips>>
  BY DEF PayInv, CaptureRead, hookVars
<1>2. /\ p \in Payments /\ queue' \in Seq(Payments)
      /\ \A q : Holds(queue, q) <=> Holds(queue', q) \/ q = p
  BY <1>1, HoldsTail DEF PayTypes
<1>3. consumer.payment \notin Payments
  BY <1>1 DEF PayTypes
<1>4. \A q \in Payments : UnderWay(q)' <=> UnderWay(q)
  <2>1. \A q : UnderWay(q)' <=> Holds(queue', q) \/ q = p
    BY <1>1 DEF UnderWay, Holds
  <2> QED BY <1>2, <1>3, <2>1, UnderWayHolds
<1>5. order[p].term \in Nat
  <2> DEFINE t == order[p].term
  <2>1. t \in Terms \cup {0}
    BY <1>1, <1>2 DEF PayTypes
  <2> HIDE DEF t
  <2>2. t \in Nat
    BY <2>1, TermsAssumption
  <2> QED BY <2>2 DEF t
<1>6. consumer' \in [at : {"idle", "write", "ack"},
                     payment : Payments \cup {None}, expires : Nat]
  BY <1>1, <1>2, <1>5 DEF PayTypes
<1>7. PremiumIsPaid'
  BY <1>1 DEF PayInv, PremiumIsPaid
<1>8. /\ slips' \in Nat /\ (slips' = 0 => slips = 0)
      /\ grants' \in [Payments -> Nat] /\ (\A q \in Payments : grants'[q] = grants[q])
      /\ user' \in [Users -> [plan : {"free", "premium"}, expires : Nat,
                              warned : BOOLEAN]]
  BY <1>1 DEF PayTypes
<1>9. consumer'.at # "idle" /\ consumer'.payment \in Payments
  BY <1>1, <1>2
<1> QED BY <1>1, <1>2, <1>4, <1>6, <1>7, <1>8, <1>9, ConsumerStep

(* A message given back is under way as the one in hand was.               *)
LEMMA ReturnFacts ==
    ASSUME PayInv, consumer.at # "idle", Return
    PROVE  /\ queue' \in Seq(Payments)
           /\ consumer' \in [at : {"idle", "write", "ack"},
                              payment : Payments \cup {None}, expires : Nat]
           /\ consumer'.at = "idle" /\ consumer'.payment \notin Payments
           /\ \A p \in Payments : UnderWay(p)' <=> UnderWay(p)
<1>1. consumer.payment \in Payments /\ queue \in Seq(Payments)
  BY DEF PayInv, PayTypes
<1>2. /\ queue' \in Seq(Payments)
      /\ \A q : Holds(queue', q) <=> Holds(queue, q) \/ q = consumer.payment
  BY <1>1, HoldsCons DEF Return
<1>3. consumer' = [at |-> "idle", payment |-> None, expires |-> 0]
  BY DEF Return, IdleConsumer
<1>4. None \notin Payments
  BY NoneAssumption
<1>5. \A p : UnderWay(p)' <=> Holds(queue', p) \/ consumer'.payment = p
  BY DEF UnderWay, Holds
<1> QED BY <1>2, <1>3, <1>4, <1>5, UnderWayHolds

LEMMA WriteInv == PayInv /\ CaptureWrite => PayInv'
<1> SUFFICES ASSUME PayInv, CaptureWrite PROVE PayInv'
  OBVIOUS
<1> DEFINE p == consumer.payment
           T == [Users -> [plan : {"free", "premium"}, expires : Nat,
                           warned : BOOLEAN]]
<1>1. /\ PayTypes /\ consumer.at = "write" /\ p \in Payments
      /\ UNCHANGED <<now, order, hook, idem, published>>
  BY DEF PayInv, PayTypes, CaptureWrite, hookVars
<1>2. slips' \in Nat /\ (slips' = 0 => slips = 0)
  BY <1>1, SlipFacts DEF CaptureWrite, PayTypes
<1>3. Paid(p) /\ order[p].user \in Users
  BY <1>1, UnderWayHolds DEF PayInv, PaidSteps, Paid, NoOrder
<1>4. /\ user' \in T /\ grants' \in [Payments -> Nat] /\ PremiumIsPaid'
      /\ \A q \in Payments : grants[q] > 0 => grants'[q] > 0
  <2>1. CASE UNCHANGED <<user, grants>>
    BY <1>1, <2>1 DEF PayInv, PayTypes, PremiumIsPaid
  <2>2. CASE Upgrade
    <3>1. /\ user' = [user EXCEPT ![order[p].user] =
                         [plan |-> "premium", expires |-> consumer.expires,
                          warned |-> FALSE]]
          /\ grants' = [grants EXCEPT ![p] = @ + 1]
      BY <2>2 DEF Upgrade
    <3>2. user \in T /\ grants \in [Payments -> Nat] /\ consumer.expires \in Nat
      BY <1>1 DEF PayTypes
    <3>3. user' \in T /\ \A v \in Users \ {order[p].user} : user'[v] = user[v]
      BY <1>3, <3>1, <3>2
    <3>4. /\ grants' \in [Payments -> Nat]
          /\ \A q \in Payments : grants[q] > 0 => grants'[q] > 0
      BY <1>1, <3>1, <3>2
    <3>5. PremiumIsPaid'
      <4>1. ASSUME NEW v \in Users, user'[v].plan = "premium"
            PROVE  \E q \in Payments : /\ order'[q].user = v
                                       /\ order'[q].status = "captured"
        <5>1. CASE v = order[p].user
          BY <1>1, <1>3, <5>1 DEF Paid
        <5>2. CASE v # order[p].user
          BY <1>1, <3>3, <4>1, <5>2 DEF PayInv, PremiumIsPaid
        <5> QED BY <5>1, <5>2
      <4> QED BY <4>1 DEF PremiumIsPaid
    <3> QED BY <3>3, <3>4, <3>5
  <2> QED BY <2>1, <2>2 DEF CaptureWrite
<1>5. CASE consumer' = [consumer EXCEPT !.at = "ack"] /\ UNCHANGED queue
  <2>1. /\ consumer' \in [at : {"idle", "write", "ack"},
                           payment : Payments \cup {None}, expires : Nat]
        /\ consumer'.at = "ack" /\ consumer'.payment = p
        /\ queue' \in Seq(Payments)
    BY <1>1, <1>5 DEF PayTypes
  <2>2. \A q \in Payments : UnderWay(q)' <=> UnderWay(q)
    BY <1>5, <2>1 DEF UnderWay
  <2> QED BY <1>1, <1>2, <1>4, <2>1, <2>2, ConsumerStep
<1>6. CASE Return
  BY <1>1, <1>2, <1>4, <1>6, ReturnFacts, ConsumerStep
<1> QED BY <1>5, <1>6 DEF CaptureWrite

(* What is acked was granted.                                              *)
AckedIsGranted == consumer.at = "ack" => grants[consumer.payment] > 0

LEMMA AckInv == PayInv /\ AckedIsGranted /\ CaptureAck => PayInv'
<1> SUFFICES ASSUME PayInv, AckedIsGranted, CaptureAck PROVE PayInv'
  OBVIOUS
<1>1. /\ PayTypes /\ consumer.at = "ack"
      /\ consumer' = [at |-> "idle", payment |-> None, expires |-> 0]
      /\ UNCHANGED <<now, order, hook, idem, queue, published, grants, user, slips>>
  BY DEF PayInv, CaptureAck, IdleConsumer, hookVars
<1>2. None \notin Payments
  BY NoneAssumption
<1>3. \A q : UnderWay(q)' <=> Holds(queue, q) \/ q = None
  BY <1>1 DEF UnderWay, Holds
<1>4. PremiumIsPaid'
  BY <1>1 DEF PayInv, PremiumIsPaid
<1>5. /\ slips' \in Nat /\ (slips' = 0 => slips = 0)
      /\ queue' \in Seq(Payments)
      /\ grants' \in [Payments -> Nat] /\ (\A q \in Payments : grants'[q] = grants[q])
      /\ user' \in [Users -> [plan : {"free", "premium"}, expires : Nat,
                              warned : BOOLEAN]]
  BY <1>1 DEF PayTypes
<1>6. /\ consumer' \in [at : {"idle", "write", "ack"},
                         payment : Payments \cup {None}, expires : Nat]
      /\ consumer'.at = "idle" /\ consumer'.payment \notin Payments
  BY <1>1, <1>2
<1>7. /\ \A q \in Payments : UnderWay(q)' => UnderWay(q)
      /\ \A q \in Payments : UnderWay(q) => UnderWay(q)' \/ grants'[q] > 0
  BY <1>1, <1>2, <1>3, UnderWayHolds DEF AckedIsGranted
<1> QED BY <1>1, <1>4, <1>5, <1>6, <1>7, ConsumerStep

LEMMA AckedStep == PayInv /\ AckedIsGranted /\ [Next]_vars => AckedIsGranted'
<1> SUFFICES ASSUME PayInv, AckedIsGranted, [Next]_vars PROVE AckedIsGranted'
  OBVIOUS
<1>1. PayTypes
  BY DEF PayInv
<1>2. CASE UNCHANGED <<consumer, grants>>
  BY <1>2 DEF AckedIsGranted
<1>3. CASE CaptureRead
  BY <1>3 DEF AckedIsGranted, CaptureRead
<1>4. CASE CaptureWrite
  <2>1. CASE Return
    BY <2>1 DEF AckedIsGranted, Return, IdleConsumer
  <2>2. CASE Upgrade /\ consumer' = [consumer EXCEPT !.at = "ack"]
    <3>1. consumer.payment \in Payments /\ consumer'.payment = consumer.payment
      BY <1>1, <1>4, <2>2 DEF PayTypes, CaptureWrite
    <3> QED BY <1>1, <2>2, <3>1 DEF PayTypes, Upgrade, AckedIsGranted
  <2> QED BY <1>4, <2>1, <2>2 DEF CaptureWrite
<1>5. CASE CaptureAck
  BY <1>5 DEF AckedIsGranted, CaptureAck, IdleConsumer
<1>6. CASE ScoringCrash
  BY <1>6 DEF AckedIsGranted, ScoringCrash, Return, IdleConsumer
<1>7. CASE Hook
  BY <1>2, <1>7 DEF Hook, HookDeliver, HookKey, HookUpdate, HookFind, HookPublish,
                    HookRollback
<1>8. CASE Tick \/ CreateOrder \/ Sweep \/ Warn \/ PaymentCrash \/ UNCHANGED vars
  BY <1>2, <1>8 DEF Tick, CreateOrder, Sweep, SweepStart, SweepDowngrade, Warn,
                    WarnStart, WarnMark, WarnPublish, WarnUnmark, PaymentCrash, vars
<1> QED BY <1>3, <1>4, <1>5, <1>6, <1>7, <1>8 DEF Next, Capture

-----------------------------------------------------------------------------
(* Restarts.                                                               *)

LEMMA CrashInv == PayInv /\ PaymentCrash => PayInv'
<1> SUFFICES ASSUME PayInv, PaymentCrash PROVE PayInv'
  OBVIOUS
<1>1. /\ PayTypes /\ hook' = [h \in Handlers |-> [at |-> "idle", payment |-> None]]
      /\ UNCHANGED <<now, order, idem, queue, consumer, user, published, grants>>
  BY DEF PayInv, PaymentCrash, IdleHook
<1>2. slips' \in Nat /\ slips' # 0
  BY <1>1 DEF PaymentCrash, Slip, PayTypes
<1>3. PayTypes'
  <2>1. hook' \in [Handlers -> [at : {"idle", "key", "update", "find", "publish",
                                     "rollback"}, payment : Payments \cup {None}]]
    BY <1>1
  <2> QED BY <1>1, <1>2, <2>1 DEF PayTypes
<1>4. PaidSteps'
  BY <1>1 DEF PayInv, PaidSteps, Paid, UnderWay
<1>5. PremiumIsPaid'
  BY <1>1 DEF PayInv, PremiumIsPaid
<1>6. PaymentIsFollowed'
  BY <1>1, <1>2 DEF PayInv, PaymentIsFollowed, UnderWay
<1> QED BY <1>3, <1>4, <1>5, <1>6 DEF PayInv

LEMMA ScoringCrashInv == PayInv /\ ScoringCrash => PayInv'
<1> SUFFICES ASSUME PayInv, ScoringCrash PROVE PayInv'
  OBVIOUS
<1>1. /\ PayTypes /\ consumer.at # "idle" /\ Return
      /\ UNCHANGED <<now, order, hook, idem, published, grants, user>>
  BY DEF PayInv, ScoringCrash, hookVars
<1>2. slips' \in Nat /\ slips' # 0
  BY <1>1 DEF ScoringCrash, Slip, PayTypes
<1>3. PremiumIsPaid'
  BY <1>1 DEF PayInv, PremiumIsPaid
<1>4. /\ grants' \in [Payments -> Nat] /\ (\A q \in Payments : grants'[q] = grants[q])
      /\ user' \in [Users -> [plan : {"free", "premium"}, expires : Nat,
                              warned : BOOLEAN]]
  BY <1>1 DEF PayTypes
<1> QED BY <1>1, <1>2, <1>3, <1>4, ReturnFacts, ConsumerStep

-----------------------------------------------------------------------------
IPay == PayInv /\ AckedIsGranted

LEMMA InitPay == Init => IPay
<1> SUFFICES ASSUME Init PROVE IPay
  OBVIOUS
<1> USE NoneAssumption DEF Init
<1>1. PayTypes
  BY DEF PayTypes, NoOrder, IdleHook, IdleConsumer
<1>2. \A p \in Payments : ~ UnderWay(p)
  BY DEF UnderWay, IdleConsumer
<1>3. PaidSteps
  BY <1>2 DEF PaidSteps, NoOrder, IdleHook
<1>4. PremiumIsPaid /\ PaymentIsFollowed /\ AckedIsGranted
  BY DEF PremiumIsPaid, PaymentIsFollowed, AckedIsGranted, IdleConsumer
<1> QED BY <1>1, <1>3, <1>4 DEF IPay, PayInv

LEMMA NextPay == IPay /\ [Next]_vars => IPay'
<1> SUFFICES ASSUME IPay, [Next]_vars PROVE IPay'
  OBVIOUS
<1> USE DEF IPay
<1>1. PayInv'
  <2>1. CASE UNCHANGED vars
    <3>1. /\ UNCHANGED <<order, hook, idem, queue, consumer, published, grants>>
          /\ now' = now /\ user' = user /\ slips' = slips
      BY <2>1 DEF vars, hookVars
    <3>2. /\ user \in [Users -> [plan : {"free", "premium"}, expires : Nat,
                                 warned : BOOLEAN]]
          /\ now \in Nat /\ slips \in Nat
      BY DEF PayInv, PayTypes
    <3> QED BY <3>1, <3>2, Frame
  <2> QED BY <2>1, TickInv, OrderInv, HookInv, ReadInv, WriteInv, AckInv, SweepInv,
             WarnInv, CrashInv, ScoringCrashInv DEF Next, Capture
<1> QED BY <1>1, AckedStep

LEMMA PayInvariant == Spec => []IPay
<1> QED BY InitPay, NextPay, PTL DEF Spec

(* Whoever is premium has a captured payment in the history: the webhook   *)
(* updates the payment before it publishes payment.captured, and the       *)
(* scoring service upgrades nobody otherwise.                              *)
THEOREM PremiumPaid == Spec => []PremiumIsPaid
<1>1. IPay => PremiumIsPaid
  BY DEF IPay, PayInv
<1> QED BY <1>1, PayInvariant, PTL

(* A paid upgrade is not forgotten: a webhook's idempotency key belongs to *)
(* a payment published or in a handler's hands, as long as calls work or   *)
(* fail cleanly, and a published one is queued, in hand, or granted.       *)
THEOREM PaymentFollowed == Spec => []PaymentIsFollowed
<1>1. IPay => PaymentIsFollowed
  BY DEF IPay, PayInv
<1> QED BY <1>1, PayInvariant, PTL
-----------------------------------------------------------------------------
(* How many copies of x a sequence holds.                                  *)

Copies(s, x) == {i \in DOMAIN s : s[i] = x}
Count(s, x) == Cardinality(Copies(s, x))

LEMMA CountType ==
    ASSUME NEW S, NEW s \in Seq(S), NEW x
    PROVE  /\ IsFiniteSet(Copies(s, x)) /\ Copies(s, x) \subseteq 1..Len(s)
           /\ Count(s, x) \in Nat
<1>1. Len(s) \in Nat /\ DOMAIN s = 1..Len(s)
  OBVIOUS
<1>2. Copies(s, x) \in SUBSET (1..Len(s))
  BY <1>1 DEF Copies
<1>3. IsFiniteSet(1..Len(s))
  BY <1>1, FS_Interval
<1> QED BY <1>2, <1>3, FS_Subset, FS_CardinalityType DEF Count

LEMMA CountEmpty == ASSUME NEW x PROVE Count(<<>>, x) = 0
<1>1. Copies(<<>>, x) = {}
  BY DEF Copies
<1> QED BY <1>1, FS_EmptySet DEF Count

LEMMA CountAppend ==
    ASSUME NEW S, NEW s \in Seq(S), NEW e \in S, NEW x
    PROVE  Count(Append(s, e), x) = Count(s, x) + (IF x = e THEN 1 ELSE 0)
<1>1. /\ Len(s) \in Nat /\ DOMAIN s = 1..Len(s)
      /\ DOMAIN Append(s, e) = 1..(Len(s) + 1)
      /\ Append(s, e)[Len(s) + 1] = e
      /\ \A i \in 1..Len(s) : Append(s, e)[i] = s[i]
  OBVIOUS
<1>2. \A i : i \in 1..(Len(s) + 1) <=> i \in 1..Len(s) \/ i = Len(s) + 1
  BY <1>1
<1>3. Len(s) + 1 \notin 1..Len(s)
  BY <1>1
<1>4. CASE x = e
  <2>1. Copies(Append(s, e), x) = Copies(s, x) \cup {Len(s) + 1}
    BY <1>1, <1>2, <1>4 DEF Copies
  <2>2. Len(s) + 1 \notin Copies(s, x)
    BY <1>1, <1>3 DEF Copies
  <2>3. Cardinality(Copies(s, x) \cup {Len(s) + 1}) = Cardinality(Copies(s, x)) + 1
    BY <2>2, CountType, FS_AddElement
  <2> QED BY <1>4, <2>1, <2>3 DEF Count
<1>5. CASE x # e
  <2>1. Copies(Append(s, e), x) = Copies(s, x)
    BY <1>1, <1>2, <1>3, <1>5 DEF Copies
  <2> QED BY <1>5, <2>1, CountType DEF Count
<1> QED BY <1>4, <1>5

(* A finite set of numbers moved up by one keeps its size.                 *)
LEMMA Shifted ==
    ASSUME NEW I \in SUBSET Nat, IsFiniteSet(I)
    PROVE  /\ IsFiniteSet({i + 1 : i \in I})
           /\ Cardinality({i + 1 : i \in I}) = Cardinality(I)
<1> DEFINE T == {i + 1 : i \in I}
           f == [i \in I |-> i + 1]
<1>1. f \in [I -> T]
  OBVIOUS
<1>2. \A a, b \in I : f[a] = f[b] => a = b
  OBVIOUS
<1>3. \A t \in T : \E i \in I : f[i] = t
  OBVIOUS
<1>4. f \in Bijection(I, T)
  BY <1>1, <1>2, <1>3 DEF Bijection, Injection, Surjection, IsInjective
<1> QED BY <1>4, FS_Bijection DEF ExistsBijection

Ahead(e, s) == <<e>> \o s

LEMMA CountAhead ==
    ASSUME NEW S, NEW s \in Seq(S), NEW e \in S, NEW x
    PROVE  Count(Ahead(e, s), x) = Count(s, x) + (IF x = e THEN 1 ELSE 0)
<1> DEFINE c == <<e>> \o s
           up == {i + 1 : i \in Copies(s, x)}
<1>0. c = Ahead(e, s)
  BY DEF Ahead
<1>1. /\ Len(s) \in Nat /\ DOMAIN s = 1..Len(s) /\ DOMAIN c = 1..(Len(s) + 1)
      /\ c[1] = e
      /\ \A i \in 1..Len(s) : c[i + 1] = s[i]
  OBVIOUS
<1>2. /\ IsFiniteSet(Copies(s, x)) /\ Copies(s, x) \in SUBSET (1..Len(s))
      /\ Count(s, x) \in Nat
  BY CountType
<1>3. IsFiniteSet(up) /\ Cardinality(up) = Count(s, x)
  BY <1>1, <1>2, Shifted DEF Count
<1>4. 1 \notin up
  BY <1>1, <1>2
<1>5. \A i \in 1..(Len(s) + 1) : i # 1 => i - 1 \in 1..Len(s) /\ c[i] = s[i - 1]
  BY <1>1
<1>6. ASSUME NEW i
      PROVE  i \in Copies(c, x) <=> i \in up \/ (i = 1 /\ x = e)
  <2>1. ASSUME i \in Copies(c, x), i # 1
        PROVE  i \in up
    <3>1. i \in 1..(Len(s) + 1) /\ c[i] = x
      BY <1>1, <2>1 DEF Copies
    <3>2. i - 1 \in Copies(s, x) /\ i = (i - 1) + 1
      BY <1>1, <1>5, <2>1, <3>1 DEF Copies
    <3> QED BY <3>2
  <2>2. ASSUME i \in up
        PROVE  i \in Copies(c, x)
    <3>1. PICK j \in Copies(s, x) : i = j + 1
      BY <2>2
    <3>2. j \in 1..Len(s) /\ s[j] = x
      BY <1>1 DEF Copies
    <3>3. i \in 1..(Len(s) + 1) /\ c[i] = s[j]
      BY <1>1, <3>1, <3>2
    <3>4. i \in DOMAIN c /\ c[i] = x
      BY <1>1, <3>2, <3>3
    <3> HIDE DEF c
    <3> QED BY <3>4 DEF Copies
  <2>3. 1 \in Copies(c, x) <=> x = e
    BY <1>1 DEF Copies
  <2> QED BY <1>4, <2>1, <2>2, <2>3
<1> HIDE DEF up, c
<1>7. CASE x = e
  <2>1. Copies(c, x) = up \cup {1}
    BY <1>6, <1>7
  <2> QED BY <1>2, <1>3, <1>4, <1>7, <2>1, <1>0, FS_AddElement DEF Count
<1>8. CASE x # e
  <2>1. Copies(c, x) = up
    BY <1>6, <1>8
  <2> QED BY <1>2, <1>3, <1>8, <2>1, <1>0 DEF Count
<1> QED BY <1>7, <1>8

LEMMA CountTail ==
    ASSUME NEW S, NEW s \in Seq(S), s # <<>>, NEW x
    PROVE  Count(s, x) = Count(Tail(s), x) + (IF x = Head(s) THEN 1 ELSE 0)
<1> DEFINE c == <<Head(s)>> \o Tail(s)
<1>1. /\ Len(s) \in Nat /\ Len(s) >= 1 /\ DOMAIN s = 1..Len(s)
      /\ Head(s) \in S /\ Tail(s) \in Seq(S) /\ Head(s) = s[1]
      /\ Len(Tail(s)) = Len(s) - 1
      /\ \A i \in 1..(Len(s) - 1) : Tail(s)[i] = s[i + 1]
  OBVIOUS
<1>e. PICK e \in S : e = Head(s)
  BY <1>1
<1>t. PICK t \in Seq(S) : t = Tail(s)
  BY <1>1
<1>8. Count(Ahead(e, t), x) = Count(t, x) + (IF x = e THEN 1 ELSE 0)
  BY CountAhead
<1>9. c = Ahead(e, t)
  BY <1>e, <1>t DEF Ahead
<1>2. /\ c \in Seq(S) /\ Len(c) = Len(s) /\ c[1] = s[1]
      /\ \A i \in 1..Len(Tail(s)) : c[i + 1] = Tail(s)[i]
  BY <1>1
<1>3. \A i \in 1..Len(s) : i = 1 \/ (i - 1 \in 1..Len(Tail(s)) /\ c[i] = s[i])
  BY <1>1, <1>2
<1>4. \A i \in 1..Len(s) : c[i] = s[i]
  BY <1>2, <1>3
<1> HIDE DEF c
<1>5. DOMAIN c = DOMAIN s
  BY <1>1, <1>2
<1>6. Copies(c, x) = Copies(s, x)
  BY <1>1, <1>4, <1>5 DEF Copies
<1>7. Count(c, x) = Count(s, x)
  BY <1>6 DEF Count
<1> QED BY <1>7, <1>8, <1>9, <1>e, <1>t
-----------------------------------------------------------------------------
(* A payment is published once and granted once, but for one repetition    *)
(* per failure.  While a payment's key is missing, or in the hands of the  *)
(* one handler that set it, a publication is still to come: until then     *)
(* there is room for it.                                                   *)

HoldsKey(h) == hook[h].at \in {"update", "find", "publish", "rollback"}

OneHandler ==
    \A h \in Handlers : HoldsKey(h) =>
       /\ hook[h].payment \in idem
       /\ \A g \in Handlers :
             HoldsKey(g) /\ hook[g].payment = hook[h].payment => g = h

InHand(p) == IF consumer.at = "write" /\ consumer.payment = p THEN 1 ELSE 0

(* Upgrades made for p, and those its messages will make.                  *)
Sent(p) == grants[p] + Count(queue, p) + InHand(p)

Unpublished(p) == p \notin idem \/ InHandler(p)
Room(p, n) == n <= 1 + slips /\ (Unpublished(p) => n <= slips)

OnceInv ==
    /\ OneHandler
    /\ \A p \in Payments : Room(p, published[p]) /\ Room(p, Sent(p))

LEMMA SentType ==
    ASSUME PayTypes, NEW p \in Payments
    PROVE  /\ Sent(p) \in Nat /\ published[p] \in Nat /\ grants[p] \in Nat
           /\ Count(queue, p) \in Nat /\ InHand(p) \in 0..1
           /\ grants[p] <= Sent(p)
<1>1. Count(queue, p) \in Nat
  BY CountType DEF PayTypes
<1> QED BY <1>1 DEF PayTypes, Sent, InHand

LEMMA InHandlerHolds ==
    \A p : InHandler(p) <=> \E h \in Handlers : hook[h].payment = p /\ HoldsKey(h)
BY DEF InHandler, HoldsKey

(* Steps of the consumer, and those that leave the payments alone.         *)
LEMMA OnceConsumer ==
    ASSUME PayInv, PayInv', OnceInv, UNCHANGED <<hook, idem, published>>,
           slips' >= slips,
           \A p \in Payments : \/ Sent(p)' <= Sent(p)
                               \/ slips' > slips /\ Sent(p)' <= Sent(p) + 1
    PROVE  OnceInv'
<1>1. PayTypes /\ PayTypes'
  BY DEF PayInv
<1>2. slips \in Nat /\ slips' \in Nat
  BY <1>1 DEF PayTypes
<1>3. OneHandler'
  BY DEF OnceInv, OneHandler, HoldsKey
<1>4. ASSUME NEW p \in Payments
      PROVE  Room(p, published[p])' /\ Room(p, Sent(p))'
  <2>1. Unpublished(p)' <=> Unpublished(p)
    BY DEF Unpublished, InHandler
  <2>2. published[p] \in Nat /\ Sent(p) \in Nat
    BY <1>1, SentType
  <2>3. Sent(p)' \in Nat
    <3>1. /\ queue' \in Seq(Payments) /\ grants' \in [Payments -> Nat]
      BY <1>1 DEF PayTypes
    <3>2. Count(queue', p) \in Nat
      BY <3>1, CountType
    <3>3. InHand(p)' \in 0..1 /\ Count(queue, p)' = Count(queue', p)
      BY DEF InHand, Count, Copies
    <3> QED BY <3>1, <3>2, <3>3 DEF Sent
  <2>4. Room(p, published[p]) /\ Room(p, Sent(p))
    BY DEF OnceInv
  <2>5. \/ Sent(p)' <= Sent(p)
        \/ slips' > slips /\ Sent(p)' <= Sent(p) + 1
    OBVIOUS
  <2> HIDE DEF Sent, Unpublished
  <2>6. published'[p] <= 1 + slips' /\ (Unpublished(p)' => published'[p] <= slips')
    BY <1>2, <2>1, <2>2, <2>4 DEF Room
  <2>7. Sent(p)' <= 1 + slips' /\ (Unpublished(p)' => Sent(p)' <= slips')
    BY <1>2, <2>1, <2>2, <2>3, <2>4, <2>5 DEF Room
  <2> QED BY <2>6, <2>7 DEF Room
<1> QED BY <1>3, <1>4 DEF OnceInv

(* A handler that has not its key yet.                                     *)
LEMMA OnceDeliver ==
    ASSUME PayInv, PayInv', OnceInv, NEW h \in Handlers, HookDeliver(h)
    PROVE  OnceInv'
<1>1. PayTypes /\ UNCHANGED <<idem, queue, consumer, published, grants, slips>>
  BY DEF PayInv, HookDeliver
<1>2. hook[h].at = "idle" /\ hook'[h].at = "key"
      /\ \A g \in Handlers \ {h} : hook'[g] = hook[g]
  BY <1>1 DEF HookDeliver, PayTypes
<1>3. \A g \in Handlers : /\ HoldsKey(g)' <=> HoldsKey(g)
                          /\ HoldsKey(g) => hook'[g] = hook[g]
  BY <1>2 DEF HoldsKey
<1>4. OneHandler'
  BY <1>1, <1>3 DEF OnceInv, OneHandler
<1>5. \A p \in Payments : Unpublished(p)' <=> Unpublished(p)
  BY <1>1, <1>2 DEF Unpublished, InHandler
<1>6. \A p \in Payments : /\ published'[p] = published[p] /\ Sent(p)' = Sent(p)
                          /\ slips' = slips
  BY <1>1 DEF Sent, InHand
<1> QED BY <1>4, <1>5, <1>6 DEF OnceInv, Room

(* Every later step of a handler: what it does to the other payments.      *)
LEMMA OthersKept ==
    ASSUME PayInv, NEW h \in Handlers, hook[h].at # "idle",
           NEW p \in Payments, p = hook[h].payment,
           \/ Finish(h)
           \/ Goto(h, "update") \/ Goto(h, "find") \/ Goto(h, "publish")
           \/ Goto(h, "rollback"),
           \A q \in Payments : q # p => (q \in idem' <=> q \in idem)
    PROVE  /\ \A g \in Handlers \ {h} : hook'[g] = hook[g]
           /\ hook'[h] = IdleHook
              \/ (hook'[h].payment = p /\ HoldsKey(h)' /\ ~ Finish(h))
           /\ \A q \in Payments \ {p} : Unpublished(q)' <=> Unpublished(q)
<1>1. PayTypes
  BY DEF PayInv
<1>2. /\ \A g \in Handlers \ {h} : hook'[g] = hook[g]
      /\ hook'[h] = IdleHook
         \/ (hook'[h].payment = p /\ HoldsKey(h)' /\ ~ Finish(h))
  <2>1. CASE Finish(h)
    BY <1>1, <2>1, FinishShape
  <2>2. CASE ~ Finish(h)
    BY <1>1, <2>2, GotoShape DEF HoldsKey
  <2> QED BY <2>1, <2>2
<1>3. ASSUME NEW q \in Payments \ {p}
      PROVE  InHandler(q)' <=> InHandler(q)
  <2>1. None \notin Payments
    BY NoneAssumption
  <2>2. hook[h].payment # q /\ hook'[h].payment # q
    BY <1>2, <2>1 DEF IdleHook
  <2> QED BY <1>2, <2>2 DEF InHandler
<1> QED BY <1>2, <1>3 DEF Unpublished
Going(h) == \/ Goto(h, "update") \/ Goto(h, "find") \/ Goto(h, "publish")
            \/ Goto(h, "rollback")

(* A handler keeps its key to itself, deletes none but its own, and        *)
(* publishes where a publication is still to come.                         *)
LEMMA OnceHandler ==
    ASSUME PayInv, PayInv', OnceInv, NEW h \in Handlers, hook[h].at # "idle",
           NEW p \in Payments, p = hook[h].payment,
           UNCHANGED <<consumer, grants>>, slips' >= slips,
           \A q \in Payments : q # p => (q \in idem' <=> q \in idem),
           \/ Finish(h) /\ (p \in idem => p \in idem' \/ HoldsKey(h))
           \/ Going(h) /\ p \in idem' /\ (HoldsKey(h) \/ p \notin idem),
           \/ /\ UNCHANGED <<queue, published>>
              /\ Unpublished(p)' => Unpublished(p) \/ slips' > slips
           \/ /\ Publish(p) /\ Unpublished(p)
              /\ Unpublished(p)' => slips' > slips
    PROVE  OnceInv'
<1>1. PayTypes /\ PayTypes' /\ slips \in Nat /\ slips' \in Nat
  BY DEF PayInv, PayTypes
<1>2. /\ \A g \in Handlers \ {h} : hook'[g] = hook[g]
      /\ hook'[h] = IdleHook
         \/ (hook'[h].payment = p /\ HoldsKey(h)' /\ ~ Finish(h))
      /\ \A q \in Payments \ {p} : Unpublished(q)' <=> Unpublished(q)
  BY OthersKept DEF Going
<1>3. \A g \in Handlers \ {h} : /\ HoldsKey(g)' <=> HoldsKey(g)
                                /\ hook'[g] = hook[g]
  BY <1>2 DEF HoldsKey
<1>4. HoldsKey(h)' => hook'[h].payment = p /\ ~ Finish(h)
  BY <1>2 DEF HoldsKey, IdleHook
<1>5. \A g \in Handlers : HoldsKey(g) => hook[g].payment \in Payments \cap idem
  BY <1>1 DEF OnceInv, OneHandler, HoldsKey, PayTypes
<1>6. OneHandler'
  <2>1. ASSUME NEW g \in Handlers \ {h}, HoldsKey(g)'
        PROVE  /\ hook'[g].payment \in idem'
               /\ HoldsKey(h)' => hook'[g].payment # p
    <3>1. HoldsKey(g) /\ hook'[g] = hook[g] /\ hook[g].payment \in Payments \cap idem
      BY <1>3, <1>5, <2>1
    <3>2. HoldsKey(h) => hook[g].payment # p
      BY <3>1 DEF OnceInv, OneHandler
    <3>3. CASE hook[g].payment = p
      BY <1>4, <3>1, <3>2, <3>3
    <3>4. CASE hook[g].payment # p
      BY <3>1, <3>4
    <3> QED BY <3>3, <3>4
  <2>2. HoldsKey(h)' => hook'[h].payment \in idem'
    BY <1>4
  <2>3. ASSUME NEW f \in Handlers, NEW g \in Handlers, HoldsKey(f)', HoldsKey(g)',
               hook'[g].payment = hook'[f].payment
        PROVE  g = f
    <3>1. CASE f = h \/ g = h
      BY <1>4, <2>1, <2>3, <3>1
    <3>2. CASE f # h /\ g # h
      BY <1>3, <2>3, <3>2 DEF OnceInv, OneHandler
    <3> QED BY <3>1, <3>2
  <2> QED BY <2>1, <2>2, <2>3 DEF OneHandler
<1>7. \A q \in Payments : /\ Sent(q) \in Nat /\ published[q] \in Nat
                          /\ Room(q, published[q]) /\ Room(q, Sent(q))
  BY <1>1, SentType DEF OnceInv
<1>8. ASSUME NEW q \in Payments, UNCHANGED <<queue, published>> \/ Publish(p)
      PROVE  \/ published'[q] = published[q] /\ Sent(q)' = Sent(q)
             \/ /\ q = p
                /\ published'[q] = published[q] + 1 /\ Sent(q)' = Sent(q) + 1
  <2>1. CASE UNCHANGED <<queue, published>>
    BY <2>1 DEF Sent, InHand
  <2>2. CASE Publish(p)
    <3>1. queue' = Append(queue, p) /\ published' = [published EXCEPT ![p] = @ + 1]
      BY <2>2 DEF Publish
    <3>2. queue \in Seq(Payments) /\ published \in [Payments -> Nat]
      BY <1>1 DEF PayTypes
    <3>3. Count(queue', q) = Count(queue, q) + (IF q = p THEN 1 ELSE 0)
      BY <3>1, <3>2, CountAppend
    <3>4. /\ Count(queue, q) \in Nat /\ InHand(q) \in 0..1 /\ grants[q] \in Nat
          /\ InHand(q)' = InHand(q) /\ grants'[q] = grants[q]
          /\ Count(queue, q)' = Count(queue', q)
      BY <1>1, SentType DEF InHand, Count, Copies
    <3>5. Sent(q)' = Sent(q) + (IF q = p THEN 1 ELSE 0)
      BY <3>3, <3>4 DEF Sent
    <3>6. published'[q] = published[q] + (IF q = p THEN 1 ELSE 0)
      BY <3>1, <3>2
    <3>7. Sent(q) \in Nat /\ published[q] \in Nat
      BY <1>7
    <3> HIDE DEF Sent
    <3> QED BY <3>5, <3>6, <3>7
  <2> QED BY <1>8, <2>1, <2>2
<1>9. ASSUME NEW q \in Payments
      PROVE  Room(q, published[q])' /\ Room(q, Sent(q))'
  <2> HIDE DEF Sent, Unpublished
  <2>1. CASE UNCHANGED <<queue, published>>
             /\ (Unpublished(p)' => Unpublished(p) \/ slips' > slips)
    <3>1. published'[q] = published[q] /\ Sent(q)' = Sent(q)
      BY <2>1 DEF Sent, InHand
    <3>2. Unpublished(q)' => Unpublished(q) \/ slips' > slips
      BY <1>2, <2>1
    <3>3. published'[q] <= 1 + slips' /\ (Unpublished(q)' => published'[q] <= slips')
      BY <1>1, <1>7, <3>1, <3>2 DEF Room
    <3>4. Sent(q)' <= 1 + slips' /\ (Unpublished(q)' => Sent(q)' <= slips')
      BY <1>1, <1>7, <3>1, <3>2 DEF Room
    <3> QED BY <3>3, <3>4 DEF Room
  <2>2. CASE Publish(p) /\ Unpublished(p) /\ (Unpublished(p)' => slips' > slips)
    <3>1. /\ \/ published'[q] = published[q] /\ Sent(q)' = Sent(q)
             \/ /\ q = p
                /\ published'[q] = published[q] + 1 /\ Sent(q)' = Sent(q) + 1
          /\ q # p => (Unpublished(q)' <=> Unpublished(q))
      BY <1>2, <1>8, <2>2
    <3>2. published'[q] <= 1 + slips' /\ (Unpublished(q)' => published'[q] <= slips')
      BY <1>1, <1>7, <2>2, <3>1 DEF Room
    <3>3. Sent(q)' <= 1 + slips' /\ (Unpublished(q)' => Sent(q)' <= slips')
      BY <1>1, <1>7, <2>2, <3>1 DEF Room
    <3> QED BY <3>2, <3>3 DEF Room
  <2> QED BY <2>1, <2>2
<1> QED BY <1>6, <1>9 DEF OnceInv
LEMMA HandlerFacts ==
    ASSUME PayInv, NEW h \in Handlers, hook[h].at # "idle"
    PROVE  /\ \E p \in Payments : p = hook[h].payment
           /\ slips \in Nat
BY HookPayment DEF PayInv, PayTypes

LEMMA SlipGrows ==
    ASSUME slips \in Nat
    PROVE  Slip => slips' > slips /\ slips' >= slips
BY DEF Slip

LEMMA OnceHook ==
    ASSUME PayInv, PayInv', OnceInv, NEW h \in Handlers,
           \/ HookKey(h) \/ HookUpdate(h) \/ HookFind(h) \/ HookPublish(h)
           \/ HookRollback(h)
    PROVE  OnceInv'
<1>1. hook[h].at # "idle"
  BY DEF HookKey, HookUpdate, HookFind, HookPublish, HookRollback
<1>2. PICK p \in Payments : p = hook[h].payment
  BY <1>1, HandlerFacts
<1>3. slips \in Nat /\ (NoSlip => slips' >= slips)
      /\ (Slip => slips' > slips /\ slips' >= slips)
  BY <1>1, HandlerFacts, SlipGrows DEF NoSlip
<1>4. UNCHANGED <<consumer, grants>> /\ slips' >= slips
  BY <1>3 DEF HookKey, HookUpdate, HookFind, HookPublish, HookRollback
<1>5. PayTypes /\ idem \subseteq Payments
  BY DEF PayInv, PayTypes
<1>6. HoldsKey(h) => InHandler(p) /\ Unpublished(p) /\ p \in idem
  BY <1>2 DEF HoldsKey, InHandler, Unpublished, OnceInv, OneHandler
<1>7. \A q \in Payments : q # p => (q \in idem' <=> q \in idem)
  BY <1>2, <1>5 DEF HookKey, HookUpdate, HookFind, HookPublish, HookRollback
<1>8. /\ Going(h) \/ Finish(h)
      /\ \/ Finish(h) /\ (p \in idem => p \in idem' \/ HoldsKey(h))
         \/ Going(h) /\ p \in idem' /\ (HoldsKey(h) \/ p \notin idem)
  <2>1. CASE HookKey(h)
    BY <1>2, <2>1 DEF HookKey, Answer200, Answer500, Going
  <2>2. CASE HookUpdate(h) \/ HookFind(h) \/ HookPublish(h) \/ HookRollback(h)
    <3>1. HoldsKey(h)
      BY <2>2 DEF HookUpdate, HookFind, HookPublish, HookRollback, HoldsKey
    <3> QED BY <1>6, <2>2, <3>1 DEF HookUpdate, HookFind, HookPublish, HookRollback,
                                     Answer200, Answer500, Going
  <2> QED BY <2>1, <2>2
<1>9. CASE HookKey(h)
  <2>1. UNCHANGED <<queue, published>>
    BY <1>9 DEF HookKey
  <2>2. Unpublished(p)' => Unpublished(p) \/ slips' > slips
    <3>1. CASE p \notin idem
      BY <3>1 DEF Unpublished
    <3>2. CASE p \in idem /\ Finish(h) /\ idem' = idem
      <4>1. hook'[h] = IdleHook /\ \A g \in Handlers \ {h} : hook'[g] = hook[g]
        BY <1>5, <3>2, FinishShape
      <4> QED BY <3>2, <4>1 DEF Unpublished, InHandler, IdleHook
    <3>3. CASE Slip
      BY <1>3, <3>3
    <3> QED BY <1>2, <1>9, <3>1, <3>2, <3>3 DEF HookKey, Answer200, Answer500
  <2> QED BY <1>1, <1>2, <1>4, <1>7, <1>8, <2>1, <2>2, OnceHandler
<1>10. CASE HookUpdate(h) \/ HookFind(h) \/ HookRollback(h)
  <2>1. UNCHANGED <<queue, published>> /\ HoldsKey(h)
    BY <1>10 DEF HookUpdate, HookFind, HookRollback, HoldsKey
  <2> QED BY <1>1, <1>2, <1>4, <1>6, <1>7, <1>8, <2>1, OnceHandler
<1>11. CASE HookPublish(h)
  <2>1. HoldsKey(h) /\ idem' = idem
    BY <1>11 DEF HookPublish, HoldsKey
  <2>2. CASE UNCHANGED <<queue, published>>
    BY <1>1, <1>2, <1>4, <1>6, <1>7, <1>8, <2>1, <2>2, OnceHandler
  <2>3. CASE Publish(p) /\ Finish(h)
    <3>1. hook'[h] = IdleHook /\ \A g \in Handlers \ {h} : hook'[g] = hook[g]
      BY <1>5, <2>3, FinishShape
    <3>2. \A g \in Handlers \ {h} : ~ (HoldsKey(g) /\ hook[g].payment = p)
      BY <1>2, <2>1 DEF OnceInv, OneHandler
    <3>3. ~ Unpublished(p)'
      BY <1>6, <2>1, <3>1, <3>2 DEF Unpublished, InHandler, HoldsKey, IdleHook
    <3> QED BY <1>1, <1>2, <1>4, <1>6, <1>7, <1>8, <2>1, <2>3, <3>3, OnceHandler
  <2>4. CASE Publish(p) /\ Slip
    BY <1>1, <1>2, <1>3, <1>4, <1>6, <1>7, <1>8, <2>1, <2>4, OnceHandler
  <2> QED BY <1>2, <1>11, <2>2, <2>3, <2>4 DEF HookPublish, Answer200
<1> QED BY <1>9, <1>10, <1>11

(* The consumer's steps.                                                   *)
LEMMA OnceRead == PayInv /\ PayInv' /\ OnceInv /\ CaptureRead => OnceInv'
<1> SUFFICES ASSUME PayInv, PayInv', OnceInv, CaptureRead PROVE OnceInv'
  OBVIOUS
<1>1. /\ PayTypes /\ consumer.at = "idle" /\ queue # <<>> /\ queue' = Tail(queue)
      /\ consumer'.at = "write" /\ consumer'.payment = Head(queue)
      /\ UNCHANGED <<hook, idem, published, grants, slips>>
  BY DEF PayInv, CaptureRead, hookVars
<1>2. slips' >= slips
  BY <1>1 DEF PayTypes
<1>3. ASSUME NEW p \in Payments
      PROVE  Sent(p)' <= Sent(p)
  <2>1. Count(queue, p) = Count(queue', p) + (IF p = Head(queue) THEN 1 ELSE 0)
    BY <1>1, CountTail DEF PayTypes
  <2>2. InHand(p) = 0 /\ InHand(p)' = (IF p = Head(queue) THEN 1 ELSE 0)
    BY <1>1 DEF InHand
  <2>3. grants'[p] = grants[p] /\ grants[p] \in Nat
        /\ Count(queue, p)' = Count(queue', p)
    BY <1>1, SentType DEF Count, Copies
  <2>4. Count(queue', p) \in Nat
    <3>1. queue' \in Seq(Payments)
      BY DEF PayInv, PayTypes
    <3> QED BY <3>1, CountType
  <2> QED BY <2>1, <2>2, <2>3, <2>4 DEF Sent
<1> QED BY <1>1, <1>2, <1>3, OnceConsumer

(* A message given back may have been granted: one more grant then follows.*)
LEMMA OnceReturn ==
    ASSUME PayInv, PayInv', OnceInv, consumer.at # "idle", Return, Slip,
           UNCHANGED <<hook, idem, published>>,
           \/ UNCHANGED grants
           \/ /\ consumer.at = "write"
              /\ grants' = [grants EXCEPT ![consumer.payment] = @ + 1]
    PROVE  OnceInv'
<1>1. PayTypes /\ slips' > slips /\ slips' >= slips
  BY SlipGrows DEF PayInv, PayTypes
<1>2. PICK c \in Payments : c = consumer.payment
  BY <1>1 DEF PayTypes
<1>3. ASSUME NEW p \in Payments
      PROVE  Sent(p)' <= Sent(p) + 1
  <2>1. queue' = Ahead(c, queue) /\ consumer'.at = "idle"
    BY <1>2 DEF Return, Ahead, IdleConsumer
  <2>2. Count(queue', p) = Count(queue, p) + (IF p = c THEN 1 ELSE 0)
    BY <1>1, <2>1, CountAhead DEF PayTypes
  <2>3. /\ InHand(p)' = 0 /\ Count(queue, p)' = Count(queue', p)
        /\ InHand(p) = IF consumer.at = "write" /\ p = c THEN 1 ELSE 0
    BY <1>2, <2>1 DEF InHand, Count, Copies
  <2>4. grants[p] \in Nat /\ Count(queue, p) \in Nat
    BY <1>1, SentType
  <2>5. \/ grants'[p] = grants[p]
        \/ p = c /\ consumer.at = "write" /\ grants'[p] = grants[p] + 1
    BY <1>1, <1>2 DEF PayTypes
  <2> QED BY <2>2, <2>3, <2>4, <2>5 DEF Sent
<1> QED BY <1>1, <1>3, OnceConsumer

LEMMA OnceWrite == PayInv /\ PayInv' /\ OnceInv /\ CaptureWrite => OnceInv'
<1> SUFFICES ASSUME PayInv, PayInv', OnceInv, CaptureWrite PROVE OnceInv'
  OBVIOUS
<1>1. /\ PayTypes /\ consumer.at = "write" /\ UNCHANGED <<hook, idem, published>>
  BY DEF PayInv, CaptureWrite, hookVars
<1>2. CASE /\ Upgrade /\ consumer' = [consumer EXCEPT !.at = "ack"]
           /\ UNCHANGED queue /\ NoSlip
  <2>1. PICK c \in Payments : c = consumer.payment
    BY <1>1 DEF PayTypes
  <2>2. ASSUME NEW p \in Payments
        PROVE  Sent(p)' <= Sent(p)
    <3>1. /\ InHand(p)' = 0 /\ Count(queue, p)' = Count(queue, p)
          /\ InHand(p) = IF p = c THEN 1 ELSE 0
      BY <1>1, <1>2, <2>1 DEF InHand, Count, Copies, PayTypes
    <3>2. grants'[p] = grants[p] + (IF p = c THEN 1 ELSE 0)
      BY <1>1, <1>2, <2>1 DEF Upgrade, PayTypes
    <3>3. grants[p] \in Nat /\ Count(queue, p) \in Nat
      BY <1>1, SentType
    <3> QED BY <3>1, <3>2, <3>3 DEF Sent
  <2>3. slips' >= slips
    BY <1>1, <1>2 DEF NoSlip, PayTypes
  <2> QED BY <1>1, <2>2, <2>3, OnceConsumer
<1>3. CASE (Upgrade \/ UNCHANGED <<user, granted>>) /\ Return /\ Slip
  BY <1>1, <1>3, OnceReturn DEF Upgrade
<1> QED BY <1>2, <1>3 DEF CaptureWrite

LEMMA OnceStill ==
    ASSUME PayInv, PayInv', OnceInv, slips' >= slips,
           UNCHANGED <<hook, idem, published, queue, grants>>,
           consumer' = consumer \/ consumer'.at = "idle"
    PROVE  OnceInv'
<1>1. ASSUME NEW p \in Payments
      PROVE  Sent(p)' <= Sent(p)
  <2>1. InHand(p)' <= InHand(p) /\ InHand(p)' \in Nat /\ InHand(p) \in Nat
    BY DEF InHand
  <2>2. grants[p] \in Nat /\ Count(queue, p) \in Nat
    BY SentType DEF PayInv
  <2>3. Count(queue, p)' = Count(queue, p) /\ grants'[p] = grants[p]
    BY DEF Count, Copies
  <2> QED BY <2>1, <2>2, <2>3 DEF Sent
<1> QED BY <1>1, OnceConsumer

LEMMA OnceCrash == PayInv /\ PayInv' /\ OnceInv /\ PaymentCrash => OnceInv'
<1> SUFFICES ASSUME PayInv, PayInv', OnceInv, PaymentCrash PROVE OnceInv'
  OBVIOUS
<1>1. /\ PayTypes /\ slips' = slips + 1 /\ slips \in Nat
      /\ \A h \in Handlers : hook'[h].at = "idle"
      /\ UNCHANGED <<idem, queue, consumer, published, grants>>
  BY DEF PayInv, PayTypes, PaymentCrash, Slip, IdleHook
<1>2. OneHandler'
  BY <1>1 DEF OneHandler, HoldsKey
<1>3. ASSUME NEW p \in Payments
      PROVE  Room(p, published[p])' /\ Room(p, Sent(p))'
  <2>1. published'[p] = published[p] /\ Sent(p)' = Sent(p)
    BY <1>1 DEF Sent, InHand
  <2>2. Sent(p) \in Nat /\ published[p] \in Nat
    BY <1>1, SentType
  <2>3. Room(p, published[p]) /\ Room(p, Sent(p))
    BY DEF OnceInv
  <2> HIDE DEF Sent, Unpublished
  <2>4. published'[p] <= slips' /\ Sent(p)' <= slips'
    BY <1>1, <2>1, <2>2, <2>3 DEF Room
  <2>5. Sent(p)' <= 1 + slips' /\ published'[p] <= 1 + slips'
    BY <1>1, <2>1, <2>2, <2>4
  <2> QED BY <2>4, <2>5 DEF Room
<1> QED BY <1>2, <1>3 DEF OnceInv

LEMMA OnceStep == PayInv /\ PayInv' /\ OnceInv /\ [Next]_vars => OnceInv'
<1> SUFFICES ASSUME PayInv, PayInv', OnceInv, [Next]_vars PROVE OnceInv'
  OBVIOUS
<1>1. PayTypes /\ slips \in Nat /\ (Slip \/ NoSlip => slips' >= slips)
  BY DEF PayInv, PayTypes, Slip, NoSlip
<1>2. CASE Hook
  BY <1>2, OnceDeliver, OnceHook DEF Hook
<1>3. CASE Capture
  <2>1. CASE CaptureAck
    BY <1>1, <2>1, OnceStill DEF CaptureAck, IdleConsumer, hookVars, NoSlip
  <2> QED BY <1>3, <2>1, OnceRead, OnceWrite DEF Capture
<1>4. CASE ScoringCrash
  BY <1>4, OnceReturn DEF ScoringCrash, hookVars
<1>5. CASE Tick \/ CreateOrder \/ Sweep \/ Warn \/ UNCHANGED vars
  <2>1. /\ UNCHANGED <<hook, idem, published, queue, grants, consumer>>
        /\ Slip \/ NoSlip
    BY <1>5 DEF Tick, CreateOrder, Sweep, SweepStart, SweepDowngrade, Warn, WarnStart,
                WarnMark, WarnPublish, WarnUnmark, vars, hookVars, NoSlip
  <2> QED BY <1>1, <2>1, OnceStill
<1> QED BY <1>2, <1>3, <1>4, <1>5, OnceCrash DEF Next

LEMMA OnceStart == Init => OnceInv
<1> SUFFICES ASSUME Init PROVE OnceInv
  OBVIOUS
<1>1. OneHandler
  BY DEF Init, OneHandler, HoldsKey, IdleHook
<1>2. ASSUME NEW p \in Payments
      PROVE  Room(p, published[p]) /\ Room(p, Sent(p))
  <2>1. published[p] = 0 /\ grants[p] = 0 /\ InHand(p) = 0 /\ slips = 0
    BY DEF Init, InHand, IdleConsumer
  <2>2. Count(queue, p) = 0
    BY CountEmpty DEF Init
  <2> QED BY <2>1, <2>2 DEF Room, Sent
<1> QED BY <1>1, <1>2 DEF OnceInv
-----------------------------------------------------------------------------
(* The rest of TypeOK.                                                     *)

UserType == [Users -> [plan : {"free", "premium"}, expires : Nat, warned : BOOLEAN]]
WarnType == [at : {"idle", "mark", "publish", "unmark"}, todo : SUBSET Users,
             user : Users \cup {None}, plan : [Users -> Nat]]

InBounds == now \in 0..MaxTime /\ slips \in 0..MaxSlips

(* A warning in hand is for a user that is not to be handled again.        *)
Warning == warn.at \in {"publish", "unmark"}

WarnTypes ==
    /\ InBounds /\ answered \subseteq Payments /\ sweep \subseteq Users
    /\ warn \in WarnType
    /\ Warning => warn.user \in Users \ warn.todo
    /\ notices \in Seq([user : Users, plan : Nat])
    /\ plans \in [Users -> Nat]

LEMMA BoundStep == PayTypes /\ InBounds /\ [Next]_vars => InBounds'
<1> SUFFICES ASSUME PayTypes, InBounds, [Next]_vars PROVE InBounds'
  OBVIOUS
<1> USE BoundsAssumption
<1>1. /\ Slip \/ NoSlip
      /\ Tick \/ UNCHANGED now
  BY DEF Next, Tick, CreateOrder, Hook, HookDeliver, HookKey, HookUpdate, HookFind,
         HookPublish, HookRollback, Capture, CaptureRead, CaptureWrite, CaptureAck,
         Sweep, SweepStart, SweepDowngrade, Warn, WarnStart, WarnMark, WarnPublish,
         WarnUnmark, PaymentCrash, ScoringCrash, vars, NoSlip
<1>2. slips' \in 0..MaxSlips
  BY <1>1 DEF InBounds, Slip, NoSlip
<1>3. now' \in 0..MaxTime
  BY <1>1 DEF InBounds, Tick
<1> QED BY <1>2, <1>3 DEF InBounds

LEMMA AnsweredStep ==
    PayInv /\ answered \subseteq Payments /\ [Next]_vars => answered' \subseteq Payments
<1> SUFFICES ASSUME PayInv, answered \subseteq Payments, [Next]_vars
             PROVE  answered' \subseteq Payments
  OBVIOUS
<1>1. CASE UNCHANGED answered
  BY <1>1
<1>2. ASSUME NEW h \in Handlers, Answer200(h), hook[h].at # "idle"
      PROVE  answered' \subseteq Payments
  BY <1>2, HandlerFacts DEF Answer200
<1>3. CASE Hook
  BY <1>1, <1>2, <1>3 DEF Hook, HookDeliver, HookKey, HookUpdate, HookFind, HookPublish,
                         HookRollback, Answer500
<1>4. CASE Tick \/ CreateOrder \/ Capture \/ Sweep \/ Warn \/ PaymentCrash
           \/ ScoringCrash \/ UNCHANGED vars
  BY <1>1, <1>4 DEF Tick, CreateOrder, Capture, CaptureRead, CaptureWrite, CaptureAck,
         Sweep, SweepStart, SweepDowngrade, Warn, WarnStart, WarnMark, WarnPublish,
         WarnUnmark, PaymentCrash, ScoringCrash, vars, hookVars
<1> QED BY <1>3, <1>4 DEF Next

-----------------------------------------------------------------------------
(* A plan's user is warned once, but for one repetition per failure.  The  *)
(* plan a sweep warns of is the one it found, and the user may have had    *)
(* another upgrade since: that one was not warned of.                      *)

Notices(u, k) == Count(notices, [user |-> u, plan |-> k])

(* u is to be warned, or its warning is in hand.                           *)
ToWarn(u) == (warn.at # "idle" /\ u \in warn.todo) \/ (Warning /\ warn.user = u)

NoticesFit(u) ==
    /\ \A k \in Nat : Notices(u, k) <= 1 + slips
    /\ \A k \in Nat : k > plans[u] => Notices(u, k) = 0
    /\ user[u].plan = "premium" /\ ~ user[u].warned => Notices(u, plans[u]) <= slips
    /\ ToWarn(u) => /\ Notices(u, warn.plan[u]) <= slips
                    /\ warn.plan[u] <= plans[u]
                    /\ warn.plan[u] < plans[u] => Notices(u, plans[u]) = 0
    /\ warn.at = "publish" /\ warn.user = u /\ warn.plan[u] = plans[u] =>
          user[u].plan = "free" \/ user[u].warned

WarnInvariant == WarnTypes /\ \A u \in Users : NoticesFit(u)

LEMMA NoticesType ==
    ASSUME WarnTypes, NEW u, NEW k
    PROVE  Notices(u, k) \in Nat
BY CountType DEF WarnTypes, Notices

LEMMA NoticesSame ==
    UNCHANGED notices => \A u, k : Notices(u, k)' = Notices(u, k)
BY DEF Notices, Count, Copies

(* Steps that publish no warning to u and do not upgrade it.               *)
LEMMA WarnStill ==
    ASSUME WarnInvariant, WarnTypes', NEW u \in Users,
           \A k \in Nat : Notices(u, k)' = Notices(u, k),
           UNCHANGED plans, slips' >= slips,
           user'[u].plan = "premium" /\ ~ user'[u].warned =>
              user[u].plan = "premium" /\ ~ user[u].warned,
           ToWarn(u)' => ToWarn(u) /\ warn'.plan[u] = warn.plan[u],
           warn'.at = "publish" /\ warn'.user = u =>
              \/ user'[u].plan = "free" \/ user'[u].warned
              \/ /\ warn.at = "publish" /\ warn.user = u
                 /\ warn'.plan[u] = warn.plan[u]
                 /\ user[u].plan = "free" => user'[u].plan = "free"
                 /\ user[u].warned => user'[u].warned
    PROVE  NoticesFit(u)'
<1>1. /\ WarnTypes /\ slips \in Nat /\ slips' \in Nat /\ plans[u] \in Nat
      /\ warn.plan[u] \in Nat
  BY DEF WarnInvariant, WarnTypes, InBounds, WarnType
<1>3. \A k \in Nat : Notices(u, k) \in Nat
  BY <1>1, NoticesType
<1>4. NoticesFit(u)
  BY DEF WarnInvariant
<1> HIDE DEF Notices, ToWarn
<1>5. \A k \in Nat : /\ Notices(u, k)' <= 1 + slips'
                     /\ k > plans'[u] => Notices(u, k)' = 0
  BY <1>1, <1>3, <1>4 DEF NoticesFit
<1> QED BY <1>1, <1>3, <1>4, <1>5 DEF NoticesFit
(* Steps that leave the warnings' sweep, the users and their plans alone.  *)
LEMMA WarnAside ==
    ASSUME WarnInvariant, InBounds', answered' \subseteq Payments,
           sweep' \subseteq Users, slips' >= slips,
           UNCHANGED <<user, warn, notices, plans>>
    PROVE  WarnInvariant'
<1>1. WarnTypes'
  BY DEF WarnInvariant, WarnTypes, Warning
<1>2. ASSUME NEW u \in Users
      PROVE  NoticesFit(u)'
  <2>1. ToWarn(u)' <=> ToWarn(u)
    BY DEF ToWarn, Warning
  <2> QED BY <1>1, <2>1, NoticesSame, WarnStill
<1> QED BY <1>1, <1>2 DEF WarnInvariant

(* The paid upgrade: a plan nobody was warned of.                          *)
LEMMA WarnUpgrade ==
    ASSUME PayInv, WarnInvariant, InBounds', answered' \subseteq Payments,
           slips' >= slips, CaptureWrite, Upgrade
    PROVE  WarnInvariant'
<1>1. /\ PayTypes /\ WarnTypes /\ consumer.payment \in Payments
      /\ order[consumer.payment].user \in Users
  BY UnderWayHolds DEF PayInv, PayTypes, PaidSteps, CaptureWrite, Paid, NoOrder,
                       WarnInvariant
<1>2. PICK v \in Users : v = order[consumer.payment].user
  BY <1>1
<1>3. /\ user' = [user EXCEPT ![v] = [plan |-> "premium",
                                     expires |-> consumer.expires, warned |-> FALSE]]
      /\ plans' = [plans EXCEPT ![v] = @ + 1]
      /\ UNCHANGED <<sweep, warn, notices>>
  BY <1>2 DEF Upgrade, CaptureWrite, workerVars
<1>4. WarnTypes'
  BY <1>1, <1>3 DEF WarnTypes, Warning
<1>5. /\ slips \in Nat /\ slips' \in Nat
      /\ \A u \in Users : plans[u] \in Nat /\ warn.plan[u] \in Nat
  BY <1>1, <1>4 DEF WarnTypes, InBounds, WarnType
<1>6. ASSUME NEW u \in Users, u # v
      PROVE  NoticesFit(u)'
  <2>1. /\ user'[u] = user[u] /\ plans'[u] = plans[u] /\ NoticesFit(u)
        /\ ToWarn(u)' <=> ToWarn(u)
        /\ \A k : Notices(u, k)' = Notices(u, k)
    BY <1>1, <1>3, <1>6 DEF PayTypes, WarnTypes, WarnInvariant, ToWarn, Warning, Notices,
                            Count, Copies
  <2>2. \A k \in Nat : Notices(u, k) \in Nat
    BY <1>1, NoticesType
  <2> HIDE DEF Notices, ToWarn
  <2> QED BY <1>3, <1>5, <2>1, <2>2 DEF NoticesFit
<1>7. NoticesFit(v)'
  <2>1. /\ user'[v].plan = "premium" /\ plans'[v] = plans[v] + 1 /\ NoticesFit(v)
        /\ ToWarn(v)' <=> ToWarn(v)
        /\ \A k : Notices(v, k)' = Notices(v, k)
    BY <1>1, <1>3 DEF PayTypes, WarnTypes, WarnInvariant, ToWarn, Warning, Notices,
                      Count, Copies
  <2>2. \A k \in Nat : Notices(v, k) \in Nat
    BY <1>1, NoticesType
  <2>3. Notices(v, plans[v] + 1) = 0 /\ plans[v] + 1 \in Nat
    BY <1>5, <2>1 DEF NoticesFit
  <2>4. warn.at = "publish" /\ warn.user = v => warn.plan[v] <= plans[v]
    BY <2>1 DEF NoticesFit, ToWarn, Warning
  <2> HIDE DEF Notices, ToWarn
  <2> QED BY <1>3, <1>5, <2>1, <2>2, <2>3, <2>4 DEF NoticesFit
<1> QED BY <1>4, <1>6, <1>7 DEF WarnInvariant

(* A downgrade: the user has no plan to be warned of.                      *)
LEMMA WarnDowngrade ==
    ASSUME PayInv, WarnInvariant, InBounds', answered' \subseteq Payments,
           slips' >= slips, SweepDowngrade
    PROVE  WarnInvariant'
<1>1. PICK v \in sweep :
         /\ sweep' = sweep \ {v}
         /\ \/ user' = [user EXCEPT ![v] = [plan |-> "free", expires |-> 0,
                                            warned |-> FALSE]]
            \/ UNCHANGED user
  BY DEF SweepDowngrade
<1>2. /\ WarnTypes /\ PayTypes /\ v \in Users
      /\ UNCHANGED <<warn, notices, plans>>
  BY <1>1 DEF SweepDowngrade, WarnInvariant, WarnTypes, PayInv
<1>3. WarnTypes'
  BY <1>1, <1>2 DEF WarnTypes, Warning
<1>4. ASSUME NEW u \in Users
      PROVE  NoticesFit(u)'
  <2>1. ToWarn(u)' <=> ToWarn(u)
    BY <1>2 DEF ToWarn, Warning
  <2>2. user'[u] = user[u] \/ user'[u].plan = "free"
    BY <1>1, <1>2 DEF PayTypes
  <2> QED BY <1>2, <1>3, <2>1, <2>2, NoticesSame, WarnStill
<1> QED BY <1>3, <1>4 DEF WarnInvariant

(* A run warns of the plans it finds.                                      *)
LEMMA WarnBegin ==
    ASSUME PayInv, WarnInvariant, InBounds', WarnStart
    PROVE  WarnInvariant'
<1>1. /\ WarnTypes /\ PayTypes /\ warn.at = "idle"
      /\ warn' = [at |-> "mark", todo |-> {u \in Users : Due(u)}, user |-> None,
                  plan |-> plans]
      /\ UNCHANGED <<answered, user, sweep, notices, plans, slips>>
  BY DEF WarnStart, WarnInvariant, PayInv, IdleWarn, hookVars
<1>2. WarnTypes'
  BY <1>1 DEF WarnTypes, WarnType, Warning
<1>3. ASSUME NEW u \in Users
      PROVE  NoticesFit(u)'
  <2>1. /\ NoticesFit(u) /\ \A k : Notices(u, k)' = Notices(u, k)
        /\ ToWarn(u)' => user[u].plan = "premium" /\ ~ user[u].warned
        /\ plans[u] \in Nat
    BY <1>1 DEF WarnInvariant, Notices, Count, Copies, ToWarn, Warning, Due, WarnTypes
  <2> HIDE DEF Notices, ToWarn
  <2> QED BY <1>1, <2>1 DEF NoticesFit
<1> QED BY <1>2, <1>3 DEF WarnInvariant

Pass(w, v) == [w EXCEPT !.todo = @ \ {v}]
Take(w, v) == [Pass(w, v) EXCEPT !.at = "publish", !.user = v]

LEMMA WarnParts ==
    ASSUME NEW w \in WarnType, NEW v \in Users
    PROVE  /\ w.todo \subseteq Users
           /\ Pass(w, v) \in WarnType /\ Take(w, v) \in WarnType
           /\ Pass(w, v).at = w.at /\ Pass(w, v).todo = w.todo \ {v}
           /\ Pass(w, v).plan = w.plan
           /\ Take(w, v).at = "publish" /\ Take(w, v).todo = w.todo \ {v}
           /\ Take(w, v).user = v /\ Take(w, v).plan = w.plan
<1>1. w.todo \subseteq Users
  BY DEF WarnType
<1>2. w.todo \ {v} \in SUBSET Users
  BY <1>1
<1>3. /\ Pass(w, v) \in WarnType
      /\ Pass(w, v).at = w.at /\ Pass(w, v).todo = w.todo \ {v}
      /\ Pass(w, v).plan = w.plan
  BY <1>2 DEF WarnType, Pass
<1>4. /\ Take(w, v) \in WarnType
      /\ Take(w, v).at = "publish" /\ Take(w, v).todo = w.todo \ {v}
      /\ Take(w, v).user = v /\ Take(w, v).plan = w.plan
  BY <1>3 DEF WarnType, Take
<1> QED BY <1>1, <1>3, <1>4

(* What marking a user does.                                               *)
LEMMA WarnedParts ==
    ASSUME PayTypes, NEW v \in Users, NEW b \in BOOLEAN, Warned(v, b)
    PROVE  /\ user'[v].plan = user[v].plan /\ (user'[v].warned <=> b)
           /\ \A u \in Users \ {v} : user'[u] = user[u]
<1>1. user \in UserType
  BY DEF PayTypes, UserType
<1>2. user' = [user EXCEPT ![v].warned = b]
  BY DEF Warned
<1>3. /\ user'[v] = [user[v] EXCEPT !.warned = b]
      /\ \A u \in Users \ {v} : user'[u] = user[u]
  BY <1>1, <1>2 DEF UserType
<1>4. user[v] \in [plan : {"free", "premium"}, expires : Nat, warned : BOOLEAN]
  BY <1>1 DEF UserType
<1>5. user'[v].plan = user[v].plan /\ user'[v].warned = b
  BY <1>3, <1>4
<1> QED BY <1>3, <1>5

LEMMA WarnMarks ==
    ASSUME PayInv, WarnInvariant, InBounds', slips' >= slips, WarnMark
    PROVE  WarnInvariant'
<1>1. /\ WarnTypes /\ PayTypes /\ warn.at = "mark"
      /\ UNCHANGED <<answered, sweep, notices, plans>>
  BY DEF WarnMark, WarnInvariant, PayInv, hookVars
<1>2. PICK v \in warn.todo :
         \/ Warned(v, TRUE) /\ warn' = Take(warn, v)
         \/ /\ Warned(v, TRUE) \/ UNCHANGED user
            /\ warn' = IdleWarn \/ warn' = Pass(warn, v)
  BY DEF WarnMark, Pass, Take
<1>3. user' = [user EXCEPT ![v].warned = TRUE] \/ UNCHANGED user
  BY <1>2 DEF Warned
<1>r. warn \in WarnType /\ v \in Users
  <2>1. warn \in WarnType
    BY <1>1 DEF WarnTypes
  <2> QED BY <2>1 DEF WarnType
<1>4. /\ warn' \in WarnType
      /\ \/ /\ Warned(v, TRUE) /\ warn'.at = "publish" /\ warn'.user = v
            /\ warn'.plan = warn.plan /\ warn'.todo = warn.todo \ {v}
         \/ warn'.at = "idle"
         \/ /\ warn'.at = "mark" /\ warn'.plan = warn.plan
            /\ warn'.todo = warn.todo \ {v}
  <2>1. CASE warn' = Take(warn, v) /\ Warned(v, TRUE)
    BY <1>r, <2>1, WarnParts
  <2>2. CASE warn' = Pass(warn, v)
    BY <1>1, <1>r, <2>2, WarnParts
  <2>3. CASE warn' = IdleWarn
    BY <2>3 DEF IdleWarn, WarnType
  <2> QED BY <1>2, <2>1, <2>2, <2>3
<1>6. Warning' => warn'.user \in Users \ warn'.todo
  BY <1>r, <1>4 DEF Warning
<1>7. WarnTypes'
  BY <1>1, <1>4, <1>6 DEF WarnTypes
<1>8. ASSUME NEW u \in Users
      PROVE  NoticesFit(u)'
  <2>1. ToWarn(u)' => ToWarn(u) /\ warn'.plan[u] = warn.plan[u]
    BY <1>1, <1>4 DEF ToWarn, Warning
  <2>2. /\ user'[u].plan = user[u].plan
        /\ user[u].warned => user'[u].warned
        /\ Warned(v, TRUE) => user'[v].warned
    <3>1. CASE Warned(v, TRUE)
      BY <1>1, <1>r, <3>1, WarnedParts
    <3>2. CASE ~ Warned(v, TRUE)
      BY <1>2, <3>2
    <3> QED BY <3>1, <3>2
  <2>3. warn'.at = "publish" /\ warn'.user = u => user'[u].warned
    BY <1>4, <2>2
  <2> QED BY <1>1, <1>7, <2>1, <2>2, <2>3, NoticesSame, WarnStill
<1> QED BY <1>7, <1>8 DEF WarnInvariant
LEMMA IdleParts == IdleWarn \in WarnType /\ IdleWarn.at = "idle"
BY DEF IdleWarn, WarnType

LEMMA NextParts ==
    ASSUME warn \in WarnType, WarnNext
    PROVE  /\ warn' \in WarnType /\ ~ Warning'
           /\ \/ warn'.at = "idle"
              \/ warn'.at = "mark" /\ warn'.todo = warn.todo /\ warn'.plan = warn.plan
<1>1. CASE warn' = IdleWarn
  BY <1>1, IdleParts DEF Warning
<1>2. CASE warn' = [warn EXCEPT !.at = "mark", !.user = None]
  <2>1. /\ warn' \in WarnType /\ warn'.at = "mark"
        /\ warn'.todo = warn.todo /\ warn'.plan = warn.plan
    BY <1>2 DEF WarnType
  <2> QED BY <2>1 DEF Warning
<1> QED BY <1>1, <1>2 DEF WarnNext

LEMMA UnmarkParts ==
    ASSUME warn \in WarnType, warn' = [warn EXCEPT !.at = "unmark"]
    PROVE  /\ warn' \in WarnType /\ warn'.at = "unmark" /\ warn'.user = warn.user
           /\ warn'.todo = warn.todo /\ warn'.plan = warn.plan
BY DEF WarnType

(* One more notice, of the plan the sweep found.                           *)
LEMMA NoticeCounts ==
    ASSUME WarnTypes, warn.user \in Users, Notice, NEW u \in Users, NEW k \in Nat
    PROVE  Notices(u, k)' =
             Notices(u, k) + (IF u = warn.user /\ k = warn.plan[warn.user] THEN 1 ELSE 0)
<1> DEFINE n == [user |-> warn.user, plan |-> warn.plan[warn.user]]
           S == [user : Users, plan : Nat]
<1>1. n \in S /\ notices \in Seq(S) /\ notices' = Append(notices, n)
  BY DEF WarnTypes, WarnType, Notice
<1>2. [user |-> u, plan |-> k] = n <=> u = warn.user /\ k = warn.plan[warn.user]
  OBVIOUS
<1> HIDE DEF n, S
<1>3. Count(notices', [user |-> u, plan |-> k]) =
        Count(notices, [user |-> u, plan |-> k])
          + (IF [user |-> u, plan |-> k] = n THEN 1 ELSE 0)
  BY <1>1, CountAppend
<1>4. Notices(u, k)' = Count(notices', [user |-> u, plan |-> k])
  BY DEF Notices, Count, Copies
<1> QED BY <1>2, <1>3, <1>4 DEF Notices

LEMMA WarnPublishes ==
    ASSUME PayInv, WarnInvariant, InBounds', slips' >= slips, WarnPublish
    PROVE  WarnInvariant'
<1>1. /\ WarnTypes /\ PayTypes /\ warn.at = "publish" /\ warn \in WarnType
      /\ UNCHANGED <<answered, sweep, user, plans>>
  BY DEF WarnPublish, WarnInvariant, WarnTypes, PayInv, hookVars
<1>2. PICK v \in Users \ warn.todo : v = warn.user
  BY <1>1 DEF WarnTypes, Warning
<1>3. /\ warn' \in WarnType
      /\ \/ ~ Warning' /\ warn'.at = "idle"
         \/ /\ ~ Warning' /\ warn'.at = "mark"
            /\ warn'.todo = warn.todo /\ warn'.plan = warn.plan
         \/ /\ warn'.at = "unmark" /\ warn'.user = v /\ (UNCHANGED notices \/ Slip)
            /\ warn'.todo = warn.todo /\ warn'.plan = warn.plan
  BY <1>1, <1>2, NextParts, UnmarkParts DEF WarnPublish
<1>4. notices' \in Seq([user : Users, plan : Nat])
  <2>1. [user |-> v, plan |-> warn.plan[v]] \in [user : Users, plan : Nat]
    BY <1>1, <1>2 DEF WarnType
  <2>2. notices \in Seq([user : Users, plan : Nat])
    BY <1>1 DEF WarnTypes
  <2> DEFINE n == [user |-> v, plan |-> warn.plan[v]]
             S == [user : Users, plan : Nat]
  <2>3. notices' = notices \/ notices' = Append(notices, n)
    BY <1>2 DEF WarnPublish, Notice
  <2> HIDE DEF n, S
  <2>4. n \in S /\ notices \in Seq(S)
    BY <2>1, <2>2 DEF n, S
  <2>5. notices' \in Seq(S)
    BY <2>3, <2>4
  <2> QED BY <2>5 DEF S
<1>5. WarnTypes'
  <2>1. Warning' => warn'.user \in Users \ warn'.todo
    BY <1>2, <1>3
  <2> QED BY <1>1, <1>3, <1>4, <2>1 DEF WarnTypes
<1>6. UNCHANGED notices \/ Notice
  BY DEF WarnPublish
<1>7. ASSUME NEW u \in Users, u # v \/ UNCHANGED notices
      PROVE  NoticesFit(u)'
  <2>1. ToWarn(u)' => ToWarn(u) /\ warn'.plan[u] = warn.plan[u]
    BY <1>1, <1>2, <1>3 DEF ToWarn, Warning
  <2>2. \A k \in Nat : Notices(u, k)' = Notices(u, k)
    <3>1. CASE UNCHANGED notices
      BY <3>1, NoticesSame
    <3>2. CASE u # v /\ Notice
      <4>1. \A k \in Nat : Notices(u, k) \in Nat
        BY <1>1, NoticesType
      <4> QED BY <1>1, <1>2, <3>2, <4>1, NoticeCounts
    <3> QED BY <1>6, <1>7, <3>1, <3>2
  <2>3. warn'.at # "publish"
    BY <1>3 DEF Warning
  <2> QED BY <1>1, <1>5, <2>1, <2>2, <2>3, WarnStill
<1>8. ASSUME Notice
      PROVE  NoticesFit(v)'
  <2>p. PICK p \in Nat : p = warn.plan[v]
    BY <1>1, <1>2 DEF WarnType
  <2>1. \A k \in Nat : Notices(v, k)' = Notices(v, k) + (IF k = p THEN 1 ELSE 0)
    BY <1>1, <1>2, <1>8, <2>p, NoticeCounts
  <2>2. \A k \in Nat : Notices(v, k) \in Nat
    BY <1>1, NoticesType
  <2>3. /\ plans[v] \in Nat /\ slips \in Nat /\ slips' \in Nat
    BY <1>1, <1>2, <1>5 DEF WarnTypes, WarnType, InBounds
  <2>4. NoticesFit(v) /\ ToWarn(v)
    BY <1>1, <1>2 DEF WarnInvariant, ToWarn, Warning
  <2>5. /\ Notices(v, p) <= slips /\ p <= plans[v]
        /\ p < plans[v] => Notices(v, plans[v]) = 0
        /\ p = plans[v] => user[v].plan = "free" \/ user[v].warned
    BY <1>1, <1>2, <2>p, <2>4 DEF NoticesFit
  <2>6. ToWarn(v)' => slips' > slips /\ warn'.plan[v] = p
    <3>1. ToWarn(v)' => warn'.at = "unmark" /\ warn'.plan = warn.plan
      BY <1>2, <1>3 DEF ToWarn, Warning
    <3>2. ~ UNCHANGED notices
      <4>1. Notices(v, p)' # Notices(v, p)
        BY <2>1, <2>2, <2>3
      <4> QED BY <4>1, NoticesSame
    <3>3. warn'.at = "unmark" => Slip
      BY <1>3, <3>2 DEF Warning
    <3> QED BY <2>3, <2>p, <3>1, <3>3 DEF Slip
  <2>7. warn'.at # "publish"
    BY <1>3 DEF Warning
  <2> HIDE DEF Notices, ToWarn
  <2>8. \A k \in Nat : /\ Notices(v, k)' <= 1 + slips'
                       /\ k > plans'[v] => Notices(v, k)' = 0
    BY <1>1, <2>1, <2>2, <2>3, <2>4, <2>5 DEF NoticesFit
  <2>9. user'[v].plan = "premium" /\ ~ user'[v].warned => Notices(v, plans[v])' <= slips'
    BY <1>1, <2>1, <2>2, <2>3, <2>5
  <2>10. ASSUME ToWarn(v)'
         PROVE  /\ Notices(v, warn.plan[v])' <= slips'
                /\ warn'.plan[v] <= plans'[v]
                /\ warn'.plan[v] < plans'[v] => Notices(v, plans[v])' = 0
    <3>1. slips' > slips /\ warn'.plan[v] = p /\ plans'[v] = plans[v]
      BY <1>1, <2>6, <2>10
    <3>2. Notices(v, p)' <= slips' /\ (p < plans[v] => Notices(v, plans[v])' = 0)
      BY <2>1, <2>2, <2>3, <2>5, <3>1
    <3> QED BY <2>5, <3>1, <3>2
  <2> QED BY <2>7, <2>8, <2>9, <2>10 DEF NoticesFit
<1> QED BY <1>5, <1>6, <1>7, <1>8 DEF WarnInvariant

(* The mark is taken back: the plan may be warned of again.                *)
LEMMA WarnUnmarks ==
    ASSUME PayInv, WarnInvariant, InBounds', slips' >= slips, WarnUnmark
    PROVE  WarnInvariant'
<1>1. /\ WarnTypes /\ PayTypes /\ warn.at = "unmark" /\ warn \in WarnType
      /\ UNCHANGED <<answered, sweep, notices, plans>>
  BY DEF WarnUnmark, WarnInvariant, WarnTypes, PayInv, hookVars
<1>2. PICK v \in Users \ warn.todo : v = warn.user
  BY <1>1 DEF WarnTypes, Warning
<1>3. /\ warn' \in WarnType /\ ~ Warning'
      /\ \/ warn'.at = "idle"
         \/ warn'.at = "mark" /\ warn'.todo = warn.todo /\ warn'.plan = warn.plan
  BY <1>1, NextParts DEF WarnUnmark
<1>4. WarnTypes'
  BY <1>1, <1>3 DEF WarnTypes
<1>5. \/ user' = user
      \/ /\ user'[v].plan = user[v].plan /\ ~ user'[v].warned
         /\ \A u \in Users \ {v} : user'[u] = user[u]
  BY <1>1, <1>2, WarnedParts DEF WarnUnmark
<1>6. ASSUME NEW u \in Users
      PROVE  ToWarn(u)' => ToWarn(u) /\ warn'.plan[u] = warn.plan[u]
  BY <1>1, <1>3 DEF ToWarn, Warning
<1>7. warn'.at # "publish"
  BY <1>3 DEF Warning
<1>8. ASSUME NEW u \in Users, u # v \/ user' = user
      PROVE  NoticesFit(u)'
  <2>1. user'[u] = user[u]
    BY <1>5, <1>8
  <2> QED BY <1>1, <1>4, <1>6, <1>7, <2>1, NoticesSame, WarnStill
<1>9. NoticesFit(v)'
  <2>1. NoticesFit(v) /\ ToWarn(v) /\ ~ ToWarn(v)'
    BY <1>1, <1>2, <1>3 DEF WarnInvariant, ToWarn, Warning
  <2>2. \A k \in Nat : Notices(v, k) \in Nat /\ Notices(v, k)' = Notices(v, k)
    BY <1>1, NoticesType, NoticesSame
  <2>3. /\ warn.plan[v] \in Nat /\ plans[v] \in Nat /\ slips \in Nat /\ slips' \in Nat
    BY <1>1, <1>2, <1>4 DEF WarnTypes, WarnType, InBounds
  <2> HIDE DEF Notices, ToWarn
  <2>4. \A k \in Nat : /\ Notices(v, k)' <= 1 + slips'
                       /\ k > plans'[v] => Notices(v, k)' = 0
    BY <1>1, <2>1, <2>2, <2>3 DEF NoticesFit
  <2>5. Notices(v, plans[v]) <= slips
    BY <2>1, <2>2, <2>3 DEF NoticesFit
  <2>6. Notices(v, plans[v])' <= slips'
    <3>1. PICK k \in Nat : k = plans[v]
      BY <2>3
    <3>2. k = plans'[v]
      BY <1>1, <3>1
    <3> QED BY <2>2, <2>3, <2>5, <3>1, <3>2
  <2> QED BY <1>1, <1>7, <2>1, <2>4, <2>6 DEF NoticesFit
<1> QED BY <1>4, <1>8, <1>9 DEF WarnInvariant

LEMMA WarnRestart ==
    ASSUME WarnInvariant, InBounds', slips' >= slips, PaymentCrash
    PROVE  WarnInvariant'
<1>1. /\ WarnTypes /\ sweep' = {} /\ warn' \in WarnType /\ warn'.at = "idle"
      /\ UNCHANGED <<answered, user, notices, plans>>
  BY DEF PaymentCrash, WarnInvariant, IdleWarn, WarnType
<1>2. ~ Warning' /\ \A u \in Users : ~ ToWarn(u)'
  BY <1>1 DEF Warning, ToWarn
<1>3. WarnTypes'
  BY <1>1, <1>2 DEF WarnTypes
<1>4. ASSUME NEW u \in Users
      PROVE  NoticesFit(u)'
  BY <1>1, <1>2, <1>3, NoticesSame, WarnStill
<1> QED BY <1>3, <1>4 DEF WarnInvariant

LEMMA WarnStep == PayInv /\ WarnInvariant /\ [Next]_vars => WarnInvariant'
<1> SUFFICES ASSUME PayInv, WarnInvariant, [Next]_vars PROVE WarnInvariant'
  OBVIOUS
<1>1. /\ PayTypes /\ WarnTypes /\ InBounds /\ answered \subseteq Payments
      /\ sweep \subseteq Users
  BY DEF PayInv, WarnInvariant, WarnTypes
<1>2. InBounds' /\ answered' \subseteq Payments
  BY <1>1, BoundStep, AnsweredStep
<1>3. Slip \/ NoSlip => slips' >= slips
  BY <1>1 DEF PayTypes, Slip, NoSlip
<1>4. CASE /\ UNCHANGED <<user, warn, notices, plans>> /\ sweep' \subseteq Users
           /\ Slip \/ NoSlip
  BY <1>2, <1>3, <1>4, WarnAside
<1>5. CASE Tick \/ CreateOrder \/ Hook \/ CaptureRead \/ CaptureAck \/ ScoringCrash
           \/ UNCHANGED vars
  BY <1>1, <1>4, <1>5 DEF Tick, CreateOrder, Hook, HookDeliver, HookKey, HookUpdate,
         HookFind, HookPublish, HookRollback, CaptureRead, CaptureAck, ScoringCrash,
         vars, workerVars, NoSlip
<1>6. CASE CaptureWrite
  <2>1. Slip \/ NoSlip
    BY <1>6 DEF CaptureWrite
  <2>2. CASE Upgrade
    BY <1>2, <1>3, <1>6, <2>1, <2>2, WarnUpgrade
  <2>3. CASE UNCHANGED <<user, granted>>
    BY <1>1, <1>4, <1>6, <2>1, <2>3 DEF CaptureWrite, workerVars
  <2> QED BY <1>6, <2>2, <2>3 DEF CaptureWrite
<1>7. CASE Sweep
  <2>1. CASE SweepStart
    BY <1>4, <2>1 DEF SweepStart, NoSlip
  <2>2. CASE SweepDowngrade
    <3>1. Slip \/ NoSlip
      BY <2>2 DEF SweepDowngrade
    <3> QED BY <1>2, <1>3, <2>2, <3>1, WarnDowngrade
  <2> QED BY <1>7, <2>1, <2>2 DEF Sweep
<1>8. CASE Warn
  <2>1. Slip \/ NoSlip
    BY <1>8 DEF Warn, WarnStart, WarnMark, WarnPublish, WarnUnmark, NoSlip
  <2> QED BY <1>2, <1>3, <1>8, <2>1, WarnBegin, WarnMarks, WarnPublishes, WarnUnmarks
          DEF Warn
<1>9. CASE PaymentCrash
  BY <1>2, <1>3, <1>9, WarnRestart DEF PaymentCrash
<1> QED BY <1>5, <1>6, <1>7, <1>8, <1>9 DEF Next, Capture

LEMMA WarnInit == Init => WarnInvariant
<1> SUFFICES ASSUME Init PROVE WarnInvariant
  OBVIOUS
<1>1. WarnTypes
  BY BoundsAssumption DEF Init, WarnTypes, InBounds, WarnType, IdleWarn, Warning
<1>2. ASSUME NEW u \in Users
      PROVE  NoticesFit(u)
  <2>1. \A k : Notices(u, k) = 0
    BY CountEmpty DEF Init, Notices
  <2>2. ~ ToWarn(u) /\ warn.at = "idle" /\ slips = 0 /\ plans[u] = 0
    BY DEF Init, ToWarn, Warning, IdleWarn
  <2> HIDE DEF Notices, ToWarn
  <2> QED BY <2>1, <2>2 DEF NoticesFit
<1> QED BY <1>1, <1>2 DEF WarnInvariant

-----------------------------------------------------------------------------
IGrant == IPay /\ OnceInv /\ WarnInvariant

LEMMA GrantInvariant == Spec => []IGrant
<1>1. Init => IGrant
  BY InitPay, OnceStart, WarnInit DEF IGrant
<1>2. IGrant /\ [Next]_vars => IGrant'
  <2> SUFFICES ASSUME IGrant, [Next]_vars PROVE IGrant'
    OBVIOUS
  <2>1. IPay'
    BY NextPay DEF IGrant
  <2>2. PayInv /\ PayInv'
    BY <2>1 DEF IGrant, IPay
  <2> QED BY <2>1, <2>2, OnceStep, WarnStep DEF IGrant
<1> QED BY <1>1, <1>2, PTL DEF Spec

LEMMA GrantImplied == IGrant => GrantSafety
<1> SUFFICES ASSUME IGrant PROVE GrantSafety
  OBVIOUS
<1>1. PayTypes /\ WarnTypes
  BY DEF IGrant, IPay, PayInv, WarnInvariant
<1>2. TypeOK
  BY <1>1 DEF TypeOK, PayTypes, WarnTypes, WarnType, InBounds
<1>3. GrantedOnce
  <2>1. ASSUME NEW p \in Payments
        PROVE  published[p] <= 1 + slips /\ grants[p] <= 1 + slips
    <3>1. Room(p, published[p]) /\ Room(p, Sent(p))
      BY DEF IGrant, OnceInv
    <3>2. /\ Sent(p) \in Nat /\ grants[p] \in Nat /\ grants[p] <= Sent(p)
          /\ slips \in Nat
      BY <1>1, SentType DEF PayTypes
    <3> HIDE DEF Sent
    <3> QED BY <3>1, <3>2 DEF Room
  <2> QED BY <2>1 DEF GrantedOnce
<1>4. WarnedOncePerPlan
  <2>1. ASSUME NEW i \in DOMAIN notices
        PROVE  Cardinality({j \in DOMAIN notices : notices[j] = notices[i]}) <= 1 + slips
    <3>1. notices[i] \in [user : Users, plan : Nat]
      <4> DEFINE S == [user : Users, plan : Nat]
      <4>1. notices \in Seq(S)
        BY <1>1 DEF WarnTypes
      <4> HIDE DEF S
      <4>2. notices[i] \in S
        BY <4>1
      <4> QED BY <4>2 DEF S
    <3>2. PICK u \in Users, k \in Nat : notices[i] = [user |-> u, plan |-> k]
      BY <3>1
    <3>3. Notices(u, k) <= 1 + slips
      BY DEF IGrant, WarnInvariant, NoticesFit
    <3> QED BY <3>2, <3>3 DEF Notices, Count, Copies
  <2> QED BY <2>1 DEF WarnedOncePerPlan
<1> QED BY <1>2, <1>3, <1>4 DEF GrantSafety

(* What happens once happens once: a payment's upgrade is published and    *)
(* made once, and a plan's user is warned once of its end, but for one     *)
(* repetition per failed call or crash, for any number of deliveries,      *)
(* renewals and expiries.                                                  *)
THEOREM GrantOnce == Spec => []GrantSafety
<1> QED BY GrantInvariant, GrantImplied, PTL
=============================================================================

------------------------- MODULE Matchmaking_proofs -------------------------
(***************************************************************************)
(* Theorems about Matchmaking, for every set of users, handlers, rooms and *)
(* streams: the type invariant, that a user who is free all day gets no    *)
(* more matches than the day's charges and what midnight carried over pay  *)
(* for, that rooms have opponents, that no channel is closed twice, that   *)
(* only rooms that are written are announced, that, while nothing fails,   *)
(* clients hear of announced rooms only, and the poller drops nobody but a *)
(* player who waited alone.                                                *)
(***************************************************************************)
EXTENDS Matchmaking, FiniteSetTheorems, TLAPS

(* The variables a step of the streams, the plan or the handlers leaves    *)
(* alone, grouped as the actions group them.                               *)
USE DEF planVars, pollVars, roomVars, subVars, poolVars

(* The poller asks for at most MaxBatch players, and never for fewer than  *)
(* none (the cap of tryCreateRoom).                                        *)
LEMMA LeastBound ==
    ASSUME NEW m \in Nat, NEW n \in Nat
    PROVE  Least(m, n) \in 0..n
  BY DEF Least

(* A step of a SubscribeToMatch handler keeps the streams well typed.      *)
LEMMA SubNextType == SubTypeOK /\ SubNext => SubTypeOK'
<1> SUFFICES ASSUME SubTypeOK, NEW s \in Streams,
                    \/ \E u \in Users : SubscribeOpen(s, u)
                    \/ SubscribeCloseOld(s)
                    \/ SubscribeStore(s)
                    \/ SubscribeDeliver(s)
                    \/ SubscribeChannelClosed(s)
                    \/ SubscribeClientGone(s)
                    \/ SubscribeReturn(s)
             PROVE  SubTypeOK'
  BY DEF SubNext
<1> USE DEF SubTypeOK, StreamState, StreamAt
<1>1. ASSUME NEW u \in Users, SubscribeOpen(s, u) PROVE SubTypeOK'
  <2> DEFINE old == subscribers[u]
             r == [stream[s] EXCEPT !.user = u, !.old = old,
                          !.at = IF old = None THEN "store" ELSE "close"]
  <2>1. r \in StreamState
    OBVIOUS
  <2>2. stream' = [stream EXCEPT ![s] = r]
    BY <1>1 DEF SubscribeOpen
  <2>3. stream' \in [Streams -> StreamState]
    BY <2>1, <2>2
  <2> QED BY <1>1, <2>3 DEF SubscribeOpen
<1>2. CASE SubscribeCloseOld(s)
  <2> DEFINE f == [stream EXCEPT ![s].at = "store"]
             old == stream[s].old
  <2>1. f \in [Streams -> StreamState]
    OBVIOUS
  <2>2. stream' = [f EXCEPT ![old].closed = TRUE]
    BY <1>2 DEF SubscribeCloseOld
  <2>3. \A t \in Streams : [f[t] EXCEPT !.closed = TRUE] \in StreamState
    BY <2>1
  <2>4. stream' \in [Streams -> StreamState]
    <3> HIDE DEF f, StreamState
    <3> QED BY <2>1, <2>2, <2>3
  <2> QED BY <1>2, <2>4 DEF SubscribeCloseOld
<1>3. CASE SubscribeStore(s)
  BY <1>3 DEF SubscribeStore
<1>4. CASE SubscribeDeliver(s)
  <2>1. /\ stream[s].buf \in Seq(Rooms) /\ stream[s].buf # <<>>
        /\ heard' = [heard EXCEPT ![stream[s].user] =
                       @ \cup {Head(stream[s].buf)}]
        /\ stream' = [stream EXCEPT ![s].buf = Tail(@)]
        /\ subscribers' = subscribers
    BY <1>4 DEF SubscribeDeliver
  <2>2. Head(stream[s].buf) \in Rooms /\ Tail(stream[s].buf) \in Seq(Rooms)
    BY <2>1
  <2>3. stream' \in [Streams -> StreamState]
    BY <2>1, <2>2
  <2>4. heard' \in [Users -> SUBSET Rooms]
    BY <2>1, <2>2
  <2> QED BY <2>1, <2>3, <2>4
<1>5. CASE SubscribeChannelClosed(s)
  BY <1>5 DEF SubscribeChannelClosed
<1>6. CASE SubscribeClientGone(s)
  BY <1>6 DEF SubscribeClientGone
<1>7. CASE SubscribeReturn(s)
  BY <1>7 DEF SubscribeReturn
<1> QED BY <1>1, <1>2, <1>3, <1>4, <1>5, <1>6, <1>7

-----------------------------------------------------------------------------
(* Type correctness.                                                       *)

(* The process can die in any state: what is left is well typed.           *)
LEMMA DieType == TypeOK /\ Die => TypeOK'
<1> SUFFICES ASSUME TypeOK, Die PROVE TypeOK'
  OBVIOUS
<1>1. SubTypeOK'
  <2>1. <<>> \in Seq(Rooms)
    OBVIOUS
  <2>2. \A s \in Streams :
          [UnusedStream EXCEPT !.at = "dead", !.user = stream[s].user]
            \in StreamState
    BY <2>1 DEF TypeOK, SubTypeOK, StreamState, StreamAt, UnusedStream
  <2> QED BY <2>2 DEF TypeOK, Die, SubCrash, SubTypeOK
<1>2. call' \in [Calls -> [at : CallAt, user : Users \cup {None}]]
  BY DEF Die, IdleCall, CallAt
<1> QED BY <1>1, <1>2, MaxBatchAssumption DEF TypeOK, Die, PollAt, IdleCall

(* The handlers in progress stay well typed when one of them moves on.     *)
LEMMA GotoType ==
    ASSUME TypeOK, NEW c \in Calls, NEW label \in CallAt,
           call[c].at # "idle", Goto(c, label)
    PROVE  /\ call' \in [Calls -> [at : CallAt, user : Users \cup {None}]]
           /\ \A d \in Calls : call'[d].at # "idle" => call'[d].user \in Users
  BY DEF TypeOK, Goto

(* So do they when one of them ends.                                       *)
LEMMA ReturnType ==
    ASSUME TypeOK, NEW c \in Calls, Return(c)
    PROVE  /\ call' \in [Calls -> [at : CallAt, user : Users \cup {None}]]
           /\ \A d \in Calls : call'[d].at # "idle" => call'[d].user \in Users
  BY DEF TypeOK, Return, IdleCall, CallAt

(* A step of JoinMatchmaking or LeaveMatchmaking keeps the state typed.    *)
LEMMA HandlerType ==
    ASSUME TypeOK, NEW c \in Calls, HandlerNext(c)
    PROVE  TypeOK'
<1> USE DEF TypeOK, SubTypeOK, DailyLimit, Plans
<1>a. {"readCache", "fillCache", "charge", "lateCharge", "dupCheck", "add",
       "refund"} \subseteq CallAt
  BY DEF CallAt
<1>1. ASSUME NEW u \in Users, JoinReadUser(c, u) PROVE TypeOK'
  <2>1. PICK label \in {"dupCheck", "readCache"} :
          call' = [call EXCEPT ![c] = [at |-> label, user |-> u]]
    BY <1>1 DEF JoinReadUser
  <2>2. [at |-> label, user |-> u] \in [at : CallAt, user : Users \cup {None}]
    BY <1>a
  <2> QED BY <1>1, <2>1, <2>2 DEF JoinReadUser
<1>2. CASE JoinReadCache(c)
  <2>1. \E label \in CallAt : Goto(c, label)
    BY <1>2, <1>a DEF JoinReadCache
  <2>2. call[c].at # "idle"
    BY <1>2 DEF JoinReadCache
  <2> QED BY <1>2, <2>1, <2>2, GotoType DEF JoinReadCache
<1>3. CASE JoinFillCache(c)
  BY <1>3, <1>a, GotoType DEF JoinFillCache
<1>4. CASE JoinCharge(c)
  <2>1. call[c].at # "idle" /\ call[c].user \in Users
    BY <1>4 DEF JoinCharge, ChargeUpTo
  <2>2. quota' \in [Users -> -1..DailyLimit]
    BY <1>4, <2>1 DEF JoinCharge, ChargeUpTo, QuotaCharged
  <2>3. CASE Goto(c, "dupCheck")
    BY <1>4, <1>a, <2>1, <2>2, <2>3, GotoType DEF JoinCharge, ChargeUpTo
  <2>4. CASE Return(c)
    BY <1>4, <2>2, <2>4, ReturnType DEF JoinCharge, ChargeUpTo
  <2> QED BY <1>4, <2>3, <2>4 DEF JoinCharge, ChargeUpTo
<1>5. CASE JoinDupCheck(c)
  <2>1. call[c].at # "idle" /\ (Return(c) \/ Goto(c, "add"))
    BY <1>5 DEF JoinDupCheck
  <2>2. CASE Return(c)
    BY <1>5, <2>2, ReturnType DEF JoinDupCheck
  <2>3. CASE Goto(c, "add")
    BY <1>5, <1>a, <2>1, <2>3, GotoType DEF JoinDupCheck
  <2> QED BY <2>1, <2>2, <2>3
<1>6. CASE JoinAdd(c)
  <2>1. call[c].user \in Users
    BY <1>6 DEF JoinAdd
  <2> QED BY <1>6, <2>1, ReturnType DEF JoinAdd
<1>7. CASE JoinFails(c)
  <2>1. call[c].user \in Users
    BY <1>7 DEF JoinFails
  <2>2. quota' \in [Users -> -1..DailyLimit] /\ pool' \subseteq Users
    BY <1>7, <2>1 DEF JoinFails, QuotaCharged, LateScript
  <2> QED BY <1>7, <2>2, ReturnType DEF JoinFails
<1>8. ASSUME NEW u \in Users, LeaveRemove(c, u) PROVE TypeOK'
  <2>1. [at |-> "refund", user |-> u] \in [at : CallAt, user : Users \cup {None}]
    BY <1>a
  <2>2. CASE call' = [call EXCEPT ![c] = [at |-> "refund", user |-> u]]
    BY <1>8, <2>1, <2>2 DEF LeaveRemove
  <2>3. CASE UNCHANGED call
    BY <1>8, <2>3 DEF LeaveRemove
  <2> QED BY <1>8, <2>2, <2>3 DEF LeaveRemove
<1>9. CASE LeaveRefund(c)
  <2>1. call[c].user \in Users
    BY <1>9 DEF LeaveRefund
  <2>2. quota' \in [Users -> -1..DailyLimit]
    BY <1>9, <2>1 DEF LeaveRefund
  <2> QED BY <1>9, <2>2, ReturnType DEF LeaveRefund
<1>10. CASE JoinChargeLate(c)
  <2>1. call[c].at # "idle" /\ (Return(c) \/ Goto(c, "dupCheck"))
    BY <1>10 DEF JoinChargeLate
  <2>2. quota' \in [Users -> -1..DailyLimit]
    BY <1>10 DEF JoinChargeLate, LateScript
  <2>3. CASE Return(c)
    BY <1>10, <2>2, <2>3, ReturnType DEF JoinChargeLate
  <2>4. CASE Goto(c, "dupCheck")
    BY <1>10, <1>a, <2>1, <2>2, <2>4, GotoType DEF JoinChargeLate
  <2> QED BY <2>1, <2>3, <2>4
<1> QED BY <1>1, <1>2, <1>3, <1>4, <1>5, <1>6, <1>7, <1>8, <1>9, <1>10
        DEF HandlerNext

(* A step of the poller (tryCreateRoom, createRoom) keeps the state typed. *)
LEMMA PollType == TypeOK /\ PollNext => TypeOK'
<1> SUFFICES ASSUME TypeOK, PollNext PROVE TypeOK'
  OBVIOUS
<1> USE DEF TypeOK, PollAt
<1>1. CASE PollSize
  <2>1. want' \in 0..MaxBatch
    BY <1>1, UsersAssumption, MaxBatchAssumption, FS_Subset, FS_CardinalityType,
       LeastBound DEF PollSize
  <2> QED BY <1>1, <2>1 DEF PollSize, SubTypeOK
<1>2. CASE PollPop
  BY <1>2, MaxBatchAssumption DEF PollPop, Pop, SubTypeOK
<1>3. CASE PollLock
  BY <1>3 DEF PollLock, SubTypeOK
<1>4. CASE PollExec
  BY <1>4 DEF PollExec, SubTypeOK
<1>5. CASE PollPutBack
  BY <1>5 DEF PollPutBack, SubTypeOK
<1>6. CASE PollPublish
  BY <1>6 DEF PollPublish, SubTypeOK
<1>7. CASE PollNotifyLoad
  BY <1>7 DEF PollNotifyLoad, SubTypeOK
<1>8. CASE PollNotifySend
  <2>1. stream' \in [Streams -> StreamState]
    <3>1. Append(stream[chan].buf, room) \in Seq(Rooms)
      BY <1>8 DEF PollNotifySend, SubTypeOK, StreamState
    <3>2. [stream EXCEPT ![chan].buf = Append(@, room)]
            \in [Streams -> StreamState]
      <4>1. chan \in Streams /\ stream \in [Streams -> StreamState]
        BY <1>8 DEF PollNotifySend, SubTypeOK
      <4> DEFINE st == stream[chan]
                 b == Append(st.buf, room)
      <4>2. st \in StreamState /\ b \in Seq(Rooms)
        BY <3>1, <4>1
      <4>3. [st EXCEPT !.buf = b] \in StreamState
        <5> HIDE DEF st, b
        <5> QED BY <4>2 DEF StreamState
      <4> QED BY <4>1, <4>3
    <3> QED BY <1>8, <3>2 DEF PollNotifySend, SendOrDrop, SubTypeOK
  <2> QED BY <1>8, <2>1 DEF PollNotifySend, SubTypeOK
<1>9. CASE PollDone
  BY <1>9 DEF PollDone, SubTypeOK
<1>10. CASE PollSendPanics
  BY <1>10, DieType DEF PollSendPanics
<1>11. CASE PollPopFails
  BY <1>11, MaxBatchAssumption DEF PollPopFails, SubTypeOK
<1> QED BY <1>1, <1>2, <1>3, <1>4, <1>5, <1>6, <1>7, <1>8, <1>9, <1>10,
       <1>11 DEF PollNext

(* A change of the plan, in MongoDB or in its cache, keeps the state typed.*)
LEMMA PlanType ==
    ASSUME TypeOK, NEW u \in Users, PlanNext(u)
    PROVE  TypeOK'
<1> USE DEF TypeOK, SubTypeOK, Plans
<1>1. CASE PlanChange(u)
  BY <1>1 DEF PlanChange
<1>2. CASE PlanDropCache(u)
  BY <1>2 DEF PlanDropCache
<1>3. CASE PlanFillRead(u)
  BY <1>3 DEF PlanFillRead
<1>4. CASE PlanFillWrite(u)
  BY <1>4 DEF PlanFillWrite
<1>5. CASE PlanCacheExpires(u)
  BY <1>5 DEF PlanCacheExpires
<1> QED BY <1>1, <1>2, <1>3, <1>4, <1>5 DEF PlanNext

(* Counting the handlers of a user: how many are in a set, with and        *)
(* without one of them.                                                    *)
LEMMA OneType == \A b : One(b) \in {0, 1}
  BY DEF One

LEMMA CountSplit ==
    ASSUME NEW S, IsFiniteSet(S), NEW c
    PROVE  /\ Cardinality(S) \in Nat /\ Cardinality(S \ {c}) \in Nat
           /\ Cardinality(S) = Cardinality(S \ {c}) + One(c \in S)
<1>1. Cardinality(S) \in Nat
  BY FS_CardinalityType
<1>2. CASE c \in S
  BY <1>1, <1>2, FS_RemoveElement, FS_CardinalityType DEF One
<1>3. CASE c \notin S
  <2>1. S \ {c} = S
    BY <1>3
  <2> QED BY <1>1, <1>3, <2>1 DEF One
<1> QED BY <1>2, <1>3

LEMMA HandlersFinite ==
    ASSUME NEW u
    PROVE  /\ IsFiniteSet(Holders(u)) /\ IsFiniteSet(LateOnes(u))
           /\ IsFiniteSet(Holders(u)') /\ IsFiniteSet(LateOnes(u)')
<1>1. /\ Holders(u) \subseteq Calls /\ LateOnes(u) \subseteq Calls
      /\ Holders(u)' \subseteq Calls /\ LateOnes(u)' \subseteq Calls
  BY DEF Holders, LateOnes
<1> DEFINE A == Holders(u)
           B == LateOnes(u)
           C == Holders(u)'
           D == LateOnes(u)'
<1> HIDE DEF A, B, C, D
<1>2. IsFiniteSet(A) /\ IsFiniteSet(B) /\ IsFiniteSet(C) /\ IsFiniteSet(D)
  BY <1>1, UsersAssumption, FS_Subset DEF A, B, C, D
<1> QED BY <1>2 DEF A, B, C, D

LEMMA HeldType == \A u : Held(u) \in Nat /\ Held(u)' \in Nat
<1> SUFFICES ASSUME NEW u PROVE Held(u) \in Nat /\ Held(u)' \in Nat
  OBVIOUS
<1> DEFINE a == Cardinality(Holders(u))
           b == Cardinality(LateOnes(u))
           c == Cardinality(Holders(u)')
           d == Cardinality(LateOnes(u)')
<1>1. a \in Nat /\ b \in Nat
  BY HandlersFinite, FS_CardinalityType
<1>2. c \in Nat /\ d \in Nat
  <2> DEFINE H == Holders(u)'
             L == LateOnes(u)'
  <2>1. IsFiniteSet(H) /\ IsFiniteSet(L)
    BY HandlersFinite
  <2>2. Cardinality(H) \in Nat /\ Cardinality(L) \in Nat
    <3> HIDE DEF H, L
    <3> QED BY <2>1, FS_CardinalityType
  <2> QED BY <2>2
<1>3. Held(u) = (a + One(u \in pool) + One(Popped(u))) + (1 + 1) * b
  BY DEF Held, Places, DailyLimit
<1>4. Held(u)' = (c + One(u \in pool') + One(Popped(u)')) + (1 + 1) * d
  BY DEF Held, Places, DailyLimit, One
<1>5. /\ One(u \in pool) \in Nat /\ One(Popped(u)) \in Nat
      /\ One(u \in pool') \in Nat /\ One(Popped(u)') \in Nat
  BY DEF One
<1> HIDE DEF a, b, c, d
<1> QED BY <1>1, <1>2, <1>3, <1>4, <1>5

(* Whoever is late at midnight has a user as before.                       *)
LEMMA MidnightType == TypeOK /\ Midnight => TypeOK'
<1> SUFFICES ASSUME TypeOK, Midnight PROVE TypeOK'
  OBVIOUS
<1>1. PICK late \in SUBSET {c \in Calls : call[c].at = "charge"} :
        call' = [c \in Calls |-> IF c \in late
                                 THEN [call[c] EXCEPT !.at = "lateCharge"]
                                 ELSE call[c]]
  BY DEF Midnight
<1>2. /\ call' \in [Calls -> [at : CallAt, user : Users \cup {None}]]
      /\ \A c \in Calls : call'[c].at # "idle" => call'[c].user \in Users
  BY <1>1 DEF TypeOK, CallAt
<1>3. quota' \in [Users -> -1..DailyLimit] /\ \A u \in Users : quota'[u] <= 0
  BY DEF TypeOK, Midnight, DailyLimit
<1>4. \A u \in Users : Held(u)' - quota'[u] \in Nat
  <2> SUFFICES ASSUME NEW u \in Users PROVE Held(u)' - quota'[u] \in Nat
    OBVIOUS
  <2> DEFINE h == Held(u)'
             q == quota'[u]
  <2>2. h \in Nat /\ q \in Int /\ q <= 0
    BY <1>3, HeldType DEF DailyLimit
  <2> HIDE DEF h, q
  <2>3. h - q \in Nat
    BY <2>2
  <2> QED BY <2>3 DEF h, q
<1>5. carried' \in [Users -> Nat]
  BY <1>4 DEF Midnight
<1> QED BY <1>2, <1>3, <1>5 DEF TypeOK, SubTypeOK, Midnight

(* Every reachable state is well typed; in particular the quota counter    *)
(* never passes the daily limit, and is below zero by one at most.         *)
THEOREM TypeCorrect == Spec => []TypeOK
<1>1. Init => TypeOK
  BY MaxBatchAssumption
     DEF Init, SubInit, TypeOK, SubTypeOK, StreamState, StreamAt, UnusedStream,
         IdleCall, CallAt, PollAt, Plans, DailyLimit
<1>2. TypeOK /\ [Next]_vars => TypeOK'
  <2> SUFFICES ASSUME TypeOK, [Next]_vars PROVE TypeOK'
    OBVIOUS
  <2>1. ASSUME NEW c \in Calls, HandlerNext(c) PROVE TypeOK'
    BY <2>1, HandlerType
  <2>2. CASE PollNext
    BY <2>2, PollType
  <2>3. ASSUME NEW u \in Users, PlanNext(u) PROVE TypeOK'
    BY <2>3, PlanType
  <2>4. CASE Midnight
    BY <2>4, MidnightType
  <2>5. CASE Crash
    BY <2>5, DieType DEF Crash
  <2>6. CASE SubNext /\ UNCHANGED poolVars
    BY <2>6, SubNextType DEF TypeOK
  <2>7. CASE UNCHANGED vars
    BY <2>7 DEF TypeOK, SubTypeOK, vars
  <2> QED BY <2>1, <2>2, <2>3, <2>4, <2>5, <2>6, <2>7 DEF Next
<1> QED BY <1>1, <1>2, PTL DEF Spec

-----------------------------------------------------------------------------
(* One free match per day.                                                 *)

(* A user who counts as free all day is free wherever the gate may look.   *)
FreeEverywhere ==
    \A u \in Users : clean[u] => /\ mongoPlan[u] = "free"
                                 /\ planCache[u] # "premium"
                                 /\ planFill[u] # "premium"

DayInv == FreeEverywhere /\ PlacesArePaid

(* Nobody holds or was given more than before, less what the counter is up *)
(* by: what a step other than midnight must do to keep places paid.        *)
StillPaid ==
    \A u \in Users : clean[u] =>
        Held(u)' + matchedToday'[u] - quota'[u]
            <= Held(u) + matchedToday[u] - quota[u]

LEMMA PaidStep ==
    ASSUME TypeOK, TypeOK', PlacesArePaid, UNCHANGED <<clean, carried>>, StillPaid
    PROVE  PlacesArePaid'
<1> SUFFICES ASSUME NEW u \in Users, clean[u]
             PROVE  Held(u)' + matchedToday'[u] <= quota'[u] + carried[u]
  BY DEF PlacesArePaid
<1> DEFINE h == Held(u)
           i == Held(u)'
<1>1. h \in Nat /\ i \in Nat
  BY HeldType
<1>2. /\ i + matchedToday'[u] - quota'[u] <= h + matchedToday[u] - quota[u]
      /\ h + matchedToday[u] <= quota[u] + carried[u]
  BY DEF StillPaid, PlacesArePaid
<1>3. /\ matchedToday[u] \in Nat /\ matchedToday'[u] \in Nat
      /\ quota[u] \in Int /\ quota'[u] \in Int /\ carried[u] \in Nat
  BY DEF TypeOK, DailyLimit
<1> QED
  <2> HIDE DEF h, i
  <2>1. i + matchedToday'[u] <= quota'[u] + carried[u]
    BY <1>1, <1>2, <1>3
  <2> QED BY <2>1 DEF h, i

(* What handler c adds to what u holds.                                    *)
HandsOf(c, u) == One(c \in Holders(u)) + 2 * One(c \in LateOnes(u))

(* A step of one handler changes what u holds by what that handler holds,  *)
(* and by u's place in the pool.                                           *)
LEMMA HandlerHolds ==
    ASSUME NEW c \in Calls, NEW u,
           \A d \in Calls \ {c} : call'[d] = call[d],
           UNCHANGED <<batch, poll>>
    PROVE  \E k \in Nat :
             /\ Held(u) = k + HandsOf(c, u) + One(u \in pool)
             /\ Held(u)' = k + HandsOf(c, u)' + One(u \in pool')
<1> DEFINE a == Cardinality(Holders(u) \ {c})
           b == Cardinality(LateOnes(u) \ {c})
           p == One(Popped(u))
<1>1. a \in Nat /\ b \in Nat /\ p \in {0, 1}
  BY HandlersFinite, CountSplit, OneType
<1>2. /\ Cardinality(Holders(u)) = a + One(c \in Holders(u))
      /\ Cardinality(LateOnes(u)) = b + One(c \in LateOnes(u))
  BY HandlersFinite, CountSplit
<1>3. /\ Holders(u)' \ {c} = Holders(u) \ {c}
      /\ LateOnes(u)' \ {c} = LateOnes(u) \ {c}
      /\ One(Popped(u))' = p
  BY DEF Holders, LateOnes, Popped, One
<1>4. /\ Cardinality(Holders(u))' = a + One(c \in Holders(u))'
      /\ Cardinality(LateOnes(u))' = b + One(c \in LateOnes(u))'
  <2> DEFINE H == Holders(u)'
             L == LateOnes(u)'
  <2>2. IsFiniteSet(H) /\ IsFiniteSet(L)
    BY HandlersFinite
  <2>3. /\ Cardinality(H) = Cardinality(H \ {c}) + One(c \in H)
        /\ Cardinality(L) = Cardinality(L \ {c}) + One(c \in L)
    <3> HIDE DEF H, L
    <3> QED BY <2>2, CountSplit
  <2> QED BY <1>3, <2>3 DEF One
<1>5. /\ Held(u) = (a + b + b + p) + HandsOf(c, u) + One(u \in pool)
      /\ Held(u)' = (a + b + b + p) + HandsOf(c, u)' + One(u \in pool')
  <2> DEFINE h == One(c \in Holders(u))
             i == One(c \in LateOnes(u))
             j == One(u \in pool)
             x == One(c \in Holders(u))'
             y == One(c \in LateOnes(u))'
             z == One(u \in pool')
  <2>1. /\ h \in {0, 1} /\ i \in {0, 1} /\ j \in {0, 1}
        /\ x \in {0, 1} /\ y \in {0, 1} /\ z \in {0, 1}
    BY DEF One
  <2>2. Held(u) = ((a + h) + j + p) + (1 + 1) * (b + i)
    BY <1>2 DEF Held, Places, DailyLimit
  <2>3. Held(u)' = ((a + x) + z + p) + (1 + 1) * (b + y)
    BY <1>3, <1>4 DEF Held, Places, DailyLimit, One
  <2>4. HandsOf(c, u) = h + 2 * i /\ HandsOf(c, u)' = x + 2 * y
    BY DEF HandsOf, One
  <2> HIDE DEF a, b, p, h, i, j, x, y, z
  <2>5. /\ ((a + h) + j + p) + (1 + 1) * (b + i) = (a + b + b + p) + (h + 2 * i) + j
        /\ ((a + x) + z + p) + (1 + 1) * (b + y) = (a + b + b + p) + (x + 2 * y) + z
    BY <1>1, <2>1
  <2> QED BY <2>2, <2>3, <2>4, <2>5 DEF j, z
<1>6. a + b + b + p \in Nat
  <2> HIDE DEF a, b, p
  <2> QED BY <1>1
<1> QED BY <1>5, <1>6

(* A step of a Join or Leave keeps places paid: QuotaScript is the only    *)
(* way in, ZREM's answer guards the way out.                               *)
LEMMA HandlerPays ==
    ASSUME TypeOK, FreeEverywhere, NEW c \in Calls, HandlerNext(c)
    PROVE  StillPaid
<1> SUFFICES ASSUME NEW u \in Users, clean[u]
             PROVE  Held(u)' + matchedToday'[u] - quota'[u]
                      <= Held(u) + matchedToday[u] - quota[u]
  BY DEF StillPaid
<1>1. /\ \A d \in Calls \ {c} : call'[d] = call[d]
      /\ UNCHANGED <<batch, poll, matchedToday>>
  BY DEF HandlerNext, JoinReadUser, JoinReadCache, JoinFillCache, JoinCharge,
         ChargeUpTo, JoinChargeLate, JoinDupCheck, JoinAdd, JoinFails,
         LeaveRemove, LeaveRefund, Goto, Return, TypeOK
<1>2. PICK k \in Nat : /\ Held(u) = k + HandsOf(c, u) + One(u \in pool)
                       /\ Held(u)' = k + HandsOf(c, u)' + One(u \in pool')
  BY <1>1, HandlerHolds
<1>3. (* what the handler holds, and the pool, less the counter *)
      HandsOf(c, u)' + One(u \in pool') - quota'[u]
        <= HandsOf(c, u) + One(u \in pool) - quota[u]
  <2> DEFINE cu == call[c].user
  <2>0. /\ mongoPlan[u] = "free" /\ planCache[u] # "premium"
        /\ quota[u] \in -1..1 /\ call \in [Calls -> [at : CallAt, user : Users \cup {None}]]
        /\ quota \in [Users -> -1..1]
    BY DEF FreeEverywhere, TypeOK, DailyLimit
  <2> USE <2>0 DEF HandsOf, Holders, LateOnes, One, Goto, Return, IdleCall,
                   DailyLimit
  <2>1. ASSUME NEW v \in Users, JoinReadUser(c, v) PROVE <1>3!:
    BY <2>1 DEF JoinReadUser
  <2>2. CASE JoinReadCache(c)
    BY <2>2 DEF JoinReadCache
  <2>3. CASE JoinFillCache(c)
    BY <2>3 DEF JoinFillCache
  <2>4. CASE JoinCharge(c)
    BY <2>4 DEF JoinCharge, ChargeUpTo, QuotaCharged
  <2>5. CASE JoinChargeLate(c)
    BY <2>5 DEF JoinChargeLate, LateScript
  <2>6. CASE JoinDupCheck(c)
    BY <2>6 DEF JoinDupCheck
  <2>7. CASE JoinAdd(c)
    BY <2>7 DEF JoinAdd
  <2>8. CASE JoinFails(c)
    BY <2>8 DEF JoinFails, QuotaCharged, LateScript
  <2>9. ASSUME NEW v \in Users, LeaveRemove(c, v) PROVE <1>3!:
    BY <2>9 DEF LeaveRemove
  <2>10. CASE LeaveRefund(c)
    BY <2>10 DEF LeaveRefund
  <2> QED BY <2>1, <2>2, <2>3, <2>4, <2>5, <2>6, <2>7, <2>8, <2>9, <2>10
          DEF HandlerNext
<1> QED
  <2> DEFINE a == HandsOf(c, u)
             b == HandsOf(c, u)'
             i == One(u \in pool)
             j == One(u \in pool')
             m == matchedToday[u]
             q == quota[u]
             r == quota'[u]
  <2>1. a \in Int /\ b \in Int /\ i \in Int /\ j \in Int /\ m \in Int /\ q \in Int
    BY DEF HandsOf, One, TypeOK, DailyLimit
  <2>2. r \in Int
    <3>1. TypeOK'
      BY HandlerType
    <3> QED BY <3>1 DEF TypeOK, DailyLimit
  <2>3. matchedToday'[u] = m
    BY <1>1
  <2>4. b + j - r <= a + i - q
    BY <1>3
  <2> HIDE DEF a, b, i, j, m, q, r
  <2>5. (k + b + j) + m - r <= (k + a + i) + m - q
    BY <2>1, <2>2, <2>4
  <2>6. Held(u) = k + a + i /\ Held(u)' = k + b + j
    BY <1>2 DEF a, b, i, j
  <2> QED BY <2>3, <2>5, <2>6 DEF m, q, r

(* While no handler moves, what u holds changes by u's place in the pool   *)
(* and in the poller's hands.                                              *)
LEMMA OthersHold ==
    ASSUME NEW u, UNCHANGED call
    PROVE  \E k \in Nat :
             /\ Held(u) = k + One(u \in pool) + One(Popped(u))
             /\ Held(u)' = k + One(u \in pool') + One(Popped(u)')
<1> DEFINE a == Cardinality(Holders(u))
           b == Cardinality(LateOnes(u))
           i == One(u \in pool)
           j == One(u \in pool')
           p == One(Popped(u))
           q == One(Popped(u)')
<1>1. a \in Nat /\ b \in Nat
  BY HandlersFinite, FS_CardinalityType
<1>2. i \in {0, 1} /\ j \in {0, 1} /\ p \in {0, 1} /\ q \in {0, 1}
  BY DEF One
<1>3. Held(u) = (a + i + p) + (1 + 1) * b
  BY DEF Held, Places, DailyLimit
<1>4. Held(u)' = (a + j + q) + (1 + 1) * b
  BY DEF Held, Places, DailyLimit, Holders, LateOnes, One
<1>5. a + b + b \in Nat /\ Held(u) = (a + b + b) + i + p
                        /\ Held(u)' = (a + b + b) + j + q
  <2> HIDE DEF a, b, i, j, p, q
  <2> QED BY <1>1, <1>2, <1>3, <1>4
<1> QED BY <1>5

(* The death of the process only loses places.                             *)
LEMMA DiePays == TypeOK /\ Die => StillPaid
<1> SUFFICES ASSUME TypeOK, Die, NEW u \in Users
             PROVE  Held(u)' + matchedToday'[u] - quota'[u]
                      <= Held(u) + matchedToday[u] - quota[u]
  BY DEF StillPaid
<1> DEFINE a == Cardinality(Holders(u))
           b == Cardinality(LateOnes(u))
           i == One(u \in pool)
           p == One(Popped(u))
           m == matchedToday[u]
           q == quota[u]
<1>1. a \in Nat /\ b \in Nat /\ i \in {0, 1} /\ p \in {0, 1}
  BY HandlersFinite, FS_CardinalityType, OneType
<1>2. Held(u) = (a + i + p) + (1 + 1) * b
  BY DEF Held, Places, DailyLimit
<1>3. Held(u)' = (0 + i + 0) + (1 + 1) * 0
  <2>1. Holders(u)' = {} /\ LateOnes(u)' = {}
    BY DEF Die, Holders, LateOnes, IdleCall
  <2>2. Cardinality({}) = 0
    BY FS_EmptySet
  <2>3. One(u \in pool)' = i /\ One(Popped(u))' = 0
    BY DEF Die, Popped, One
  <2> QED BY <2>1, <2>2, <2>3 DEF Held, Places, DailyLimit
<1>4. m \in Int /\ q \in Int /\ matchedToday'[u] = m /\ quota'[u] = q
  BY DEF Die, TypeOK, DailyLimit
<1> QED
  <2> HIDE DEF a, b, i, p, m, q
  <2>1. (0 + i + 0) + (1 + 1) * 0 + m - q <= (a + i + p) + (1 + 1) * b + m - q
    BY <1>1, <1>4
  <2> QED BY <1>2, <1>3, <1>4, <2>1 DEF m, q

(* The poller moves places from the pool to its hands and to a room.       *)
LEMMA PollPays == TypeOK /\ TypeOK' /\ PollNext => StillPaid
<1> SUFFICES ASSUME TypeOK, TypeOK', PollNext PROVE StillPaid
  OBVIOUS
<1>10. CASE PollSendPanics
  BY <1>10, DiePays DEF PollSendPanics
<1>0. ASSUME ~ PollSendPanics, NEW u \in Users
      PROVE  Held(u)' + matchedToday'[u] - quota'[u]
               <= Held(u) + matchedToday[u] - quota[u]
  <2>0. UNCHANGED <<call, quota>>
    BY <1>0 DEF PollNext, PollSize, PollPop, Pop, PollLock, PollExec, PollPutBack,
           PollPublish, PollNotifyLoad, PollNotifySend, PollDone, PollPopFails
  <2>1. PICK k \in Nat : /\ Held(u) = k + One(u \in pool) + One(Popped(u))
                         /\ Held(u)' = k + One(u \in pool') + One(Popped(u)')
    BY <2>0, OthersHold
  <2>2. /\ matchedToday \in [Users -> Nat] /\ matchedToday[u] \in Nat
        /\ matchedToday'[u] \in Nat
    BY DEF TypeOK
  <2>3. One(u \in pool') + One(Popped(u)') + matchedToday'[u]
          <= One(u \in pool) + One(Popped(u)) + matchedToday[u]
    <3> USE <2>2 DEF One, Popped
    <3>1. CASE PollSize
      BY <3>1 DEF PollSize
    <3>2. CASE PollPop
      BY <3>2 DEF PollPop, Pop
    <3>3. CASE PollLock
      BY <3>3 DEF PollLock
    <3>4. CASE PollExec
      BY <3>4 DEF PollExec
    <3>5. CASE PollPutBack
      BY <3>5 DEF PollPutBack
    <3>6. CASE PollPublish
      BY <3>6 DEF PollPublish
    <3>7. CASE PollNotifyLoad
      BY <3>7 DEF PollNotifyLoad
    <3>8. CASE PollNotifySend
      BY <3>8 DEF PollNotifySend
    <3>9. CASE PollDone
      BY <3>9 DEF PollDone
    <3>11. CASE PollPopFails
      BY <3>11 DEF PollPopFails
    <3> QED BY <1>0, <3>1, <3>2, <3>3, <3>4, <3>5, <3>6, <3>7, <3>8, <3>9,
               <3>11 DEF PollNext
  <2> DEFINE i == One(u \in pool)
             j == One(u \in pool')
             p == One(Popped(u))
             q == One(Popped(u)')
             m == matchedToday[u]
             n == matchedToday'[u]
             c == quota[u]
  <2>4. /\ i \in Int /\ j \in Int /\ p \in Int /\ q \in Int /\ c \in Int
        /\ m \in Int /\ n \in Int
    BY <2>2 DEF One, TypeOK, DailyLimit
  <2>5. j + q + n <= i + p + m
    BY <2>3
  <2>6. (k + j + q) + n - c <= (k + i + p) + m - c
    <3> HIDE DEF i, j, p, q, m, n, c
    <3> QED BY <2>4, <2>5
  <2>7. Held(u)' + n - c <= Held(u) + m - c
    BY <2>1, <2>6
  <2> QED BY <2>0, <2>7
<1> QED BY <1>0, <1>10 DEF StillPaid

(* A step that leaves alone what is held, counted and matched.             *)
LEMMA NothingMoves ==
    ASSUME TypeOK, UNCHANGED <<call, pool, poll, batch, matchedToday, quota>>
    PROVE  StillPaid
<1> SUFFICES ASSUME NEW u \in Users
             PROVE  Held(u)' + matchedToday'[u] - quota'[u]
                      <= Held(u) + matchedToday[u] - quota[u]
  BY DEF StillPaid
<1>1. Held(u)' = Held(u) /\ Held(u) \in Nat
  BY HeldType DEF Held, Places, Holders, LateOnes, Popped
<1>2. matchedToday[u] \in Nat /\ quota[u] \in Int
  BY DEF TypeOK, DailyLimit
<1> QED
  <2> DEFINE h == Held(u)
  <2>1. h \in Nat
    BY <1>1
  <2>2. h + matchedToday[u] - quota[u] <= h + matchedToday[u] - quota[u]
    <3> HIDE DEF h
    <3> QED BY <1>2, <2>1
  <2> QED BY <1>1, <2>2

(* Whoever is clean is free: a plan that changes ends it, and a copy of    *)
(* the plan is a copy of what MongoDB has or had.                          *)
LEMMA FreeStep ==
    ASSUME TypeOK, FreeEverywhere, [Next]_vars
    PROVE  FreeEverywhere'
<1> USE DEF FreeEverywhere, TypeOK, Plans
<1>1. ASSUME NEW c \in Calls, HandlerNext(c) PROVE FreeEverywhere'
  BY <1>1 DEF HandlerNext, JoinReadUser, JoinReadCache, JoinFillCache,
       JoinCharge, ChargeUpTo, JoinChargeLate, JoinDupCheck, JoinAdd, JoinFails,
       LeaveRemove, LeaveRefund
<1>2. CASE PollNext
  BY <1>2 DEF PollNext, PollSize, PollPop, Pop, PollLock, PollExec, PollPutBack,
       PollPublish, PollNotifyLoad, PollNotifySend, PollDone, PollPopFails,
       PollSendPanics, Die
<1>3. ASSUME NEW u \in Users, PlanNext(u) PROVE FreeEverywhere'
  <2>1. CASE PlanChange(u)
    BY <2>1 DEF PlanChange
  <2>2. CASE PlanDropCache(u)
    BY <2>2, NonePlanAssumption DEF PlanDropCache
  <2>3. CASE PlanFillRead(u)
    BY <2>3 DEF PlanFillRead
  <2>4. CASE PlanFillWrite(u)
    BY <2>4, NonePlanAssumption DEF PlanFillWrite
  <2>5. CASE PlanCacheExpires(u)
    BY <2>5, NonePlanAssumption DEF PlanCacheExpires
  <2> QED BY <1>3, <2>1, <2>2, <2>3, <2>4, <2>5 DEF PlanNext
<1>4. CASE Midnight
  BY <1>4 DEF Midnight
<1>5. CASE Crash
  BY <1>5 DEF Crash, Die
<1>6. CASE SubNext /\ UNCHANGED poolVars
  BY <1>6
<1>7. CASE UNCHANGED vars
  BY <1>7 DEF vars
<1> QED BY <1>1, <1>2, <1>3, <1>4, <1>5, <1>6, <1>7 DEF Next

(* A day begins with as much carried over as is held.                      *)
LEMMA MidnightDay == TypeOK /\ Midnight => PlacesArePaid'
<1> SUFFICES ASSUME TypeOK, Midnight, NEW u \in Users
             PROVE  Held(u)' + matchedToday'[u] <= quota'[u] + carried'[u]
  BY DEF PlacesArePaid
<1> DEFINE h == Held(u)'
           q == quota'[u]
<1>1. h \in Nat
  BY HeldType
<1>2. q \in Int /\ matchedToday'[u] = 0
  BY DEF Midnight, TypeOK, DailyLimit
<1>3. carried'[u] = h - q
  BY DEF Midnight
<1>4. h + 0 <= q + (h - q)
  <2> HIDE DEF h, q
  <2> QED BY <1>1, <1>2
<1> QED BY <1>2, <1>3, <1>4

(* The invariant holds in every reachable state.                           *)
LEMMA DayInvariant == Spec => []DayInv
<1>1. Init => DayInv
  <2> SUFFICES ASSUME Init, NEW u \in Users
               PROVE  /\ clean[u] => /\ mongoPlan[u] = "free"
                                     /\ planCache[u] # "premium"
                                     /\ planFill[u] # "premium"
                      /\ Held(u) + matchedToday[u] <= quota[u] + carried[u]
    BY DEF DayInv, FreeEverywhere, PlacesArePaid
  <2>1. clean[u] => mongoPlan[u] = "free"
    BY DEF Init
  <2>2. planCache[u] # "premium" /\ planFill[u] # "premium"
    BY NonePlanAssumption DEF Init, Plans
  <2>3. Held(u) = 0
    <3>1. Holders(u) = {} /\ LateOnes(u) = {}
      BY DEF Init, Holders, LateOnes, IdleCall
    <3>2. One(u \in pool) = 0 /\ One(Popped(u)) = 0
      BY DEF Init, One, Popped
    <3> QED BY <3>1, <3>2, FS_EmptySet DEF Held, Places, DailyLimit
  <2> QED BY <2>1, <2>2, <2>3 DEF Init
<1>2. TypeOK /\ TypeOK' /\ DayInv /\ [Next]_vars => DayInv'
  <2> SUFFICES ASSUME TypeOK, TypeOK', DayInv, [Next]_vars PROVE PlacesArePaid'
    BY FreeStep DEF DayInv
  <2> USE DEF DayInv
  <2>1. ASSUME NEW c \in Calls, HandlerNext(c) PROVE PlacesArePaid'
    <3>1. UNCHANGED <<clean, carried>>
      BY <2>1 DEF HandlerNext, JoinReadUser, JoinReadCache, JoinFillCache,
           JoinCharge, ChargeUpTo, JoinChargeLate, JoinDupCheck, JoinAdd,
           JoinFails, LeaveRemove, LeaveRefund
    <3> QED BY <2>1, <3>1, HandlerPays, PaidStep
  <2>2. CASE PollNext
    <3>1. UNCHANGED <<clean, carried>>
      BY <2>2 DEF PollNext, PollSize, PollPop, Pop, PollLock, PollExec,
           PollPutBack, PollPublish, PollNotifyLoad, PollNotifySend, PollDone,
           PollPopFails, PollSendPanics, Die
    <3> QED BY <2>2, <3>1, PollPays, PaidStep
  <2>3. ASSUME NEW u \in Users, PlanNext(u) PROVE PlacesArePaid'
    <3>1. UNCHANGED <<call, pool, poll, batch, matchedToday, quota, carried>>
      BY <2>3 DEF PlanNext, PlanChange, PlanDropCache, PlanFillRead,
           PlanFillWrite, PlanCacheExpires
    <3>2. CASE UNCHANGED clean
      BY <3>1, <3>2, NothingMoves, PaidStep
    <3>3. CASE clean' = [clean EXCEPT ![u] = FALSE]
      <4> SUFFICES ASSUME NEW v \in Users, clean'[v]
                   PROVE  Held(v)' + matchedToday'[v] <= quota'[v] + carried'[v]
        BY DEF PlacesArePaid
      <4>1. clean[v]
        BY <3>3 DEF TypeOK
      <4>2. Held(v)' = Held(v)
        BY <3>1 DEF Held, Places, Holders, LateOnes, Popped
      <4> QED BY <3>1, <4>1, <4>2 DEF PlacesArePaid
    <3> QED BY <2>3, <3>2, <3>3 DEF PlanNext, PlanChange, PlanDropCache,
             PlanFillRead, PlanFillWrite, PlanCacheExpires
  <2>4. CASE Midnight
    BY <2>4, MidnightDay
  <2>5. CASE Crash
    <3>1. UNCHANGED <<clean, carried>>
      BY <2>5 DEF Crash, Die
    <3> QED BY <2>5, <3>1, DiePays, PaidStep DEF Crash
  <2>6. CASE SubNext /\ UNCHANGED poolVars
    BY <2>6, NothingMoves, PaidStep
  <2>7. CASE UNCHANGED vars
    BY <2>7, NothingMoves, PaidStep DEF vars
  <2> QED BY <2>1, <2>2, <2>3, <2>4, <2>5, <2>6, <2>7 DEF Next
<1> QED BY <1>1, <1>2, TypeCorrect, PTL DEF Spec

(* What a user who was free all day holds and got is paid for: by the      *)
(* counter, or carried over from before midnight; for any number of users  *)
(* and concurrent requests, with lost replies, crashes and midnights.      *)
THEOREM PlacesPaid == Spec => []PlacesArePaid
<1> QED BY DayInvariant, PTL DEF DayInv

(* Hence such a user is put into at most DailyLimit matches that day and   *)
(* as many as midnight carried over: whoever neither held a place nor had  *)
(* a script under way at midnight, into DailyLimit.                        *)
THEOREM ChargeSafety == Spec => []FreeMatchesPerDay
<1>1. TypeOK /\ PlacesArePaid => FreeMatchesPerDay
  <2> SUFFICES ASSUME TypeOK, PlacesArePaid, NEW u \in Users, clean[u]
               PROVE  matchedToday[u] <= DailyLimit + carried[u]
    BY DEF FreeMatchesPerDay
  <2> DEFINE h == Held(u)
             m == matchedToday[u]
             q == quota[u]
             k == carried[u]
  <2>1. h \in Nat /\ m \in Nat /\ k \in Nat /\ q \in -1..1
    BY HeldType DEF TypeOK, DailyLimit
  <2>2. h + m <= q + k
    BY DEF PlacesArePaid
  <2>3. m <= 1 + k
    <3> HIDE DEF h, m, q, k
    <3> QED BY <2>1, <2>2
  <2> QED BY <2>3 DEF DailyLimit
<1> QED BY <1>1, PlacesPaid, TypeCorrect, PTL

-----------------------------------------------------------------------------
(* Rooms have opponents.                                                   *)

(* What the poller holds between ZPOPMIN and EXEC makes a room.            *)
RoomInv ==
    /\ RoomHasOpponents
    /\ poll \in {"lock", "exec"} => Cardinality(batch) \in 2..MaxBatch

(* It holds in every reachable state: players leave the pool between the   *)
(* count and the pop, and what is left of them then is looked at again.    *)
LEMMA RoomsInvariant == Spec => []RoomInv
<1>1. Init => RoomInv
  BY DEF Init, RoomInv, RoomHasOpponents
<1>2. TypeOK /\ RoomInv /\ [Next]_vars => RoomInv'
  <2> SUFFICES ASSUME TypeOK, RoomInv, [Next]_vars PROVE RoomInv'
    OBVIOUS
  <2> USE DEF RoomInv, RoomHasOpponents
  <2>1. CASE UNCHANGED <<rooms, poll, batch>>
    BY <2>1
  <2>2. CASE PollPop
    <3>1. PICK S \in SUBSET pool :
            /\ Cardinality(S) = Least(Cardinality(pool), want)
            /\ \/ poll' = "sleep"
               \/ poll' = "lock" /\ batch' = S /\ ~ Cardinality(S) < 2
      BY <2>2 DEF PollPop, Pop
    <3>2. Cardinality(pool) \in Nat /\ want \in 0..MaxBatch
      BY UsersAssumption, FS_Subset, FS_CardinalityType DEF TypeOK
    <3>3. Cardinality(S) \in 0..MaxBatch
      BY <3>1, <3>2, LeastBound, MaxBatchAssumption
    <3> QED BY <2>2, <3>1, <3>3, MaxBatchAssumption
            DEF PollPop, Pop
  <2>3. CASE PollLock
    BY <2>3 DEF PollLock
  <2>4. CASE PollExec
    BY <2>4 DEF PollExec, TypeOK
  <2>5. CASE /\ UNCHANGED rooms
             /\ poll' \in {"sleep", "pop", "publish", "notify", "send", "putBack"}
    BY <2>5
  <2>6. CASE PollNext /\ ~ PollPop /\ ~ PollLock /\ ~ PollExec
    BY <2>5, <2>6
       DEF PollNext, PollSize, PollPopFails, PollPutBack, PollPublish,
           PollNotifyLoad, PollNotifySend, PollDone, PollSendPanics, Die,
           TypeOK
  <2>7. ASSUME NEW c \in Calls, HandlerNext(c) PROVE RoomInv'
    BY <2>1, <2>7
       DEF HandlerNext, JoinReadUser, JoinReadCache, JoinFillCache, JoinCharge,
           ChargeUpTo, JoinChargeLate, JoinDupCheck, JoinAdd, JoinFails, LeaveRemove,
           LeaveRefund
  <2>8. ASSUME NEW u \in Users, PlanNext(u) PROVE RoomInv'
    BY <2>1, <2>8 DEF PlanNext, PlanChange, PlanDropCache, PlanFillRead,
                      PlanFillWrite, PlanCacheExpires
  <2>9. CASE Midnight
    BY <2>1, <2>9 DEF Midnight
  <2>10. CASE Crash
    BY <2>5, <2>10 DEF Crash, Die
  <2>11. CASE SubNext /\ UNCHANGED poolVars
    BY <2>1, <2>11
  <2>12. CASE UNCHANGED vars
    BY <2>1, <2>12 DEF vars
  <2> QED BY <2>2, <2>3, <2>4, <2>6, <2>7, <2>8, <2>9, <2>10, <2>11, <2>12
          DEF Next
<1> QED BY <1>1, <1>2, TypeCorrect, PTL DEF Spec

(* Every room has at least two and at most MaxBatch players, although      *)
(* players leave the pool between the count and the pop.                   *)
THEOREM RoomSafety == Spec => []RoomHasOpponents
  BY RoomsInvariant, PTL DEF RoomInv
-----------------------------------------------------------------------------
(* Channels are closed once.                                               *)

(* A channel that is stored belongs to a handler of that user that has     *)
(* stored it and not yet deleted it; one that is about to be closed was    *)
(* stored, and is no longer.                                               *)
OpenUntilStored ==
    \A s \in Streams :
        stream[s].at \in {"unused", "close", "store"} => ~ stream[s].closed

StoredIsOpen ==
    \A u \in Users, s \in Streams : subscribers[u] = s =>
        /\ stream[s].user = u /\ ~ stream[s].closed
        /\ stream[s].at \in {"wait", "return"}

OldWasStored ==
    \A s, o \in Streams : stream[s].at = "close" /\ stream[s].old = o =>
        /\ stream[o].at \in {"wait", "return", "gone"} /\ ~ stream[o].closed
        /\ \A u \in Users : subscribers[u] # o
        /\ \A t \in Streams \ {s} : stream[t].at = "close" => stream[t].old # o

ClosesAnother ==
    \A s \in Streams : stream[s].at = "close" => stream[s].old \in Streams

ChannelInv == OpenUntilStored /\ StoredIsOpen /\ OldWasStored /\ ClosesAnother

USE DEF OpenUntilStored, StoredIsOpen, OldWasStored, ClosesAnother

(* ChannelInv says it of every stream instead of the one in the map.       *)
LEMMA ChannelInvIsSafe == SubTypeOK /\ ChannelInv => ChannelSafety
  BY DEF SubTypeOK, ChannelInv, ChannelSafety, RegisteredChannelOpen, ClosedOnce

(* A step that changes at most what is buffered keeps ChannelInv.          *)
LEMMA ChannelFrame ==
    ASSUME ChannelInv, UNCHANGED subscribers,
           \A s \in Streams : /\ stream'[s].at = stream[s].at
                              /\ stream'[s].user = stream[s].user
                              /\ stream'[s].old = stream[s].old
                              /\ stream'[s].closed = stream[s].closed
    PROVE  ChannelInv'
  BY DEF ChannelInv

(* A step of a handler of SubscribeToMatch.  LoadAndDelete gives the old   *)
(* channel to one handler only.                                            *)
LEMMA SubChannel == SubTypeOK /\ ChannelInv /\ SubNext => ChannelInv'
<1> SUFFICES ASSUME SubTypeOK, ChannelInv, NEW s \in Streams,
                    \/ \E u \in Users : SubscribeOpen(s, u)
                    \/ SubscribeCloseOld(s)
                    \/ SubscribeStore(s)
                    \/ SubscribeDeliver(s)
                    \/ SubscribeChannelClosed(s)
                    \/ SubscribeClientGone(s)
                    \/ SubscribeReturn(s)
             PROVE  ChannelInv'
  BY DEF SubNext
<1>a. /\ subscribers \in [Users -> Streams \cup {None}]
      /\ None \notin Streams /\ None \notin Users
  BY NoneAssumption DEF SubTypeOK
<1> USE DEF ChannelInv
<1>1. ASSUME NEW u \in Users, SubscribeOpen(s, u) PROVE ChannelInv'
  <2> DEFINE o == subscribers[u]
  <2>1. /\ stream[s].at = "unused"
        /\ \A t \in Streams \ {s} : stream'[t] = stream[t]
        /\ stream'[s].user = u /\ stream'[s].old = o
        /\ stream'[s].closed = stream[s].closed
        /\ stream'[s].at = IF o = None THEN "store" ELSE "close"
        /\ subscribers' = [subscribers EXCEPT ![u] = None]
    <3> DEFINE r == [stream[s] EXCEPT !.user = u, !.old = o,
                          !.at = IF o = None THEN "store" ELSE "close"]
    <3>1. /\ stream[s].at = "unused"
          /\ stream' = [stream EXCEPT ![s] = r]
          /\ subscribers' = [subscribers EXCEPT ![u] = None]
      BY <1>1 DEF SubscribeOpen
    <3>2. stream \in [Streams -> StreamState]
      BY DEF SubTypeOK
    <3>3. /\ r.user = u /\ r.old = o /\ r.closed = stream[s].closed
          /\ r.at = IF o = None THEN "store" ELSE "close"
      BY <3>2 DEF StreamState
    <3> HIDE DEF r, ChannelInv
    <3> QED BY <3>1, <3>2, <3>3
  <2>2. \A v \in Users : subscribers[v] # s
    BY <2>1
  <2>3. CASE o = None
    BY <1>a, <2>1, <2>2, <2>3
  <2>4. CASE o # None
    BY <1>a, <2>1, <2>2, <2>4
  <2> QED BY <2>3, <2>4
<1>2. CASE SubscribeCloseOld(s)
  <2> DEFINE o == stream[s].old
  <2>1. /\ stream[s].at = "close" /\ o \in Streams /\ o # s
        /\ stream[o].at \in {"wait", "return", "gone"}
    BY <1>2 DEF SubscribeCloseOld
  <2>2. /\ \A t \in Streams : /\ stream'[t].user = stream[t].user
                               /\ stream'[t].old = stream[t].old
        /\ \A t \in Streams \ {s} : stream'[t].at = stream[t].at
        /\ stream'[s].at = "store"
        /\ \A t \in Streams \ {o} : stream'[t].closed = stream[t].closed
        /\ UNCHANGED subscribers
    <3> DEFINE f == [stream EXCEPT ![s].at = "store"]
    <3>1. /\ stream' = [f EXCEPT ![o].closed = TRUE]
          /\ UNCHANGED subscribers
      BY <1>2 DEF SubscribeCloseOld
    <3>2. stream \in [Streams -> StreamState]
      BY DEF SubTypeOK
    <3>3. /\ f \in [Streams -> StreamState] /\ f[s].at = "store"
          /\ \A t \in Streams \ {s} : f[t] = stream[t]
          /\ f[s].user = stream[s].user /\ f[s].old = stream[s].old
          /\ f[s].closed = stream[s].closed
      BY <3>2 DEF StreamState, StreamAt
    <3>4. /\ \A t \in Streams \ {o} : stream'[t] = f[t]
          /\ stream'[o].at = f[o].at /\ stream'[o].user = f[o].user
          /\ stream'[o].old = f[o].old
      <4> HIDE DEF f, ChannelInv
      <4> QED BY <2>1, <3>1, <3>3 DEF StreamState
    <3>5. stream'[s] = f[s]
      BY <2>1, <3>4
    <3>6. /\ stream'[s].user = stream[s].user /\ stream'[s].old = stream[s].old
          /\ stream'[s].at = "store"
      BY <3>3, <3>5
    <3>7. ASSUME NEW t \in Streams \ {s}
          PROVE  /\ stream'[t].user = stream[t].user
                 /\ stream'[t].old = stream[t].old /\ stream'[t].at = stream[t].at
      <4> HIDE DEF f, ChannelInv
      <4> QED BY <3>3, <3>4
    <3>8. ASSUME NEW t \in Streams \ {o} PROVE stream'[t].closed = stream[t].closed
      <4>1. f[t].closed = stream[t].closed
        <5> HIDE DEF f, ChannelInv
        <5> QED BY <3>3
      <4> QED BY <3>4, <4>1
    <3> HIDE DEF f, ChannelInv
    <3> QED BY <3>1, <3>6, <3>7, <3>8
  <2> QED BY <1>a, <2>1, <2>2
<1>3. CASE SubscribeStore(s)
  <2>1. /\ stream[s].at = "store" /\ ~ stream[s].closed
        /\ \A t \in Streams \ {s} : stream'[t] = stream[t]
        /\ stream'[s].at = "wait" /\ stream'[s].user = stream[s].user
        /\ stream'[s].closed = stream[s].closed
        /\ subscribers' = [subscribers EXCEPT ![stream[s].user] = s]
    BY <1>3 DEF SubscribeStore, SubTypeOK, StreamState
  <2> QED BY <1>a, <2>1
<1>4. CASE SubscribeDeliver(s)
  BY <1>4, ChannelFrame DEF SubscribeDeliver, SubTypeOK, StreamState
<1>5. CASE SubscribeChannelClosed(s) \/ SubscribeClientGone(s)
  <2>1. /\ stream[s].at = "wait" /\ UNCHANGED subscribers
        /\ \A t \in Streams \ {s} : stream'[t] = stream[t]
        /\ stream'[s].at = "return" /\ stream'[s].user = stream[s].user
        /\ stream'[s].closed = stream[s].closed
    BY <1>5 DEF SubscribeChannelClosed, SubscribeClientGone, SubTypeOK, StreamState
  <2> QED BY <1>a, <2>1
<1>6. CASE SubscribeReturn(s)
  <2>1. /\ stream[s].at = "return"
        /\ \A t \in Streams \ {s} : stream'[t] = stream[t]
        /\ stream'[s].at = "gone" /\ stream'[s].user = stream[s].user
        /\ stream'[s].closed = stream[s].closed
        /\ subscribers' = [subscribers EXCEPT ![stream[s].user] = None]
    BY <1>6 DEF SubscribeReturn, SubTypeOK, StreamState
  <2> QED BY <1>a, <2>1
<1> HIDE DEF ChannelInv
<1> QED BY <1>1, <1>2, <1>3, <1>4, <1>5, <1>6

(* After the process died nothing is stored and nobody is to close.        *)
LEMMA DieChannel == SubTypeOK /\ ChannelInv /\ SubCrash => ChannelInv'
<1> SUFFICES ASSUME SubTypeOK, ChannelInv, SubCrash PROVE ChannelInv'
  OBVIOUS
<1>1. \A u \in Users : subscribers'[u] = None
  BY DEF SubCrash
<1>2. \A s \in Streams :
        \/ stream'[s] = stream[s] /\ stream[s].at \in {"unused", "gone"}
        \/ stream'[s].at = "dead"
  BY DEF SubCrash, UnusedStream
<1> QED BY <1>1, <1>2, NoneAssumption
        DEF ChannelInv

(* It holds in every reachable state; outside SubscribeToMatch only the    *)
(* poller's send and the death of the process touch the streams.           *)
LEMMA ChannelsInvariant == Spec => []ChannelInv
<1>1. Init => ChannelInv
  BY NoneAssumption
     DEF Init, SubInit, UnusedStream, ChannelInv
<1>2. TypeOK /\ ChannelInv /\ [Next]_vars => ChannelInv'
  <2> SUFFICES ASSUME TypeOK, ChannelInv, [Next]_vars PROVE ChannelInv'
    OBVIOUS
  <2>1. CASE UNCHANGED <<subscribers, stream>>
    BY <2>1, ChannelFrame
  <2>2. CASE PollNotifySend
    <3>1. UNCHANGED subscribers /\ chan \in Streams
      BY <2>2 DEF PollNotifySend, TypeOK
    <3> DEFINE filled == [stream EXCEPT ![chan].buf = Append(@, room)]
    <3>2. stream' = stream \/ stream' = filled
      BY <2>2 DEF PollNotifySend, SendOrDrop
    <3>3. \A s \in Streams : /\ filled[s].at = stream[s].at
                             /\ filled[s].user = stream[s].user
                             /\ filled[s].old = stream[s].old
                             /\ filled[s].closed = stream[s].closed
      BY <3>1 DEF TypeOK, SubTypeOK, StreamState
    <3> QED BY <3>1, <3>2, <3>3, ChannelFrame
  <2>3. CASE Die
    BY <2>3, DieChannel DEF Die, TypeOK
  <2>4. CASE PollNext /\ ~ PollNotifySend
    BY <2>1, <2>3, <2>4
       DEF PollNext, PollSize, PollPop, Pop, PollPopFails, PollLock, PollExec,
           PollPutBack, PollPublish, PollNotifyLoad, PollDone, PollSendPanics
  <2>5. ASSUME NEW c \in Calls, HandlerNext(c) PROVE ChannelInv'
    BY <2>1, <2>5
       DEF HandlerNext, JoinReadUser, JoinReadCache, JoinFillCache, JoinCharge,
           ChargeUpTo, JoinChargeLate, JoinDupCheck, JoinAdd, JoinFails, LeaveRemove,
           LeaveRefund
  <2>6. ASSUME NEW u \in Users, PlanNext(u) PROVE ChannelInv'
    BY <2>1, <2>6 DEF PlanNext, PlanChange, PlanDropCache, PlanFillRead,
                      PlanFillWrite, PlanCacheExpires
  <2>7. CASE Midnight
    BY <2>1, <2>7 DEF Midnight
  <2>8. CASE Crash
    BY <2>3, <2>8 DEF Crash
  <2>9. CASE SubNext /\ UNCHANGED poolVars
    BY <2>9, SubChannel DEF TypeOK
  <2>10. CASE UNCHANGED vars
    BY <2>1, <2>10 DEF vars
  <2> QED BY <2>2, <2>4, <2>5, <2>6, <2>7, <2>8, <2>9, <2>10 DEF Next
<1> QED BY <1>1, <1>2, TypeCorrect, PTL DEF Spec

(* However many streams a user opens at once, and whenever they end, no    *)
(* channel is closed twice, which would panic, and a channel that the      *)
(* sender may load is open when it is loaded.                              *)
THEOREM ChannelsSafe == Spec => []ChannelSafety
<1>1. TypeOK /\ ChannelInv => ChannelSafety
  BY ChannelInvIsSafe DEF TypeOK
<1> QED BY <1>1, ChannelsInvariant, TypeCorrect, PTL
-----------------------------------------------------------------------------
(* Only written rooms are announced.                                       *)

(* What is on its way to a client.  A stream's user is a player of every   *)
(* room in its channel; the poller's batch are players of the room that    *)
(* is announced, and the channel it has loaded is one of them's.           *)
BuffersAreWritten ==
    \A s \in Streams :
        /\ stream[s].at = "unused" => stream[s].buf = <<>>
        /\ \A i \in DOMAIN stream[s].buf :
             stream[s].user \in rooms[stream[s].buf[i]]

AnnouncedIsWritten ==
    /\ poll = "exec" => rooms[room] = {}
    /\ poll \in {"publish", "notify", "send"} =>
         rooms[room] # {} /\ batch \subseteq rooms[room]
    /\ poll = "send" =>
         stream[chan].at # "unused" /\ stream[chan].user \in rooms[room]

WrittenInv == AnnouncedRoomsWritten /\ BuffersAreWritten /\ AnnouncedIsWritten

(* A step that touches neither rooms, nor streams, nor the poller.         *)
LEMMA WrittenFrame ==
    ASSUME WrittenInv,
           UNCHANGED <<rooms, matchCreated, heard, stream, poll, room, batch, chan>>
    PROVE  WrittenInv'
  BY DEF WrittenInv, AnnouncedRoomsWritten, BuffersAreWritten, AnnouncedIsWritten

(* A channel loses its first event, or all.                                *)
LEMMA TailWritten ==
    ASSUME NEW b \in Seq(Rooms), b # <<>>, NEW u, NEW written \in [Rooms -> SUBSET Users],
           \A i \in DOMAIN b : u \in written[b[i]]
    PROVE  /\ u \in written[Head(b)]
           /\ \A i \in DOMAIN Tail(b) : u \in written[Tail(b)[i]]
<1>1. 1 \in DOMAIN b /\ Head(b) = b[1]
  OBVIOUS
<1>2. \A i \in DOMAIN Tail(b) : i + 1 \in DOMAIN b /\ Tail(b)[i] = b[i + 1]
  OBVIOUS
<1> QED BY <1>1, <1>2

(* A channel takes an event.                                               *)
LEMMA AppendWritten ==
    ASSUME NEW b \in Seq(Rooms), NEW r \in Rooms, NEW u,
           NEW written \in [Rooms -> SUBSET Users], u \in written[r],
           \A i \in DOMAIN b : u \in written[b[i]]
    PROVE  \A i \in DOMAIN Append(b, r) : u \in written[Append(b, r)[i]]
  OBVIOUS

(* A step of a handler of SubscribeToMatch tells its user what was in the  *)
(* channel, and nothing else.                                              *)
LEMMA SubWritten ==
    ASSUME TypeOK, WrittenInv, SubNext, UNCHANGED poolVars
    PROVE  WrittenInv'
<1> SUFFICES ASSUME NEW s \in Streams,
                    \/ \E u \in Users : SubscribeOpen(s, u)
                    \/ SubscribeCloseOld(s)
                    \/ SubscribeStore(s)
                    \/ SubscribeDeliver(s)
                    \/ SubscribeChannelClosed(s)
                    \/ SubscribeClientGone(s)
                    \/ SubscribeReturn(s)
             PROVE  WrittenInv'
  BY DEF SubNext
<1>a. /\ stream \in [Streams -> StreamState] /\ rooms \in [Rooms -> SUBSET Users]
      /\ UNCHANGED <<rooms, matchCreated, poll, room, batch, chan>>
      /\ heard \in [Users -> SUBSET Rooms]
      /\ poll = "send" => chan \in Streams
      /\ poll = "send" => room \in Rooms
  BY DEF TypeOK, SubTypeOK
<1>b. ASSUME UNCHANGED heard,
             \A t \in Streams :
               /\ stream'[t].buf = stream[t].buf
               /\ \/ stream'[t].at # "unused" /\ stream'[t].user = stream[t].user
                  \/ stream[t].at = "unused" /\ stream'[t].at # "unused"
                  \/ stream'[t] = stream[t]
      PROVE  WrittenInv'
  <2>1. AnnouncedRoomsWritten'
    BY <1>a, <1>b DEF WrittenInv, AnnouncedRoomsWritten
  <2>2. AnnouncedIsWritten'
    BY <1>a, <1>b DEF WrittenInv, AnnouncedIsWritten
  <2>3. ASSUME NEW t \in Streams
        PROVE  /\ stream'[t].at = "unused" => stream'[t].buf = <<>>
               /\ \A i \in DOMAIN stream'[t].buf :
                    stream'[t].user \in rooms[stream'[t].buf[i]]
    <3>1. CASE stream'[t] = stream[t]
      BY <3>1 DEF WrittenInv, BuffersAreWritten
    <3>2. CASE stream'[t].at # "unused" /\ stream'[t].user = stream[t].user
      BY <1>b, <3>2 DEF WrittenInv, BuffersAreWritten
    <3>3. CASE stream[t].at = "unused" /\ stream'[t].at # "unused"
      <4>1. stream'[t].buf = <<>>
        BY <1>b, <3>3 DEF WrittenInv, BuffersAreWritten
      <4> QED BY <3>3, <4>1
    <3> QED BY <1>b, <3>1, <3>2, <3>3
  <2>4. BuffersAreWritten'
    BY <1>a, <2>3 DEF BuffersAreWritten
  <2> QED BY <2>1, <2>2, <2>4 DEF WrittenInv
<1>1. ASSUME NEW u \in Users, SubscribeOpen(s, u) PROVE WrittenInv'
  <2> DEFINE r == [stream[s] EXCEPT !.user = u, !.old = subscribers[u],
                     !.at = IF subscribers[u] = None THEN "store" ELSE "close"]
  <2>1. stream' = [stream EXCEPT ![s] = r] /\ stream[s].at = "unused" /\ UNCHANGED heard
    BY <1>1 DEF SubscribeOpen
  <2>2. r.at # "unused" /\ r.buf = stream[s].buf
    BY <1>a DEF StreamState
  <2>3. /\ stream'[s] = r
        /\ \A t \in Streams \ {s} : stream'[t] = stream[t]
    <3> HIDE DEF r
    <3> QED BY <1>a, <2>1
  <2> HIDE DEF r
  <2> QED BY <1>b, <2>1, <2>2, <2>3
<1>2. CASE SubscribeCloseOld(s)
  <2> DEFINE o == stream[s].old
             f == [stream EXCEPT ![s].at = "store"]
  <2>1. stream' = [f EXCEPT ![o].closed = TRUE] /\ UNCHANGED heard
        /\ stream[s].at = "close"
    BY <1>2 DEF SubscribeCloseOld
  <2>2. /\ f \in [Streams -> StreamState] /\ f[s].at = "store"
        /\ f[s].buf = stream[s].buf /\ f[s].user = stream[s].user
        /\ \A t \in Streams \ {s} : f[t] = stream[t]
    BY <1>a DEF StreamState, StreamAt
  <2>3. \A t \in Streams : /\ stream'[t].buf = f[t].buf /\ stream'[t].at = f[t].at
                           /\ stream'[t].user = f[t].user
                           /\ t # o => stream'[t] = f[t]
    <3> HIDE DEF f, o
    <3> QED BY <2>1, <2>2 DEF StreamState
  <2>4. ASSUME NEW t \in Streams
        PROVE  /\ stream'[t].buf = stream[t].buf
               /\ stream'[t].user = stream[t].user
               /\ stream'[t].at = "unused" => stream[t].at = "unused"
    <3> HIDE DEF f, o
    <3> QED BY <2>2, <2>3
  <2>5. BuffersAreWritten'
    <3> SUFFICES ASSUME NEW t \in Streams
                 PROVE  /\ stream'[t].at = "unused" => stream'[t].buf = <<>>
                        /\ \A i \in DOMAIN stream'[t].buf :
                             stream'[t].user \in rooms[stream'[t].buf[i]]
      BY <1>a DEF BuffersAreWritten
    <3> QED BY <2>4 DEF WrittenInv, BuffersAreWritten
  <2>6. AnnouncedIsWritten'
    BY <1>a, <2>4 DEF WrittenInv, AnnouncedIsWritten
  <2>7. AnnouncedRoomsWritten'
    BY <1>a, <2>1 DEF WrittenInv, AnnouncedRoomsWritten
  <2> QED BY <2>5, <2>6, <2>7 DEF WrittenInv
<1>3. CASE \/ SubscribeStore(s) \/ SubscribeChannelClosed(s)
           \/ SubscribeClientGone(s) \/ SubscribeReturn(s)
  <2>1. PICK label \in {"wait", "return", "gone"} :
          stream' = [stream EXCEPT ![s].at = label] /\ UNCHANGED heard
    BY <1>3 DEF SubscribeStore, SubscribeChannelClosed, SubscribeClientGone,
                SubscribeReturn
  <2>2. /\ stream'[s].at # "unused" /\ stream'[s].user = stream[s].user
        /\ stream'[s].buf = stream[s].buf
        /\ \A t \in Streams \ {s} : stream'[t] = stream[t]
    BY <1>a, <2>1 DEF StreamState
  <2> QED BY <1>b, <2>1, <2>2
<1>4. CASE SubscribeDeliver(s)
  <2> DEFINE b == stream[s].buf
             u == stream[s].user
  <2>1. /\ stream[s].at = "wait" /\ b # <<>> /\ b \in Seq(Rooms)
        /\ heard' = [heard EXCEPT ![u] = @ \cup {Head(b)}]
        /\ stream' = [stream EXCEPT ![s].buf = Tail(b)]
    BY <1>4, <1>a DEF SubscribeDeliver, StreamState
  <2>2. /\ u \in rooms[Head(b)]
        /\ \A i \in DOMAIN Tail(b) : u \in rooms[Tail(b)[i]]
    <3>1. \A i \in DOMAIN b : u \in rooms[b[i]]
      BY DEF WrittenInv, BuffersAreWritten
    <3> HIDE DEF b, u
    <3> QED BY <1>a, <2>1, <3>1, TailWritten
  <2>3. /\ stream'[s].at = "wait" /\ stream'[s].user = u
        /\ stream'[s].buf = Tail(b)
        /\ \A t \in Streams \ {s} : stream'[t] = stream[t]
    BY <1>a, <2>1 DEF StreamState
  <2>4. AnnouncedRoomsWritten'
    <3> HIDE DEF b, u
    <3> QED BY <1>a, <2>1, <2>2 DEF WrittenInv, AnnouncedRoomsWritten
  <2>5. AnnouncedIsWritten'
    <3>1. \A t \in Streams : /\ stream'[t].user = stream[t].user
                             /\ stream'[t].at = stream[t].at
      BY <2>1, <2>3
    <3> QED BY <1>a, <3>1 DEF WrittenInv, AnnouncedIsWritten
  <2>6. BuffersAreWritten'
    <3> SUFFICES ASSUME NEW t \in Streams
                 PROVE  /\ stream'[t].at = "unused" => stream'[t].buf = <<>>
                        /\ \A i \in DOMAIN stream'[t].buf :
                             stream'[t].user \in rooms[stream'[t].buf[i]]
      BY <1>a DEF BuffersAreWritten
    <3>1. CASE t = s
      <4> HIDE DEF b, u
      <4> QED BY <2>2, <2>3, <3>1
    <3>2. CASE t # s
      BY <2>3, <3>2 DEF WrittenInv, BuffersAreWritten
    <3> QED BY <3>1, <3>2
  <2> QED BY <2>4, <2>5, <2>6 DEF WrittenInv
<1> QED BY <1>1, <1>2, <1>3, <1>4

(* The process dies: what was told stays told, nothing is on its way.      *)
LEMMA DieWritten == TypeOK /\ WrittenInv /\ Die => WrittenInv'
<1> SUFFICES ASSUME TypeOK, WrittenInv, Die PROVE WrittenInv'
  OBVIOUS
<1>1. UNCHANGED <<rooms, matchCreated, heard>> /\ poll' = "sleep"
  BY DEF Die, SubCrash
<1>2. \A s \in Streams : stream'[s] = stream[s] \/ stream'[s].buf = <<>>
  BY DEF Die, SubCrash, UnusedStream
<1>3. BuffersAreWritten'
  <2> SUFFICES ASSUME NEW s \in Streams
               PROVE  /\ stream'[s].at = "unused" => stream'[s].buf = <<>>
                      /\ \A i \in DOMAIN stream'[s].buf :
                           stream'[s].user \in rooms[stream'[s].buf[i]]
    BY <1>1 DEF BuffersAreWritten
  <2>1. CASE stream'[s] = stream[s]
    BY <2>1 DEF WrittenInv, BuffersAreWritten
  <2>2. CASE stream'[s].buf = <<>>
    BY <2>2
  <2> QED BY <1>2, <2>1, <2>2
<1> QED BY <1>1, <1>3 DEF WrittenInv, AnnouncedRoomsWritten, AnnouncedIsWritten

(* A room is written before it is announced, and to an identifier that no  *)
(* room has, so nothing that was written is overwritten.                   *)
LEMMA PollWritten ==
    TypeOK /\ RoomInv /\ ChannelInv /\ WrittenInv /\ PollNext => WrittenInv'
<1> SUFFICES ASSUME TypeOK, RoomInv, ChannelInv, WrittenInv, PollNext PROVE WrittenInv'
  OBVIOUS
<1>a. /\ rooms \in [Rooms -> SUBSET Users] /\ stream \in [Streams -> StreamState]
      /\ subscribers \in [Users -> Streams \cup {None}]
      /\ batch \subseteq Users /\ matchCreated \subseteq Rooms
      /\ poll \in {"exec", "publish", "notify", "send"} => room \in Rooms
      /\ poll = "send" => chan \in Streams
  BY DEF TypeOK, SubTypeOK
<1>1. CASE /\ UNCHANGED <<rooms, matchCreated, heard, stream>>
           /\ poll' \in {"sleep", "pop", "lock", "putBack"}
  BY <1>1 DEF WrittenInv, AnnouncedRoomsWritten, BuffersAreWritten, AnnouncedIsWritten
<1>2. CASE PollSize \/ PollPop \/ PollPopFails \/ PollPutBack \/ PollDone
  BY <1>1, <1>2 DEF PollSize, PollPop, Pop, PollPopFails, PollPutBack, PollDone
<1>3. CASE PollLock
  <2>1. CASE poll' = "putBack"
    BY <1>1, <1>3, <2>1 DEF PollLock
  <2>2. CASE poll' = "exec"
    BY <1>3, <2>2 DEF PollLock, WrittenInv, AnnouncedRoomsWritten,
                      BuffersAreWritten, AnnouncedIsWritten
  <2> QED BY <1>3, <2>1, <2>2 DEF PollLock
<1>4. CASE PollExec
  <2>1. CASE UNCHANGED rooms /\ poll' = "putBack"
    BY <1>1, <1>4, <2>1 DEF PollExec
  <2>2. CASE rooms' = [rooms EXCEPT ![room] = batch]
    <3>1. /\ poll = "exec" /\ rooms[room] = {} /\ room \in Rooms
          /\ poll' \in {"publish", "putBack"}
          /\ UNCHANGED <<matchCreated, heard, stream, room, batch>>
      BY <1>4, <1>a DEF PollExec, WrittenInv, AnnouncedIsWritten
    <3>2. batch # {}
      BY <3>1, FS_EmptySet, MaxBatchAssumption DEF RoomInv
    <3>3. \A r \in Rooms : rooms[r] \subseteq rooms'[r]
      BY <1>a, <2>2, <3>1
    <3>4. AnnouncedRoomsWritten'
      BY <1>a, <3>1, <3>3 DEF WrittenInv, AnnouncedRoomsWritten, TypeOK, SubTypeOK
    <3>5. BuffersAreWritten'
      <4> SUFFICES ASSUME NEW s \in Streams, NEW i \in DOMAIN stream[s].buf
                   PROVE  stream[s].user \in rooms'[stream[s].buf[i]]
        BY <3>1 DEF WrittenInv, BuffersAreWritten
      <4>1. stream[s].buf \in Seq(Rooms)
        BY <1>a DEF StreamState
      <4>2. stream[s].buf[i] \in Rooms
        BY <4>1
      <4> QED BY <3>3, <4>2 DEF WrittenInv, BuffersAreWritten
    <3>6. AnnouncedIsWritten'
      BY <1>a, <2>2, <3>1, <3>2 DEF AnnouncedIsWritten
    <3> QED BY <3>4, <3>5, <3>6 DEF WrittenInv
  <2> QED BY <1>4, <2>1, <2>2 DEF PollExec
<1>5. CASE PollPublish
  <2>1. /\ UNCHANGED <<rooms, heard, stream, room, batch, chan>>
        /\ poll = "publish" /\ poll' = "notify" /\ matchCreated' \subseteq matchCreated \cup {room}
    BY <1>5 DEF PollPublish
  <2> QED BY <2>1 DEF WrittenInv, AnnouncedRoomsWritten, BuffersAreWritten,
                      AnnouncedIsWritten
<1>6. CASE PollNotifyLoad
  <2>1. PICK u \in batch :
          /\ batch' = batch \ {u}
          /\ IF subscribers[u] = None THEN UNCHANGED <<poll, chan>>
             ELSE poll' = "send" /\ chan' = subscribers[u]
    BY <1>6 DEF PollNotifyLoad
  <2>2. /\ poll = "notify" /\ UNCHANGED <<rooms, matchCreated, heard, stream, room>>
        /\ u \in rooms[room]
    BY <1>6, <2>1 DEF PollNotifyLoad, WrittenInv, AnnouncedIsWritten
  <2>3. AnnouncedIsWritten'
    <3>1. CASE subscribers[u] = None
      BY <2>1, <2>2, <3>1 DEF WrittenInv, AnnouncedIsWritten
    <3>2. CASE subscribers[u] # None
      <4>1. /\ stream[subscribers[u]].at \in {"wait", "return"}
            /\ stream[subscribers[u]].user = u
        BY <1>a, <2>1, <3>2 DEF ChannelInv
      <4> QED BY <2>1, <2>2, <3>2, <4>1 DEF WrittenInv, AnnouncedIsWritten
    <3> QED BY <3>1, <3>2
  <2> QED BY <2>2, <2>3 DEF WrittenInv, AnnouncedRoomsWritten, BuffersAreWritten
<1>7. CASE PollNotifySend
  <2> DEFINE b == stream[chan].buf
             u == stream[chan].user
  <2>1. /\ poll = "send" /\ poll' = "notify" /\ chan \in Streams /\ room \in Rooms
        /\ b \in Seq(Rooms) /\ u \in rooms[room]
        /\ \/ stream' = stream
           \/ stream' = [stream EXCEPT ![chan].buf = Append(b, room)]
        /\ UNCHANGED <<rooms, matchCreated, heard, room, batch>>
    BY <1>7, <1>a DEF PollNotifySend, SendOrDrop, StreamState, WrittenInv,
                      AnnouncedIsWritten
  <2>2. BuffersAreWritten'
    <3>1. CASE stream' = stream
      BY <2>1, <3>1 DEF WrittenInv, BuffersAreWritten
    <3>2. CASE stream' = [stream EXCEPT ![chan].buf = Append(b, room)]
      <4>1. /\ stream'[chan].buf = Append(b, room) /\ stream'[chan].user = u
            /\ stream'[chan].at # "unused"
            /\ \A t \in Streams \ {chan} : stream'[t] = stream[t]
        BY <1>a, <2>1, <3>2 DEF StreamState, WrittenInv, AnnouncedIsWritten
      <4>2. \A i \in DOMAIN b : u \in rooms[b[i]]
        BY <2>1 DEF WrittenInv, BuffersAreWritten
      <4>3. \A i \in DOMAIN Append(b, room) : u \in rooms[Append(b, room)[i]]
        <5> HIDE DEF b, u
        <5> QED BY <1>a, <2>1, <4>2, AppendWritten
      <4> SUFFICES ASSUME NEW t \in Streams
                   PROVE  /\ stream'[t].at = "unused" => stream'[t].buf = <<>>
                          /\ \A i \in DOMAIN stream'[t].buf :
                               stream'[t].user \in rooms[stream'[t].buf[i]]
        BY <2>1 DEF BuffersAreWritten
      <4>4. CASE t = chan
        <5> HIDE DEF b, u
        <5> QED BY <4>1, <4>3, <4>4
      <4>5. CASE t # chan
        BY <4>1, <4>5 DEF WrittenInv, BuffersAreWritten
      <4> QED BY <4>4, <4>5
    <3> QED BY <2>1, <3>1, <3>2
  <2> QED BY <2>1, <2>2 DEF WrittenInv, AnnouncedRoomsWritten, AnnouncedIsWritten
<1>8. CASE PollSendPanics
  BY <1>8, DieWritten DEF PollSendPanics
<1> QED BY <1>2, <1>3, <1>4, <1>5, <1>6, <1>7, <1>8 DEF PollNext

(* Nobody hears of a room whose keys are not in Redis, the quiz service    *)
(* included, and a client only hears of rooms it is a player of: whatever  *)
(* fails, and whoever's streams come and go while the room is announced.   *)
THEOREM RoomsWritten == Spec => []AnnouncedRoomsWritten
<1>1. Init => WrittenInv
  BY DEF Init, SubInit, UnusedStream, WrittenInv, AnnouncedRoomsWritten,
         BuffersAreWritten, AnnouncedIsWritten
<1>2. TypeOK /\ RoomInv /\ ChannelInv /\ WrittenInv /\ [Next]_vars => WrittenInv'
  <2> SUFFICES ASSUME TypeOK, RoomInv, ChannelInv, WrittenInv, [Next]_vars
               PROVE  WrittenInv'
    OBVIOUS
  <2>1. ASSUME NEW c \in Calls, HandlerNext(c) PROVE WrittenInv'
    BY <2>1, WrittenFrame
       DEF HandlerNext, JoinReadUser, JoinReadCache, JoinFillCache, JoinCharge,
           ChargeUpTo, JoinChargeLate, JoinDupCheck, JoinAdd, JoinFails, LeaveRemove,
           LeaveRefund
  <2>2. CASE PollNext
    BY <2>2, PollWritten
  <2>3. ASSUME NEW u \in Users, PlanNext(u) PROVE WrittenInv'
    BY <2>3, WrittenFrame DEF PlanNext, PlanChange, PlanDropCache,
                              PlanFillRead, PlanFillWrite, PlanCacheExpires
  <2>4. CASE Midnight
    BY <2>4, WrittenFrame DEF Midnight
  <2>5. CASE Crash
    BY <2>5, DieWritten DEF Crash
  <2>6. CASE SubNext /\ UNCHANGED poolVars
    BY <2>6, SubWritten
  <2>7. CASE UNCHANGED vars
    BY <2>7, WrittenFrame DEF vars
  <2> QED BY <2>1, <2>2, <2>3, <2>4, <2>5, <2>6, <2>7 DEF Next
<1>3. WrittenInv => AnnouncedRoomsWritten
  BY DEF WrittenInv
<1> QED BY <1>1, <1>2, <1>3, TypeCorrect, RoomsInvariant, ChannelsInvariant, PTL
        DEF Spec

-----------------------------------------------------------------------------
(* What clients hear of while nothing fails.                               *)

(* A room that is on its way to a client, or that the poller tells players *)
(* of, is announced to the quiz service.                                   *)
BuffersAreAnnounced == \A s \in Streams : stream[s].buf \in Seq(matchCreated)

NotifiesAnnounced == poll \in {"notify", "send"} => room \in matchCreated

HeardInv == HeardRoomIsAnnounced /\ BuffersAreAnnounced /\ NotifiesAnnounced

(* A step that leaves all of this alone.                                   *)
LEMMA HeardFrame ==
    ASSUME HeardInv, UNCHANGED <<heard, stream, matchCreated>>,
           poll' \in {"notify", "send"} => poll \in {"notify", "send"} /\ room' = room
    PROVE  HeardInv'
BY DEF HeardInv, HeardRoomIsAnnounced, BuffersAreAnnounced, NotifiesAnnounced

(* A SubscribeToMatch handler hands over what its channel holds.           *)
LEMMA SubHeard ==
    ASSUME TypeOK, HeardInv, SubNext, UNCHANGED poolVars
    PROVE  HeardInv'
<1>a. /\ stream \in [Streams -> StreamState] /\ heard \in [Users -> SUBSET Rooms]
      /\ UNCHANGED <<matchCreated, poll, room>>
  BY DEF TypeOK, SubTypeOK
<1> PICK s \in Streams :
      \/ \E u \in Users : SubscribeOpen(s, u)
      \/ SubscribeCloseOld(s) \/ SubscribeStore(s) \/ SubscribeDeliver(s)
      \/ SubscribeChannelClosed(s) \/ SubscribeClientGone(s) \/ SubscribeReturn(s)
  BY DEF SubNext
<1>b. ASSUME UNCHANGED heard, \A t \in Streams : stream'[t].buf = stream[t].buf
      PROVE  HeardInv'
  BY <1>a, <1>b
     DEF HeardInv, HeardRoomIsAnnounced, BuffersAreAnnounced, NotifiesAnnounced
<1>1. ASSUME NEW u \in Users, SubscribeOpen(s, u) PROVE HeardInv'
  <2>1. \A t \in Streams : stream'[t].buf = stream[t].buf
    BY <1>a, <1>1 DEF SubscribeOpen, StreamState
  <2> QED BY <1>1, <1>b, <2>1 DEF SubscribeOpen
<1>2. CASE SubscribeCloseOld(s)
  <2> DEFINE o == stream[s].old
             f == [stream EXCEPT ![s].at = "store"]
  <2>1. stream' = [f EXCEPT ![o].closed = TRUE] /\ UNCHANGED heard
    BY <1>2 DEF SubscribeCloseOld
  <2>2. /\ f \in [Streams -> StreamState]
        /\ \A t \in Streams : f[t].buf = stream[t].buf
    BY <1>a DEF StreamState, StreamAt
  <2>3. \A t \in Streams : stream'[t].buf = f[t].buf
    <3> HIDE DEF f, o
    <3> QED BY <2>1, <2>2 DEF StreamState
  <2> HIDE DEF f
  <2> QED BY <1>b, <2>1, <2>2, <2>3
<1>3. CASE \/ SubscribeStore(s) \/ SubscribeChannelClosed(s)
           \/ SubscribeClientGone(s) \/ SubscribeReturn(s)
  <2>1. PICK label \in {"wait", "return", "gone"} :
          stream' = [stream EXCEPT ![s].at = label] /\ UNCHANGED heard
    BY <1>3 DEF SubscribeStore, SubscribeChannelClosed, SubscribeClientGone,
                SubscribeReturn
  <2>2. \A t \in Streams : stream'[t].buf = stream[t].buf
    BY <1>a, <2>1 DEF StreamState
  <2> QED BY <1>b, <2>1, <2>2
<1>4. CASE SubscribeDeliver(s)
  <2> DEFINE b == stream[s].buf
             u == stream[s].user
  <2>1. /\ b # <<>> /\ b \in Seq(matchCreated)
        /\ heard' = [heard EXCEPT ![u] = @ \cup {Head(b)}]
        /\ stream' = [stream EXCEPT ![s].buf = Tail(b)]
    BY <1>4 DEF SubscribeDeliver, HeardInv, BuffersAreAnnounced
  <2>2. /\ stream'[s].buf = Tail(b)
        /\ \A t \in Streams \ {s} : stream'[t] = stream[t]
    BY <1>a, <2>1 DEF StreamState
  <2> HIDE DEF b, u
  <2>3. Head(b) \in matchCreated /\ Tail(b) \in Seq(matchCreated)
    BY <2>1
  <2>4. HeardRoomIsAnnounced'
    BY <1>a, <2>1, <2>3 DEF HeardInv, HeardRoomIsAnnounced
  <2>5. BuffersAreAnnounced'
    BY <1>a, <2>2, <2>3 DEF HeardInv, BuffersAreAnnounced
  <2> QED BY <1>a, <2>4, <2>5 DEF HeardInv, NotifiesAnnounced
<1> QED BY <1>1, <1>2, <1>3, <1>4

(* The poller tells players of a room after it published it.               *)
LEMMA PollHeard ==
    ASSUME Faults = FALSE, TypeOK, HeardInv, PollNext
    PROVE  HeardInv'
<1>a. /\ stream \in [Streams -> StreamState]
      /\ poll = "send" => chan \in Streams
  BY DEF TypeOK, SubTypeOK
<1>1. CASE \/ PollSize \/ PollPop \/ PollPopFails \/ PollLock \/ PollExec
           \/ PollPutBack \/ PollDone
  BY <1>1, HeardFrame DEF PollSize, PollPop, Pop, PollPopFails, PollLock,
     PollExec, PollPutBack, PollDone
<1>2. CASE PollPublish
  <2>1. /\ matchCreated' = matchCreated \cup {room}
        /\ UNCHANGED <<heard, stream, room>>
    BY <1>2 DEF PollPublish
  <2>2. ASSUME NEW s \in Streams PROVE stream[s].buf \in Seq(matchCreated')
    <3> DEFINE b == stream[s].buf
    <3>1. b \in Seq(matchCreated)
      BY DEF HeardInv, BuffersAreAnnounced
    <3> HIDE DEF b
    <3>2. b \in Seq(matchCreated')
      BY <2>1, <3>1
    <3> QED BY <3>2 DEF b
  <2> QED BY <2>1, <2>2
          DEF HeardInv, HeardRoomIsAnnounced, BuffersAreAnnounced, NotifiesAnnounced
<1>3. CASE PollNotifyLoad
  BY <1>3, HeardFrame DEF PollNotifyLoad
<1>4. CASE PollNotifySend
  <2> DEFINE b == stream[chan].buf
  <2>1. /\ chan \in Streams /\ room \in matchCreated /\ b \in Seq(matchCreated)
        /\ \/ stream' = stream
           \/ stream' = [stream EXCEPT ![chan].buf = Append(b, room)]
        /\ UNCHANGED <<heard, matchCreated, room>>
    BY <1>4, <1>a DEF PollNotifySend, SendOrDrop, HeardInv, BuffersAreAnnounced,
                      NotifiesAnnounced
  <2>2. ASSUME NEW s \in Streams PROVE stream'[s].buf \in Seq(matchCreated)
    <3>1. stream'[s].buf \in {stream[s].buf, IF s = chan THEN Append(b, room)
                                             ELSE stream[s].buf}
      BY <1>a, <2>1 DEF StreamState
    <3>2. stream[s].buf \in Seq(matchCreated)
      BY DEF HeardInv, BuffersAreAnnounced
    <3>3. Append(b, room) \in Seq(matchCreated)
      <4> HIDE DEF b
      <4> QED BY <2>1
    <3> QED BY <3>1, <3>2, <3>3
  <2> QED BY <2>1, <2>2
          DEF HeardInv, HeardRoomIsAnnounced, BuffersAreAnnounced, NotifiesAnnounced
<1>5. CASE PollSendPanics
  <2>1. UNCHANGED <<heard, matchCreated>> /\ poll' = "sleep"
    BY <1>5 DEF PollSendPanics, Die, SubCrash
  <2>2. ASSUME NEW s \in Streams PROVE stream'[s].buf \in Seq(matchCreated)
    <3>1. stream'[s] = stream[s] \/ stream'[s].buf = <<>>
      BY <1>5 DEF PollSendPanics, Die, SubCrash, UnusedStream
    <3>2. stream[s].buf \in Seq(matchCreated) /\ <<>> \in Seq(matchCreated)
      BY DEF HeardInv, BuffersAreAnnounced
    <3> QED BY <3>1, <3>2
  <2> QED BY <2>1, <2>2
          DEF HeardInv, HeardRoomIsAnnounced, BuffersAreAnnounced, NotifiesAnnounced
<1> QED BY <1>1, <1>2, <1>3, <1>4, <1>5 DEF PollNext

(* As long as nothing fails, a client is sent to a room only after the     *)
(* quiz service was told to start it, whoever's streams come and go.       *)
THEOREM HeardIsAnnounced ==
    ASSUME Faults = FALSE
    PROVE  Spec => []HeardRoomIsAnnounced
<1>1. Init => HeardInv
  <2> SUFFICES ASSUME Init PROVE HeardInv
    OBVIOUS
  <2>1. \A s \in Streams : stream[s].buf = <<>>
    BY DEF Init, SubInit, UnusedStream
  <2>2. <<>> \in Seq(matchCreated)
    OBVIOUS
  <2> QED BY <2>1, <2>2
          DEF Init, SubInit, HeardInv, HeardRoomIsAnnounced, BuffersAreAnnounced,
              NotifiesAnnounced
<1>2. TypeOK /\ HeardInv /\ [Next]_vars => HeardInv'
  <2> SUFFICES ASSUME TypeOK, HeardInv, [Next]_vars PROVE HeardInv'
    OBVIOUS
  <2>1. ASSUME NEW c \in Calls, HandlerNext(c) PROVE HeardInv'
    BY <2>1, HeardFrame
       DEF HandlerNext, JoinReadUser, JoinReadCache, JoinFillCache, JoinCharge,
           ChargeUpTo, JoinChargeLate, JoinDupCheck, JoinAdd, JoinFails, LeaveRemove,
           LeaveRefund
  <2>2. CASE PollNext
    BY <2>2, PollHeard
  <2>3. ASSUME NEW u \in Users, PlanNext(u) PROVE HeardInv'
    BY <2>3, HeardFrame DEF PlanNext, PlanChange, PlanDropCache,
                            PlanFillRead, PlanFillWrite, PlanCacheExpires
  <2>4. CASE Midnight
    BY <2>4, HeardFrame DEF Midnight
  <2>5. CASE Crash
    BY <2>5 DEF Crash
  <2>6. CASE SubNext /\ UNCHANGED poolVars
    BY <2>6, SubHeard
  <2>7. CASE UNCHANGED vars
    BY <2>7, HeardFrame DEF vars
  <2> QED BY <2>1, <2>2, <2>3, <2>4, <2>5, <2>6, <2>7 DEF Next
<1>3. HeardInv => HeardRoomIsAnnounced
  BY DEF HeardInv
<1> QED BY <1>1, <1>2, <1>3, TypeCorrect, PTL DEF Spec

-----------------------------------------------------------------------------
(* What the poller drops while nothing fails.                              *)

(* The poller asks for two players at least.                               *)
WantsTwo == poll = "pop" => want >= 2

(* Every step keeps it.                                                    *)
LEMMA NextWants == TypeOK /\ WantsTwo /\ [Next]_vars => WantsTwo'
<1> SUFFICES ASSUME TypeOK, WantsTwo, [Next]_vars, poll' = "pop" PROVE want' >= 2
  BY DEF WantsTwo
<1>1. CASE PollSize
  <2> DEFINE n == Cardinality(pool)
  <2>1. n \in Nat
    BY UsersAssumption, FS_Subset, FS_CardinalityType DEF TypeOK
  <2>2. n >= 2 /\ want' = Least(n, MaxBatch)
    BY <1>1 DEF PollSize
  <2> HIDE DEF n
  <2> QED BY <2>1, <2>2, MaxBatchAssumption DEF Least
<1>2. CASE ~ PollSize
  <2>1. poll = "pop" /\ UNCHANGED want
    <3>1. ASSUME NEW c \in Calls, HandlerNext(c) PROVE UNCHANGED <<poll, want>>
      BY <3>1 DEF HandlerNext, JoinReadUser, JoinReadCache, JoinFillCache,
         JoinCharge, ChargeUpTo, JoinChargeLate, JoinDupCheck, JoinAdd, JoinFails, LeaveRemove,
         LeaveRefund
    <3>2. CASE PollNext
      BY <1>2, <3>2 DEF PollNext, PollPop, Pop, PollPopFails, PollLock, PollExec,
         PollPutBack, PollPublish, PollNotifyLoad, PollNotifySend, PollDone,
         PollSendPanics, Die
    <3>3. ASSUME NEW u \in Users, PlanNext(u) PROVE UNCHANGED <<poll, want>>
      BY <3>3 DEF PlanNext, PlanChange, PlanDropCache, PlanFillRead,
         PlanFillWrite, PlanCacheExpires
    <3>4. CASE Midnight \/ Crash \/ (SubNext /\ UNCHANGED poolVars)
                 \/ UNCHANGED vars
      BY <3>4 DEF Midnight, Crash, Die, vars
    <3> QED BY <3>1, <3>2, <3>3, <3>4 DEF Next
  <2> QED BY <2>1 DEF WantsTwo
<1> QED BY <1>1, <1>2

(* ZPOPMIN takes two players or more, or the only one.                     *)
LEMMA PopDrops ==
    ASSUME TypeOK, WantsTwo, PollPop, NEW u \in pool \ pool'
    PROVE  (u \in batch' /\ Cardinality(batch') >= 2) \/ pool = {u}
<1>1. PICK S \in SUBSET pool :
        /\ Cardinality(S) = Least(Cardinality(pool), want)
        /\ pool' = pool \ S
        /\ Cardinality(S) >= 2 => batch' = S
  <2>1. PICK S \in SUBSET pool :
          /\ Cardinality(S) = Least(Cardinality(pool), want)
          /\ pool' = pool \ S
          /\ IF Cardinality(S) < 2
               THEN poll' = "sleep" /\ UNCHANGED batch
               ELSE poll' = "lock" /\ batch' = S
    BY DEF PollPop, Pop
  <2>2. Cardinality(S) \in Nat
    BY UsersAssumption, FS_Subset, FS_CardinalityType DEF TypeOK
  <2> QED BY <2>1, <2>2
<1>2. /\ IsFiniteSet(pool) /\ IsFiniteSet(S)
      /\ Cardinality(pool) \in Nat /\ Cardinality(S) \in Nat
  BY UsersAssumption, FS_Subset, FS_CardinalityType DEF TypeOK
<1>3. u \in S
  BY <1>1
<1>4. CASE Cardinality(S) >= 2
  BY <1>1, <1>3, <1>4
<1>5. CASE Cardinality(S) < 2
  <2>1. want >= 2 /\ want \in Nat
    BY MaxBatchAssumption DEF PollPop, Pop, WantsTwo, TypeOK
  <2>2. Cardinality(pool) <= 1
    <3> DEFINE n == Cardinality(pool)
               k == Cardinality(S)
    <3>1. n \in Nat /\ k \in Nat /\ k < 2 /\ k = Least(n, want)
      BY <1>1, <1>2, <1>5
    <3> HIDE DEF n, k
    <3>2. n <= 1
      BY <2>1, <3>1 DEF Least
    <3> QED BY <3>2 DEF n
  <2>3. Cardinality(pool \ {u}) = Cardinality(pool) - 1
    BY <1>2, FS_RemoveElement
  <2>4. /\ IsFiniteSet(pool \ {u}) /\ Cardinality(pool \ {u}) \in Nat
    BY <1>2, FS_Subset, FS_CardinalityType
  <2>5. Cardinality(pool \ {u}) = 0
    BY <1>2, <2>2, <2>3, <2>4
  <2>6. pool \ {u} = {}
    BY <2>4, <2>5, FS_EmptySet
  <2> QED BY <2>6
<1> QED BY <1>2, <1>4, <1>5

(* As long as nothing fails, a player leaves the pool by its own Leave or  *)
(* for a batch of two or more; only a player who waits alone is dropped.   *)
THEOREM LoneWaiterDropped ==
    ASSUME Faults = FALSE
    PROVE  Spec => DropsOnlyALoneWaiter
<1> DEFINE Drop == \A u \in pool \ pool' :
                      \/ poll' = poll /\ pool' = pool \ {u}
                      \/ u \in batch' /\ Cardinality(batch') >= 2
                      \/ pool = {u}
<1>1. TypeOK /\ WantsTwo /\ [Next]_vars => [Drop]_vars
  <2> SUFFICES ASSUME TypeOK, WantsTwo, Next, NEW u \in pool \ pool'
               PROVE  \/ poll' = poll /\ pool' = pool \ {u}
                      \/ u \in batch' /\ Cardinality(batch') >= 2
                      \/ pool = {u}
    OBVIOUS
  <2>1. ASSUME NEW c \in Calls, HandlerNext(c) PROVE poll' = poll /\ pool' = pool \ {u}
    BY <2>1 DEF HandlerNext, JoinReadUser, JoinReadCache, JoinFillCache,
       JoinCharge, ChargeUpTo, JoinChargeLate, JoinDupCheck, JoinAdd, JoinFails, LeaveRemove,
       LeaveRefund
  <2>2. CASE PollNext
    <3>1. PollPop
      BY <2>2 DEF PollNext, PollSize, PollPopFails, PollLock, PollExec,
         PollPutBack, PollPublish, PollNotifyLoad, PollNotifySend, PollDone,
         PollSendPanics, Die
    <3> QED BY <3>1, PopDrops
  <2>3. ASSUME NEW v \in Users, PlanNext(v) PROVE FALSE
    BY <2>3 DEF PlanNext, PlanChange, PlanDropCache, PlanFillRead, PlanFillWrite,
       PlanCacheExpires
  <2>4. CASE Midnight \/ Crash \/ (SubNext /\ UNCHANGED poolVars)
    BY <2>4 DEF Midnight, Crash
  <2> QED BY <2>1, <2>2, <2>3, <2>4 DEF Next
<1>2. Init => WantsTwo
  BY DEF Init, WantsTwo
<1> QED BY <1>1, <1>2, NextWants, TypeCorrect, PTL DEF Spec, DropsOnlyALoneWaiter
=============================================================================

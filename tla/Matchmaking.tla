---------------------------- MODULE Matchmaking ----------------------------
(***************************************************************************)
(* The matchmaking service (services/matchmaking/main.go): the handlers    *)
(* JoinMatchmaking and LeaveMatchmaking, the poller that pops players into *)
(* rooms, and the plan and quota keys the handlers read and write.  The    *)
(* SubscribeToMatch streams come from MatchSubscriptions.                  *)
(*                                                                         *)
(* Every action is one access to Redis, MongoDB or RabbitMQ with the local *)
(* code around it: Redis executes each command or script atomically, and   *)
(* the goroutines interleave between commands.                             *)
(***************************************************************************)
EXTENDS MatchSubscriptions, Integers

CONSTANTS
    Calls,        \* handler goroutines: how many RPCs run at once
    MaxBatch,     \* most players of a room, 10 in tryCreateRoom
    PlanChangers, \* users whose plan changes (bought, expired)
    Faults,       \* whether Redis, Mongo, RabbitMQ fail and the service dies
    Midnights     \* whether IST midnight falls within the behaviour

ASSUME UsersAssumption == IsFiniteSet(Users) /\ IsFiniteSet(Calls)
ASSUME MaxBatchAssumption == MaxBatch \in Nat /\ MaxBatch >= 2
ASSUME PlanChangersAssumption == PlanChangers \subseteq Users
ASSUME FlagsAssumption == Faults \in BOOLEAN /\ Midnights \in BOOLEAN

VARIABLES
    pool,         \* matchmaking:pool, the members of the sorted set
    quota,        \* user:{id}:daily_quota
    mongoPlan,    \* users.plan in MongoDB
    planCache,    \* user:{id}:plan in Redis
    planFill,     \* value another service has read and is about to cache
    planDrop,     \* the plan was changed in MongoDB, DelPlan still to come
    call,         \* the Join and Leave handlers in progress
    poll,         \* where the poller stands
    want,         \* the count the poller computed from ZCARD
    batch,        \* players popped, and while notifying those still to tell
    room,         \* the room being created
    chan,         \* the channel the poller has loaded and will send on
    rooms,        \* players of the rooms written to Redis ({}: not written)
    matchCreated, \* rooms announced to the quiz service
    matchedToday, \* history: rooms a user got since midnight
    carried,      \* history: places a user held at the last midnight
    clean         \* history: users whose plan was free all day

planVars == <<mongoPlan, planCache, planFill, planDrop>>
pollVars == <<poll, want, batch, room, chan>>
roomVars == <<rooms, matchCreated, matchedToday, carried>>
vars == <<pool, quota, planVars, call, pollVars, roomVars, clean, subVars>>

DailyLimit == 1
Plans == {"free", "premium"}
ASSUME NonePlanAssumption == None \notin Plans

(* The step a handler takes next. *)
CallAt == {"idle", "readCache", "fillCache", "charge", "lateCharge",
           "dupCheck", "add", "refund"}
IdleCall == [at |-> "idle", user |-> None]

PollAt == {"sleep", "pop", "lock", "exec", "publish", "notify", "send",
           "putBack"}

TypeOK ==
    /\ SubTypeOK
    /\ pool \subseteq Users
    /\ quota \in [Users -> -1..DailyLimit]
    /\ mongoPlan \in [Users -> Plans]
    /\ planCache \in [Users -> Plans \cup {None}]
    /\ planFill \in [Users -> Plans \cup {None}]
    /\ planDrop \in [Users -> BOOLEAN]
    /\ call \in [Calls -> [at : CallAt, user : Users \cup {None}]]
    /\ \A c \in Calls : call[c].at # "idle" => call[c].user \in Users
    /\ poll \in PollAt
    /\ want \in 0..MaxBatch
    /\ batch \subseteq Users
    /\ room \in Rooms \cup {None}
    /\ chan \in Streams \cup {None}
    /\ poll \in {"exec", "publish", "notify", "send"} => room \in Rooms
    /\ poll = "send" => chan \in Streams
    /\ rooms \in [Rooms -> SUBSET Users]
    /\ matchCreated \subseteq Rooms
    /\ matchedToday \in [Users -> Nat] /\ carried \in [Users -> Nat]
    /\ clean \in [Users -> BOOLEAN]

Init ==
    /\ SubInit
    /\ pool = {}
    /\ quota = [u \in Users |-> 0]
    /\ mongoPlan \in [Users -> Plans]
    /\ \A u \in Users \ PlanChangers : mongoPlan[u] = "free"
    /\ planCache = [u \in Users |-> None]
    /\ planFill = [u \in Users |-> None]
    /\ planDrop = [u \in Users |-> FALSE]
    /\ call = [c \in Calls |-> IdleCall]
    /\ poll = "sleep" /\ want = 0 /\ batch = {} /\ room = None /\ chan = None
    /\ rooms = [r \in Rooms |-> {}]
    /\ matchCreated = {}
    /\ matchedToday = [u \in Users |-> 0] /\ carried = [u \in Users |-> 0]
    /\ clean = [u \in Users |-> mongoPlan[u] = "free"]

-----------------------------------------------------------------------------
(* JoinMatchmaking.                                                        *)

Goto(c, label) == call' = [call EXCEPT ![c].at = label]
Return(c) == call' = [call EXCEPT ![c] = IdleCall]

(* A handler starts with the users document.  Premium skips the gate; an   *)
(* unreadable document counts as free.                                     *)
JoinReadUser(c, u) ==
    /\ call[c].at = "idle"
    /\ \E label \in {"dupCheck", "readCache"} :
         /\ label = "dupCheck" => mongoPlan[u] = "premium"
         /\ label = "readCache" => mongoPlan[u] = "free" \/ Faults
         /\ call' = [call EXCEPT ![c] = [at |-> label, user |-> u]]
    /\ UNCHANGED <<pool, quota, planVars, pollVars, roomVars, clean, subVars>>

(* GetPlan, whose error is ignored and reads as a miss.                    *)
JoinReadCache(c) ==
    /\ call[c].at = "readCache"
    /\ LET cached == planCache[call[c].user] IN
         \/ cached = "premium" /\ Goto(c, "dupCheck")
         \/ cached = "free" /\ Goto(c, "charge")
         \/ (cached = None \/ Faults) /\ Goto(c, "fillCache")
    /\ UNCHANGED <<pool, quota, planVars, pollVars, roomVars, clean, subVars>>

(* SetPlan on a miss, with the plan read from MongoDB (never premium here).*)
JoinFillCache(c) ==
    /\ call[c].at = "fillCache"
    /\ \/ planCache' = [planCache EXCEPT ![call[c].user] = "free"]
       \/ Faults /\ UNCHANGED planCache
    /\ Goto(c, "charge")
    /\ UNCHANGED <<pool, quota, mongoPlan, planFill, planDrop, pollVars,
                   roomVars, clean, subVars>>

(* QuotaScript: INCR, EXPIREAT the midnight to come, and DECR again when   *)
(* over the limit.                                                         *)
QuotaCharged(u) == quota' = [quota EXCEPT ![u] = @ + 1]

ChargeUpTo(c, limit) ==
    /\ call[c].at = "charge"
    /\ LET u == call[c].user IN
         \/ quota[u] < limit /\ QuotaCharged(u) /\ Goto(c, "dupCheck")
         \/ quota[u] >= limit /\ UNCHANGED quota /\ Return(c)
    /\ UNCHANGED <<pool, planVars, pollVars, roomVars, clean, subVars>>

JoinCharge_OneTooMany(c) == ChargeUpTo(c, DailyLimit + 1)
JoinCharge_NotCounted(c) ==
    /\ call[c].at = "charge"
    /\ LET u == call[c].user IN
         IF quota[u] < DailyLimit THEN Goto(c, "dupCheck") ELSE Return(c)
    /\ UNCHANGED <<pool, quota, planVars, pollVars, roomVars, clean, subVars>>
JoinCharge(c) == ChargeUpTo(c, DailyLimit)

(* The script of a caller who worked out the midnight before it, run after *)
(* it: EXPIREAT lies in the past and deletes the counter, and a DECR then  *)
(* makes a new one at -1, which has no expiry.                             *)
LateScript(u) ==
    quota' = [quota EXCEPT ![u] = IF @ < DailyLimit THEN 0 ELSE -1]

JoinChargeLate(c) ==
    /\ call[c].at = "lateCharge"
    /\ LET u == call[c].user IN
         /\ LateScript(u)
         /\ IF quota[u] < DailyLimit THEN Goto(c, "dupCheck") ELSE Return(c)
    /\ UNCHANGED <<pool, planVars, pollVars, roomVars, clean, subVars>>

(* ZSCORE: a user in the pool is answered ALREADY_IN_QUEUE, after the      *)
(* quota was charged.                                                      *)
JoinDupCheck(c) ==
    /\ call[c].at = "dupCheck"
    /\ IF call[c].user \in pool THEN Return(c) ELSE Goto(c, "add")
    /\ UNCHANGED <<pool, quota, planVars, pollVars, roomVars, clean, subVars>>

(* ZADD, and QUEUED is answered.                                           *)
JoinAdd(c) ==
    /\ call[c].at = "add"
    /\ pool' = pool \cup {call[c].user}
    /\ Return(c)
    /\ UNCHANGED <<quota, planVars, pollVars, roomVars, clean, subVars>>

(* A Redis command of the handler fails, or the caller's context ends: the *)
(* RPC answers Internal, whether or not the command took effect, and what  *)
(* was charged is not given back.                                          *)
JoinFails(c) ==
    /\ Faults
    /\ LET u == call[c].user IN
       \/ /\ call[c].at = "charge"
          /\ \/ quota[u] < DailyLimit /\ QuotaCharged(u)
             \/ UNCHANGED quota
          /\ UNCHANGED pool
       \/ /\ call[c].at = "lateCharge"
          /\ LateScript(u) \/ UNCHANGED quota
          /\ UNCHANGED pool
       \/ call[c].at = "dupCheck" /\ UNCHANGED <<pool, quota>>
       \/ /\ call[c].at = "add"
          /\ pool' \in {pool, pool \cup {u}}
          /\ UNCHANGED quota
    /\ Return(c)
    /\ UNCHANGED <<planVars, pollVars, roomVars, clean, subVars>>

-----------------------------------------------------------------------------
(* LeaveMatchmaking.                                                       *)

(* A Leave that refunds whatever ZREM answered.                            *)
LeaveRemove_AnyCount(c, u) ==
    /\ call[c].at = "idle"
    /\ pool' = pool \ {u}
    /\ call' = [call EXCEPT ![c] = [at |-> "refund", user |-> u]]
    /\ UNCHANGED <<quota, planVars, pollVars, roomVars, clean, subVars>>

(* ZREM; only a removal that took the user out of the pool is refunded.    *)
LeaveRemove(c, u) ==
    /\ call[c].at = "idle"
    /\ u \in pool
    /\ pool' = pool \ {u}
    /\ \/ call' = [call EXCEPT ![c] = [at |-> "refund", user |-> u]]
       \/ Faults /\ UNCHANGED call
    /\ UNCHANGED <<quota, planVars, pollVars, roomVars, clean, subVars>>

(* RefundQuotaScript: DECR when positive.                                  *)
LeaveRefund(c) ==
    /\ call[c].at = "refund"
    /\ LET u == call[c].user IN
         \/ quota' = [quota EXCEPT ![u] = IF @ > 0 THEN @ - 1 ELSE @]
         \/ Faults /\ UNCHANGED quota
    /\ Return(c)
    /\ UNCHANGED <<pool, planVars, pollVars, roomVars, clean, subVars>>

-----------------------------------------------------------------------------
(* The poller: tryCreateRoom and createRoom, one goroutine.                *)

Least(m, n) == IF m < n THEN m ELSE n

(* Bound: a behaviour creates at most |Rooms| rooms.                       *)
RoomIdLeft == \E r \in Rooms : rooms[r] = {}

(* ZCARD.                                                                  *)
PollSize ==
    /\ poll = "sleep" /\ RoomIdLeft
    /\ Cardinality(pool) >= 2
    /\ want' = Least(Cardinality(pool), MaxBatch)
    /\ poll' = "pop"
    /\ UNCHANGED <<pool, quota, planVars, call, batch, room, chan, roomVars,
                   clean, subVars>>

(* ZPOPMIN of `want` members.  Which of the pool have the lowest ratings   *)
(* is left open.  Fewer than min players: they are dropped.                *)
Pop(min) ==
    /\ poll = "pop"
    /\ \E S \in SUBSET pool :
         /\ Cardinality(S) = Least(Cardinality(pool), want)
         /\ pool' = pool \ S
         /\ IF Cardinality(S) < min
              THEN poll' = "sleep" /\ UNCHANGED batch
              ELSE poll' = "lock" /\ batch' = S
    /\ want' = 0
    /\ UNCHANGED <<quota, planVars, call, room, chan, roomVars, clean, subVars>>

(* A poller that reads the pool but does not take the players out.         *)
PollPop_Peek ==
    /\ poll = "pop"
    /\ \E S \in SUBSET pool :
         /\ Cardinality(S) = Least(Cardinality(pool), want)
         /\ IF Cardinality(S) < 2
              THEN poll' = "sleep" /\ UNCHANGED batch
              ELSE poll' = "lock" /\ batch' = S
    /\ want' = 0
    /\ UNCHANGED <<pool, quota, planVars, call, room, chan, roomVars, clean,
                   subVars>>

PollPop_NoRecheck == Pop(0)
PollPop_TooStrict == Pop(3)
PollPop == Pop(2)

(* ZPOPMIN fails, or its answer is lost after it took the players out.     *)
PollPopFails ==
    /\ Faults
    /\ poll = "pop"
    /\ \/ \E S \in SUBSET pool :
            /\ Cardinality(S) = Least(Cardinality(pool), want)
            /\ pool' = pool \ S
       \/ UNCHANGED pool
    /\ poll' = "sleep" /\ want' = 0
    /\ UNCHANGED <<quota, planVars, call, batch, room, chan, roomVars, clean,
                   subVars>>

(* SETNX of room:lock:{fresh uuid}: only an error can refuse it.           *)
PollLock ==
    /\ poll = "lock"
    /\ \/ \E r \in Rooms : rooms[r] = {} /\ room' = r /\ poll' = "exec"
       \/ Faults /\ poll' = "putBack" /\ UNCHANGED room
    /\ UNCHANGED <<pool, quota, planVars, call, want, batch, chan, roomVars,
                   clean, subVars>>

(* A room announced before its keys are written.                           *)
PollExec_Skipped ==
    /\ poll = "exec"
    /\ poll' = "publish"
    /\ UNCHANGED <<pool, quota, planVars, call, want, batch, room, chan,
                   roomVars, clean, subVars>>

(* MULTI/EXEC of the room's players, state and round.  An EXEC that was    *)
(* executed but not answered reads as an error too.                        *)
PollExec ==
    /\ poll = "exec"
    /\ \/ poll' = "publish" /\ rooms' = [rooms EXCEPT ![room] = batch]
       \/ Faults /\ poll' = "putBack" /\ rooms' = [rooms EXCEPT ![room] = batch]
       \/ Faults /\ poll' = "putBack" /\ UNCHANGED rooms
    /\ UNCHANGED <<pool, quota, planVars, call, want, batch, room, chan,
                   matchCreated, matchedToday, carried, clean, subVars>>

(* ZADD of the popped players one by one; errors are not looked at.        *)
PollPutBack ==
    /\ poll = "putBack"
    /\ \/ \E u \in batch : /\ batch' = batch \ {u}
                           /\ \/ pool' = pool \cup {u}
                              \/ Faults /\ UNCHANGED pool
                           /\ UNCHANGED <<poll, room>>
       \/ /\ batch = {}
          /\ poll' = "sleep" /\ room' = None
          /\ UNCHANGED <<pool, batch>>
    /\ UNCHANGED <<quota, planVars, call, want, chan, roomVars, clean, subVars>>

(* A publication that is skipped altogether.                               *)
PollPublish_Forgotten ==
    /\ poll = "publish"
    /\ poll' = "notify"
    /\ UNCHANGED <<pool, quota, planVars, call, want, batch, room, chan,
                   roomVars, clean, subVars>>

(* match.created is published; a failure is logged and the room goes on.   *)
PollPublish ==
    /\ poll = "publish"
    /\ poll' = "notify"
    /\ \/ matchCreated' = matchCreated \cup {room}
       \/ Faults /\ UNCHANGED matchCreated
    /\ matchedToday' = [u \in Users |-> IF u \in batch THEN matchedToday[u] + 1
                                                       ELSE matchedToday[u]]
    /\ UNCHANGED <<pool, quota, planVars, call, want, batch, room, chan, rooms,
                   carried, clean, subVars>>

(* A loop that stops at the first player it finds.                         *)
PollNotifyLoad_FirstOnly ==
    /\ poll = "notify"
    /\ \E u \in batch :
         /\ batch' = {}
         /\ IF subscribers[u] = None
              THEN UNCHANGED <<poll, chan>>
              ELSE poll' = "send" /\ chan' = subscribers[u]
    /\ UNCHANGED <<pool, quota, planVars, call, want, room, roomVars, clean,
                   subVars>>

(* The notification loop: subscribers.Load for the next player ...         *)
PollNotifyLoad ==
    /\ poll = "notify"
    /\ \E u \in batch :
         /\ batch' = batch \ {u}
         /\ IF subscribers[u] = None
              THEN UNCHANGED <<poll, chan>>
              ELSE poll' = "send" /\ chan' = subscribers[u]
    /\ UNCHANGED <<pool, quota, planVars, call, want, room, roomVars, clean,
                   subVars>>

(* ... and the send, which drops the event when the buffer is full.        *)
PollNotifySend ==
    /\ poll = "send"
    /\ ~ stream[chan].closed
    /\ SendOrDrop(chan, room)
    /\ poll' = "notify" /\ chan' = None
    /\ UNCHANGED <<pool, quota, planVars, call, want, batch, room, roomVars,
                   clean, subscribers, heard>>

(* Everybody is notified; the lock is released.                            *)
PollDone ==
    /\ poll = "notify" /\ batch = {}
    /\ poll' = "sleep" /\ room' = None
    /\ UNCHANGED <<pool, quota, planVars, call, want, batch, chan, roomVars,
                   clean, subVars>>

(* The process dies: handlers, poller and streams are gone, Redis, Mongo   *)
(* and the broker keep what they have.                                     *)
Die ==
    /\ call' = [c \in Calls |-> IdleCall]
    /\ poll' = "sleep" /\ want' = 0 /\ batch' = {} /\ room' = None
    /\ chan' = None
    /\ SubCrash
    /\ UNCHANGED <<pool, quota, planVars, roomVars, clean>>

(* The channel was closed after the Load: a send on it panics, and nothing *)
(* in the poller recovers.                                                 *)
PollSendPanics ==
    /\ poll = "send" /\ stream[chan].closed
    /\ Die

Crash == Faults /\ Die

-----------------------------------------------------------------------------
(* The surroundings.                                                       *)

(* A payment or the expiry worker changes the plan in MongoDB ...          *)
PlanChange(u) ==
    /\ u \in PlanChangers /\ ~ planDrop[u]
    /\ \E p \in Plans \ {mongoPlan[u]} :
         mongoPlan' = [mongoPlan EXCEPT ![u] = p]
    /\ planDrop' = [planDrop EXCEPT ![u] = TRUE]
    /\ clean' = [clean EXCEPT ![u] = FALSE]
    /\ UNCHANGED <<pool, quota, planCache, planFill, call, pollVars, roomVars,
                   subVars>>

(* ... and then deletes the cached plan.                                   *)
PlanDropCache(u) ==
    /\ planDrop[u]
    /\ planDrop' = [planDrop EXCEPT ![u] = FALSE]
    /\ planCache' = [planCache EXCEPT ![u] = None]
    /\ UNCHANGED <<pool, quota, mongoPlan, planFill, call, pollVars, roomVars,
                   clean, subVars>>

(* JoinTournament and GetMatchHistory read the plan on a cache miss and    *)
(* cache it in a second step.                                              *)
PlanFillRead(u) ==
    /\ u \in PlanChangers
    /\ planFill[u] = None /\ planCache[u] = None
    /\ planFill' = [planFill EXCEPT ![u] = mongoPlan[u]]
    /\ UNCHANGED <<pool, quota, mongoPlan, planCache, planDrop, call, pollVars,
                   roomVars, clean, subVars>>

PlanFillWrite(u) ==
    /\ planFill[u] # None
    /\ planCache' = [planCache EXCEPT ![u] = planFill[u]]
    /\ planFill' = [planFill EXCEPT ![u] = None]
    /\ UNCHANGED <<pool, quota, mongoPlan, planDrop, call, pollVars, roomVars,
                   clean, subVars>>

(* The cached plan's five minutes are over.                                *)
PlanCacheExpires(u) ==
    /\ u \in PlanChangers /\ planCache[u] # None
    /\ planCache' = [planCache EXCEPT ![u] = None]
    /\ UNCHANGED <<pool, quota, mongoPlan, planFill, planDrop, call, pollVars,
                   roomVars, clean, subVars>>

(* A user who is popped and not yet in a room.                             *)
Popped(u) == u \in batch /\ poll \in {"lock", "exec", "publish", "putBack"}

(* The handlers on the way from the gate to the queue, or, taken out of    *)
(* the queue, on the way to the refund.                                    *)
Holders(u) ==
    {c \in Calls : call[c].user = u /\ call[c].at \in {"dupCheck", "add",
                                                       "refund"}}

(* Where a place of u may be: the handlers, the pool, the poller's hands.  *)
One(present) == IF present THEN 1 ELSE 0
Places(u) == Cardinality(Holders(u)) + One(u \in pool) + One(Popped(u))

(* A late script can cost the counter a charge, and one more the counter   *)
(* had.                                                                    *)
LateOnes(u) == {c \in Calls : call[c] = [at |-> "lateCharge", user |-> u]}
Held(u) == Places(u) + (DailyLimit + 1) * Cardinality(LateOnes(u))

(* Midnight in Kolkata: EXPIREAT fires on every counter that has one.  Who *)
(* holds a place keeps it, and handlers that are about to run QuotaScript  *)
(* may have worked out the midnight already.                               *)
Midnight ==
    /\ Midnights
    /\ UNCHANGED <<pool, planVars, pollVars, rooms, matchCreated, subVars>>
    /\ \E late \in SUBSET {c \in Calls : call[c].at = "charge"} :
         call' = [c \in Calls |-> IF c \in late
                                  THEN [call[c] EXCEPT !.at = "lateCharge"]
                                  ELSE call[c]]
    /\ quota' = [u \in Users |-> IF quota[u] < 0 THEN quota[u] ELSE 0]
    /\ matchedToday' = [u \in Users |-> 0]
    /\ carried' = [u \in Users |-> Held(u)' - quota'[u]]
    /\ clean' = [u \in Users |->
                   /\ mongoPlan[u] = "free"
                   /\ planCache[u] # "premium" /\ planFill[u] # "premium"]

-----------------------------------------------------------------------------
poolVars == <<pool, quota, planVars, call, pollVars, roomVars, clean>>

HandlerNext(c) ==
    \/ \E u \in Users : JoinReadUser(c, u)
    \/ JoinReadCache(c)
    \/ JoinFillCache(c)
    \/ JoinCharge(c)
    \/ JoinChargeLate(c)
    \/ JoinDupCheck(c)
    \/ JoinAdd(c)
    \/ JoinFails(c)
    \/ \E u \in Users : LeaveRemove(c, u)
    \/ LeaveRefund(c)

PollNext ==
    \/ PollSize
    \/ PollPop
    \/ PollPopFails
    \/ PollLock
    \/ PollExec
    \/ PollPutBack
    \/ PollPublish
    \/ PollNotifyLoad
    \/ PollNotifySend
    \/ PollDone
    \/ PollSendPanics

PlanNext(u) ==
    \/ PlanChange(u)
    \/ PlanDropCache(u)
    \/ PlanFillRead(u)
    \/ PlanFillWrite(u)
    \/ PlanCacheExpires(u)

Next ==
    \/ \E c \in Calls : HandlerNext(c)
    \/ PollNext
    \/ \E u \in Users : PlanNext(u)
    \/ Midnight
    \/ Crash
    \/ SubNext /\ UNCHANGED poolVars

Spec == Init /\ [][Next]_vars

(* A started handler runs to its end, the ticker keeps waking the poller   *)
(* and a stream handler drains its channel; users act when they like.      *)
HandlerStep(c) ==
    \/ JoinReadCache(c) \/ JoinFillCache(c) \/ JoinCharge(c)
    \/ JoinChargeLate(c) \/ JoinDupCheck(c) \/ JoinAdd(c) \/ LeaveRefund(c)

StreamStep(s) ==
    /\ \/ SubscribeCloseOld(s) \/ SubscribeStore(s) \/ SubscribeDeliver(s)
       \/ SubscribeChannelClosed(s) \/ SubscribeReturn(s)
    /\ UNCHANGED poolVars

Fairness ==
    /\ \A c \in Calls : WF_vars(HandlerStep(c))
    /\ WF_vars(PollNext)
    /\ \A s \in Streams : WF_vars(StreamStep(s))

FairSpec == Spec /\ Fairness

-----------------------------------------------------------------------------
(* Safety.                                                                 *)

(* Every place of a user who was free all day is paid for: what the user   *)
(* holds - in handlers, in the pool, in the poller's hands - and got in    *)
(* rooms of today is at most what the counter has, or what was held when   *)
(* the day began.  This is why concurrent joins, leaves, polls, lost       *)
(* answers and crashes cannot turn one charge into two places.             *)
PlacesArePaid ==
    \A u \in Users :
        clean[u] => Held(u) + matchedToday[u] <= quota[u] + carried[u]

(* A user whose plan was free all day gets at most DailyLimit matches that *)
(* day and what midnight carried over, whatever the interleaving of joins, *)
(* leaves, polls and failures.  README: "The Lua script guarantees no race *)
(* between checking and incrementing".  Midnight does carry over: a queued *)
(* player is matched in the new day without a charge; a refund that began  *)
(* before midnight takes back the new day's charge when one was made       *)
(* meanwhile, although redis.go:320 calls it a no-op after the reset; and  *)
(* a QuotaScript sent with the old midnight deletes the counter or leaves  *)
(* it at -1.                                                               *)
FreeMatchesPerDay ==
    \A u \in Users : clean[u] => matchedToday[u] <= DailyLimit + carried[u]

(* A room has two to MaxBatch players, although the pool may shrink        *)
(* between ZCARD and ZPOPMIN.                                              *)
RoomHasOpponents ==
    \A r \in Rooms : rooms[r] # {} => Cardinality(rooms[r]) \in 2..MaxBatch

(* What is announced is in Redis: the quiz service never receives a        *)
(* match.created, nor a client an event, of a room whose keys are not      *)
(* written, and a client only hears of rooms it is a player of.            *)
AnnouncedRoomsWritten ==
    /\ \A r \in matchCreated : rooms[r] # {}
    /\ \A u \in Users : \A r \in heard[u] : u \in rooms[r]

(* As long as nothing fails, a client is sent to a room only after the     *)
(* quiz service was told to start it (a failed publication breaks this:    *)
(* the error is logged and the players are notified all the same).         *)
HeardRoomIsAnnounced == \A u \in Users : heard[u] \subseteq matchCreated

(* What the poller drops, when nothing fails.  A step that takes a player  *)
(* out of the pool is the player's own Leave, or puts the player into a    *)
(* batch of two or more, or takes the only player there was: ZCARD saw     *)
(* two, one left in between.                                               *)
DropsOnlyALoneWaiter ==
    [][\A u \in pool \ pool' :
          \/ poll' = poll /\ pool' = pool \ {u}
          \/ u \in batch' /\ Cardinality(batch') >= 2
          \/ pool = {u}]_vars

-----------------------------------------------------------------------------
(* Liveness.                                                               *)

(* Two players are not left waiting: the poller takes at least one of any  *)
(* two (with MaxBatch >= |Users|; lowest ratings first can starve a highly *)
(* rated player when the pool is always over-full).                        *)
NoPairWaitsForever ==
    \A u, v \in Users : u # v => []<>(~ {u, v} \subseteq pool)

Subscribed(u, r) ==
    poll = "publish" /\ room = r /\ u \in batch /\ subscribers[u] # None

(* A stream of u was replaced by u, or its client left it.                 *)
GivenUp(u) ==
    \E s \in Streams : /\ stream[s].user = u
                       /\ stream[s].at \in {"close", "store", "return", "gone"}

ProcessDied == \E s \in Streams : stream[s].at = "dead"

(* A player subscribed when its room is announced hears of it, unless its  *)
(* subscription is replaced, its client leaves, or the process dies.       *)
SubscribedPlayerHears ==
    \A u \in Users, r \in Rooms :
        Subscribed(u, r) ~> (r \in heard[u] \/ GivenUp(u) \/ ProcessDied)
=============================================================================

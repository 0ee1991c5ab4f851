# A TLA+ model of the quiz battle backend

The repository holds a real-time quiz game: six Go services that talk over
gRPC, RabbitMQ, Redis and MongoDB, and a Flutter client. The modules here model
the services' concurrent core from their source, TLC checks them on small
instances, and TLAPS proves the most important invariants for every size.

Paths below are relative to the repository's root.

## 1. Inventory

| Component | State | Operations | Talks to |
|---|---|---|---|
| **Match subscriptions** (`services/matchmaking/main.go`, `SubscribeToMatch`) | `subscribers`: user -> channel (capacity 10), one handler goroutine per stream | open (replaces and closes an older channel), deliver, end (deferred delete) | written to by the poller |
| **Matchmaking** (`services/matchmaking/main.go`, `pkg/keys/redis.go`) | Redis: the pool (sorted set by rating), daily quota counters, cached plans, room keys; MongoDB users | `JoinMatchmaking`, `LeaveMatchmaking`, the 500 ms poller (`tryCreateRoom`, `createRoom`), `publishMatchInvite` | publishes `match.created`; sends `MatchEvent`s |
| **Quiz rounds** (`services/quiz/main.go`) | in memory per room: questions, timer, deadline, sequence counter, game streams; Redis: round, question list, closed-round keys | `consumeMatchCreated`, `startRound`, `closeRound`, `consumeRoundCompleted`, `finishMatch`, `StreamGameEvents` and its deferred part, snapshots, TimerSync | consumes `match.created`, `round.completed`; publishes `round.completed`, `match.finished` |
| **Quiz: answers, tournaments, reminders** | tournaments in MongoDB | `SubmitAnswer` (publishes `answer.submitted`), `JoinTournament`, five-minute reminder ticker, relay of `leaderboard.updated` | scoring |
| **Scoring: answers** (`services/scoring/main.go`) | Redis: answers per round (HSETNX), leaderboard (Lua) | `CalculateScore`, `processAnswer` | consumes `answer.submitted`; publishes `leaderboard.updated` |
| **Scoring: match persistence** | MongoDB: match history, ratings, referral state | `persistMatch` on `match.finished` (upsert, Elo, referral conversion), analytics | |
| **Scoring: queries** | none of its own | home screen, leaderboards, history (fills the plan cache) | |
| **Referrals** (`scoring`, `auth`) | users' codes, referrer and counters | `ApplyReferralCode`, `consumeReferralEvents`, conversion at the first match | |
| **Payment and plans** (`services/payment/main.go`, `scoring`) | payments, `users.plan`, `planExpiresAt`, webhook idempotency keys, plan cache | orders, webhook, `consumePaymentCaptured`, `checkExpiredPlans`, expiry warnings | publishes `payment.captured`, `premium.expired` |
| **Accounts, streaks, rewards** (`services/auth/main.go`) | users, tokens, streak and claim dates | register, login, guest, link, delete, streak, daily reward, crons | |
| **E-mail codes** (`auth`, `pkg/keys/redis.go`) | code and attempts counter in Redis, rate-limit key | store, check (at most three attempts), consume | Resend API |
| **Notifications** (`services/notification/main.go`) | users' FCM tokens | consume, dispatch, deliver, drop dead tokens | Firebase |
| **Client** (`flutter/lib/providers/game_state.dart`) | game state, streams, reconnect timer | join then subscribe, process events, answer, reconnect, leave | all services |
| **Start-up and routing** (every service's `main` and `setupRabbitMQ`) | the broker's queues and bindings | connect, declare, bind, consume, exit | the topic exchange `sx` |
| Keys, models, tokens; generated code, seed, deployment | none | | |

What is hard in each, and what makes it correct:

- *Matchmaking.* Handlers are sequences of independent Redis commands; joins,
  leaves, the poller, plan changes, midnight and process death interleave
  between any two. Correct when a daily charge buys at most one place, a player
  is never lost without a reason, rooms have opponents, and whoever waits in a
  room's batch hears of the room.
- *Match subscriptions.* A reconnect and the end of the stream it replaces, and
  the poller's load-then-send, race on one map. Correct when no channel is
  closed twice or written to after its close, and the newest stream is the
  registered one.
- *Quiz rounds.* The thread of a match passes through a queue message, a
  sleeping goroutine, a timer and back, any of which may be lost, while
  disconnects finish the match from the side. Correct when it is in one round at
  a time, in order, and ends exactly once.
- *Scoring.* At-least-once delivery against a non-idempotent leaderboard and
  rating update. Correct when an answer counts once and a match is rated once.
- *Payment.* Webhook retries, two services that change the plan, and a cache.
  Correct when a paid period is granted exactly once and not taken back early.
- *Referrals.* Two ways to apply a code, the first match and two payments touch
  one document and one field of the user, in three processes. Correct when each
  side is paid at most once and the dashboard tells what was paid.
- *Accounts.* Sign-ups look first and write later; only unique indexes and a
  SETNX stand between two that cross. Correct when names, addresses, Google ids
  and codes lead to one account.
- *Streaks and daily rewards.* Logins and claims read, compute with the clock and
  write; midnight may come between. Correct when the streak counts days in a row
  and a day is rewarded once.
- *E-mail codes.* Code and attempts are two keys with their own expiry, checked by
  separate commands. Correct when a code is used once and given up in time.
- *Notifications and reminders.* Tickers, queues and goroutines that restart
  forgets. Correct when nobody who should be told is left out, and nobody told
  twice.
- *Game streams.* Bounded channels, filled by four kinds of goroutines and closed
  by a fifth. Correct when a player sees the round that can be answered, and events
  in the order of the match.
- *Start-up.* Nothing orders the services. Correct when no event is dropped because
  its queue is not there yet.

`PROJECT.json` lists the hazards with the lines where they bite.

## 2. Modules

| Module | What it is |
|---|---|
| `MatchSubscriptions` | the streams of `SubscribeToMatch` and the sender's side of their channels |
| `Matchmaking` | extends it: Join, Leave, poller, room creation, quota and plan keys |
| `MCMatchmaking` | its instances |
| `Matchmaking_proofs` | theorems about `Matchmaking` |
| `QuizRoom` | one room of the quiz service from `match.created` to `match.finished` |
| `MCQuizRoom`, `QuizRoom_proofs` | instances and theorems |
| `AnswerLedger` | the promise: a round of a player enters its score at most once |
| `Scoring` | the answers of one room, from `SubmitAnswer` to the leaderboard; implements `AnswerLedger` |
| `MatchHistory` | extends it: the end of the match, `persistMatch`, history, statistics, referral conversion |
| `MCScoring`, `MatchHistory_proofs` | instances and theorems of `MatchHistory`, the implementation of `AnswerLedger` among them |
| `Payment` | premium plans: orders, webhooks, the upgrade's consumer, the expiry sweep, the warning worker |
| `Payment_proofs` | theorems about `Payment` |
| `PlanScreens` | what a user is shown of the plan, and its cached copy |
| `Accounts` | sign-ups, links, deletions, referral codes |
| `DailyStreak` | streak and daily reward of one user |
| `EmailCodes` | the verification codes of one address |
| `Referral`, `Referral_proofs` | from an applied code to the coins of both sides, and the theorems about it |
| `StreakReminders` | the two daily jobs of the auth service |
| `MCAuth` | the instances of the six modules above (without the proofs) |
| `Auth_proofs` | theorems about `Accounts`, `DailyStreak`, `EmailCodes`, `StreakReminders` and `PlanScreens` |
| `GameStreams`, `GameStreams_proofs` | the channels, broadcasts and snapshots of one room, and the theorem about them |
| `QuestionSelection` | topics, draws and order of a match's questions |
| `Tournaments` | joining, and the reminder ticker |
| `MatchInvites` | the invitations of recent opponents |
| `Notifications` | push messages and device tokens |
| `EventBus` | the services' start and the routes of their events |
| `MCEvents` | the instances of the six modules above |
| `Events_proofs` | theorems about `Notifications`, `MatchInvites`, `Tournaments`, `EventBus` and `QuestionSelection` |

### Matchmaking and MatchSubscriptions

One action is one access to a shared store together with the local code around
it: Redis runs a command or script atomically, `sync.Map` an operation, and
goroutines interleave between them. `call[c]` is a handler goroutine: `at` names
its next step, so `JoinMatchmaking` is `JoinReadUser` (MongoDB), `JoinReadCache`
(`GetPlan`), `JoinFillCache` (`SetPlan`), `JoinCharge` (`QuotaScript`),
`JoinDupCheck` (`ZSCORE`), `JoinAdd` (`ZADD`); `JoinFails` is its error returns.
`JoinChargeLate` is a `QuotaScript` whose caller worked out the next midnight before
it and runs after it: its EXPIREAT lies in the past and deletes the counter.
`LeaveRemove` (`ZREM`) and `LeaveRefund` (`RefundQuotaScript`) are
`LeaveMatchmaking`. The poller is a single goroutine with its program counter in
`poll`: `PollSize` (`ZCARD`), `PollPop` (`ZPOPMIN`), `PollLock`, `PollExec`
(`MULTI/EXEC`), `PollPutBack`, `PollPublish`, `PollNotifyLoad` and
`PollNotifySend` per player, `PollDone`. `PollSendPanics` is a send on a closed
channel: Go panics and nothing recovers it, so the process dies. A stream is a
record with its channel's buffer and whether it is closed; a call of
`SubscribeToMatch` goes through `SubscribeOpen` (`LoadAndDelete`),
`SubscribeCloseOld`, `SubscribeStore`, the select loop, and `SubscribeReturn`
(the deferred `Delete`). Surroundings: plans change in MongoDB
(`PlanChange`, payment's capture and expiry) before the cached copy is deleted
(`PlanDropCache`); other services refill the cache in two steps
(`PlanFillRead`, `PlanFillWrite`); `Midnight` resets the counters that have an
expiry. `matchedToday`, `carried` and `clean` are history variables used by the
properties only: the matches of the day, the places a user held when it began
(queued, popped, in a handler, and what a late script may cost the counter), and
who was free all day.

Left out: ratings (which of the pool ZPOPMIN takes is arbitrary), sequence
numbers. Match invites share no state with this and are `MatchInvites`. The room lock is on a fresh UUID, so only an error refuses it.

### QuizRoom

Rooms share only the process, so one room is modelled. `thread` gives every
goroutine's next step. A *slot* is a goroutine that sleeps and runs `startRound`
(`StartCheck`, `StartLoad`, `StartAnnounce`, `StartArm`) and then stands for the
`AfterFunc` timer and its `closeRound` (`TimerFires`, `CloseTry` with the SETNX,
`CloseResult`, `CloseComplete`). `Consumer` is `consumeRoundCompleted`. A *conn*
is a call of `StreamGameEvents`, whose end is four steps: the deferred delete
(`StreamEnd`), the count of who remains and the stop of the timer
(`StreamCount`), the look at `roomQuestions` (`StreamAsk`), and `finishMatch`
(`FinishEnd`, `FinishPublish`, `FinishCleanup`), which slots and the consumer
run too. `consumeMatchCreated` is the `Setup...` actions; questions are
abstracted to the number of the selection they belong to, which tells the list
in Redis (`listed`) from what the room asks (`loaded`). `asked` and `finished`
are histories of broadcasts and publications. `Restart` loses memory and streams
and brings an unacked `match.created` back; it is a `Crash`, one of the faults, or
`SendPanics`, which is none: a stream that ends closes its channel while a
broadcast to the room may hold it (`process` is then "panicking"), and a send on a
closed channel ends a Go process.

What a broadcast puts into which channel is `GameStreams`, and what
`consumeMatchCreated` selects is `QuestionSelection`.

Left out: sequence numbers (no client reads them), question contents, who wins
(`MatchHistory`), an Ack of `match.created` or `round.completed` that fails
(services/quiz/main.go:264), and the loss of the broker connection as a whole (the
services never reconnect; README:393 says to restart them). Either would deliver
a message again whose work was done, in a process that goes on;
`OneRoundAtATime` and `RoundsInOrder` say nothing of that.

### Scoring and MatchHistory

`Scoring` is one room. `answer` lists every `answer.submitted`; `queue` holds
those not yet delivered, in no order (answers of a room race each other, and a
requeued one is overtaken), and `current`/`step` say what the one consumer is
doing: `TakeAnswer` (delivery and `CalculateScore`), `RecordAnswer` (HSETNX),
`UpdateLeaderboard` (the Lua script), `AckAnswer`. Every call may fail, and the
two writes may also fail after taking effect; the message is then requeued. A
player may answer any round at any time, more than once: neither service looks
whether the round is open, has been asked, or exists. An answer to a round of the
list is scored, also before its question went out (`early`); one to any other
round (`Rounds + 1` stands for them) fails in `isCorrect` and is requeued each
time. `AskQuestion` is `startRound`'s `SetRoomRound`, whose error is ignored.

`AnswerLedger` sees of this the scores and the rounds that may still be scored
(`Unsettled`: no answer kept, or its points about to be added). Points can be
lost after HSETNX, never counted twice; the code accepts this, and so does the
ledger (`Lose`).

`MatchHistory` adds `finishMatch` (`FinishMatch`, at most `MaxEnds` times,
because `QuizRoom` shows that a match may be finished more than once) and
`persistMatch`: `PersistRead` (leaderboard), `PersistRounds` (players, round),
`PersistTally` per player, `PersistUpsert`, `PersistRate` per player,
`PersistRefer` per player, `PersistAck`. Both consumers run in one process, so
`Crash` interrupts both. The leaderboard's order is that of ZREVRANGE: by score,
equal scores by identifier, players being numbers. `announced` and `settled` are
histories: the first winner published, and whether every answer to a round of the
list was scored by then. A question asked after the end is allowed, which is more than the code
does.

Left out: Elo ratings and response times, the keys' expiry (30 minutes after the
last write), questions' contents, the relay of `leaderboard.updated`.

### Payment

`order` is the payments collection (an order has one payment here), `hook[h]` a
call of `handleWebhook`: `HookDeliver`, `HookKey` (SETNX), `HookUpdate`
(`UpdateOne`), `HookFind` (`FindOne`), `HookPublish`, `HookRollback` (the deletion
of the key and the 500, in the error branches). Razorpay is outside: it delivers
the webhook of a payment until one answer was 200, at any time, also twice at
once. `queue` is `payment-success-queue`; `CaptureRead`, `CaptureWrite` and
`CaptureAck` are `consumePaymentCaptured`, whose failed update is requeued.
`checkExpiredPlans` is `SweepStart` (the query) and `SweepDowngrade` per user found;
`sendPremiumExpiryWarnings` is `WarnStart`, and per user `WarnMark`, `WarnPublish`
and, when that fails, `WarnUnmark`. `user` is the three fields of a user's
document that they share. A unit of time is three days, the lead of the warning,
so the window of 71 to 73 hours is "one unit ahead".

Every call may fail cleanly, at no cost; `slips` counts what is worse: a call that
took effect although it reported an error, an update that is lost because its
error is ignored, the failed `FindOne`, and restarts. `published`, `grants`, `plans`
and `notices` are histories of publications, of upgrades per payment and per user,
and of warnings.

Left out: the expiry of the idempotency key after 72 hours, the order's creation
at Razorpay, notifications of activation and expiry. The cached plan is in
`Matchmaking`, where it opens the gate of the quota, and in `PlanScreens`.

### PlanScreens

`WritePlan` is the update of `users.plan` by either service, `DeletePlan` and
`DeletePlanFails` the `DelPlan` that follows it (or does not, its error being
ignored). A request goes through `OpenScreen` (`GetPlan`), `FindPlan`,
`FillPlan` (`SetPlan`) and, on the home screen, `ReadProfile`. `fresh`, `calm`
and the copy's `stray` are histories: whether a request still knows the stored
plan, and what may excuse a copy that is wrong.

### GameStreams and QuestionSelection

`Cast` begins a `broadcastToRoom` and `Visit` is one iteration of its `Range`:
the channel is looked up when the iteration gets there, so a stream that is stored
during a broadcast may be reached or not. A stream goes through `OpenStream`,
`ReadRound` and `SendSnapshot` (`sendStateSnapshot`), `Relay`, and the deferred
part (`EndStream`, `CountRemaining`, `MatchAbandoned`). The room's thread is
`StartRound`, `SetRound`, `ArmTimer`, `DeadlinePasses`, `CloseRound`,
`RoundCompleted`, `MatchFinished`, without the faults, which `QuizRoom` has.
PlayerJoined, TimerSync and LeaderboardUpdate only fill channels: an event may
find a channel full at any time, and the streams this happens to are remembered
(`dropped`). For the same reason the end of a stream may find one of those
broadcasts about to send on the closed channel; the process then stops
(`halted`). `SetRound` may fail (`unset`) and broadcasts all the same, `ReadRound`
may fail and then sends no snapshot; a stream that the question's broadcast had
passed by when this happened is remembered too (`misread`).

`QuestionSelection` is `selectQuestions`: `AllowTopics` (the plans of the room's
players, unreadable ones being free), `DrawBatch` per difficulty (`$match` and
`$sample`, which give fewer when there are fewer), `Shuffle`, and `PassOver`, one
iteration of the final pass. A question is its topic.

### Accounts, DailyStreak, EmailCodes, Referral

One action is one request to MongoDB or Redis. A sign-up of `Accounts` is
`Register`, `GuestLogin` or `GoogleSignIn` (the lookups), `DrawCode` (SETNX, and
SET after the last try), `InsertAccount` (the unique indexes decide: username and
email of auth's own start, services/auth/main.go:904-912, Google id and referral
code of the seed, seed/main.go:70-77) and, for Google, `SetReferralCode`; `LinkEmail` and `LinkUpdate` are a lookup and its
update.

`DailyStreak` reads the clock where the code does: `LoginDate` and `LoginCompute`
take today and yesterday separately. `LoginWrite` sets the whole streak under
`processStreak`'s filter; `ClaimGrant` is the one update of coins and date.

`EmailCodes` has GET, DEL, INCR, EXPIRE and the final DELs of `CheckEmailCode` as
`GetCode`, `AcceptCode`, `CountAttempt`, `ExpireAttempts`, `RetireCode`, for each
of the purposes that `VerifyEmailCode` tries in turn. Each command may fail. The
errors of those after the GET are ignored by the code; `errors` counts them for
the code that was checked. `Tick` lets keys expire.

`Referral` follows a code from `SignUpWith` or `ApplyCode` through
`CountConverted`, `InsertReferral`, `SetReferredBy`; a match through
`ReadReferredBy`, `PublishFirstMatch`, `AckMatchEnded`; and the event through
`ConvertReferral`, `PayReferrer`, `PayReferee`, `AckReferralEvent`.
`MatchHistory` checks when the event is published, this module what comes of it.

### StreakReminders, Tournaments, Notifications, MatchInvites, EventBus

A daily job of `StreakReminders` is `PlanJob` (the next time), `WakeJob` (the
query), `PublishNotice` per user, `FinishJob`. A day is three slots, and a job that
is due is assumed to finish in its slot.

`Tournaments` counts time in 2.5 minutes, so the ticker fires every two units and
the window, 25 to 35 minutes before a start, is four units long (shifted to 2..6
before the start, to keep behaviours short; only its length and its distance
to the ticks matter). `FindTournaments`, `PublishReminder` and `MarkTournament`
are a tick; a tick that finds another one waiting is lost, as in a Go ticker.
`JoinTournament` looks a tournament up by the text of the request. `TextIds` are the
tournaments whose `_id` is a text, which nothing in the repository makes: those of
the seed have ObjectIDs and cannot be joined (section 3). What the module says of
participants is about tournaments that somebody added with a text.

`Notifications`: `TakeNotice`, `LookUpUser`, `SendToDevice`, `AckNotice` per
consumer; `PullInvalidToken` is a goroutine that may run much later. FCM may refuse
a device that is not installed any more, and any device for an argument of the
message; both start a pull (`refused` remembers them until the device is
registered again).

`MatchInvites`: `TrySetThrottle` (SETNX, which may set the key though its answer is
lost) and `PublishInvite` per opponent, for any number of goroutines of the same
player.

`EventBus`: each service declares its queues (`StartService`), starts its
consumers (`StartConsumers`) or exits because a queue is missing
(`ConsumerExits`). `BoundFor` is the bindings, `Reaction` what a consumer
publishes on an event, `missed` every event that found no queue.

## 3. Runs

All instances use symmetry only with safety properties.

| Run | Instance | What it shows |
|---|---|---|
| `MatchQuota` | 2 users, 2 handlers, 2 rooms, 3 streams, channel capacity 1; in a behaviour either failures, or midnights, or midnights and one user's plan changes with stale caches, or streams of one user | types; every place of a free user is paid for; a match a day and what midnight carried over; rooms have opponents; only written rooms are announced; stored channels are open and closed once |
| `MatchLive` | 2 users, 1 handler, 2 streams, fairness | a subscribed player hears of the room, after it was announced; no two players wait together forever; only a lone player is dropped |
| `QuizRounds` | 3 rounds, 2 players, 2 connections, 2 slots, 2 selections, faults | types; one round at a time, in order; truthful counts; finished once if all stay |
| `QuizEnds` | 2 rounds, 2 players, 2 connections, fairness | a started match ends, unless a leave during a broadcast panics the process |
| `ScoreHistory` | 2 players, 1 failure, fairness; either 3 late answers to 2 rounds, one perhaps to a round that does not exist, or 2 answers to one round and 2 ends, or an answer to a round that was not asked yet | scores are backed by kept answers; the ledger is implemented; answers to the match's questions are kept; history explains the scores but for early answers, is final and is eventually written; winners agree; statistics counted once per end; first match converts a referral |
| `PaymentPlans` | 1 user, 2 payments, 2 webhooks at once, 3 units of time, 1 slip, fairness | types; no payment forgotten; granted and warned once; premium is paid for; what is published is granted; expired plans end |
| `Auth` | one of eight parts per behaviour: 3 sign-ups and a link; 2 requests over 4 days; an address' codes one after the other, and one code under 2 requests; 1 referee with failures, and 2 without; the jobs over 4 days; a plan with 2 changes and 2 requests | the six properties of section "What the safety properties say" |
| `Events` | one of eight parts per behaviour: a room's streams (2 rounds, 2 players, 2 streams); 3 tournaments, one of them the seed's; 2 messages, 2 queues; 2 opponents, 3 goroutines; 4 banks; the services' start with a match, a payment, or notices | likewise |

Runs that find a disagreement between the code and what the repository says of it:

| Run | The code | The words |
|---|---|---|
| `QuizReconnect` | the old stream's end deletes its successor's channel, finds the match's questions loaded and publishes that the opponent left while both players have a stream | "Reconnection-safe" |
| `QuizRedelivered` | redelivery appends a second question list | "stores the ordered question IDs" |
| `PaymentLost` | an error of `FindOne` is answered with 200, and the paid upgrade is gone | "must succeed or rollback" |
| `StreakMidnight` | a login that straddles midnight puts the old claim date back, and the day is rewarded twice | "can't double-process streaks or farm daily reward coins" |

### What the safety properties say

The invariants of `Auth` and `Events` are each a module's types with its other
properties, which are:

- `AccountSafety`: a name, an address, a Google id and a referral code lead to one
  account, whatever sign-ups, links and deletions cross; a code leads to its
  account unless it was taken by force.
- `StreakSafety`: without a request at midnight the streak is the number of days
  in a row, the longest streak is right, and each day is rewarded at most once, with
  the coins of the real streak; even with one, no day without a login is rewarded.
- `CodeSafety`: requests that overlap may each accept a code, no later one can;
  requests one after the other accept it once and get at most `MaxAttempts` wrong
  tries. Each command that fails after the GET lets the code be accepted once more,
  or gives `MaxAttempts` more tries, and no more than that.
- `ReferralSafety`: a referral pays each side at most once, and only when converted;
  while nothing fails and no user's requests overlap, the dashboard's coins are
  those paid.
- `WarningSafety`: at most one notice per job, day and user, never after that day's
  login; and without failures no streak is lost without a warning.
- `PlanShownSafety`: after a change is complete the cached plan is the stored one,
  with the exceptions named in the module; an undisturbed request shows it.
- `StreamSafety`: while a round can be answered, a stream that has relayed
  everything shows its question, unless an event was dropped for it, or it came
  after the broadcast and the round could not be set, or read for its snapshot;
  events arrive in the order of the match.
- `ReminderSafety`: a marked tournament has reminded everyone who had joined when
  its window opened; one late or failed tick, or one restart, is made up for; only
  participants are reminded, and the seed's tournaments never have any.
- `PushSafety`: a message that is gone was sent to every device its users kept;
  a device that is registered stays registered unless FCM has refused it since, or
  a pull was already to come.
- `InviteSafety`: one invitation of an opponent per key, whichever goroutine wins.
- `SelectionSafety`: no premium topic in a room with a free player; the final pass
  loses nothing and leaves repetitions at the end only; five questions when the
  bank has enough.
- `StartSafety`: in whatever order services start, only early notices are dropped,
  everything else is handled or waits, and only scoring exits for want of a queue.

Other disagreements seen while modelling, which the models exhibit unless the line
says otherwise, but no run is kept for:

- the daily quota and midnight: a player who is queued, popped or past the gate at
  midnight is matched on the new day without a charge; a refund that began before
  midnight takes back the charge of a join made after it, where pkg/keys/redis.go:320
  says the guard turns it into a no-op "after quota reset" and :304 that it keeps a
  stray refund off a fresh counter (it only keeps the counter from going below
  zero); and a `QuotaScript` that runs after the midnight it was sent with deletes
  the counter or leaves it at -1 without an expiry. Each gives a free user another
  match (`carried`).
- a player who leaves while a broadcast holds the channel of its stream makes the
  quiz service panic, which nothing recovers; its matches are not finished and,
  their messages being acked, not started again.
- an answer is published and scored whatever its round (services/quiz/main.go:871-896
  and services/scoring/main.go:108-115): one for a later round scores before its
  question is asked, and is not listed in the history if the match ends first. One for
  a round that does not exist is requeued forever: services/quiz/main.go:973-978 and
  services/scoring/main.go:710 mean to dead-letter it after three deliveries, but
  `x-death` does not grow when a message is requeued and a classic queue has no
  delivery limit.
- scoring: README:271-277 gives a multiplier of `max(0.5, 1.0 - t/15000)`, at most 1.0;
  services/scoring/main.go:90-96 has 1.5 below 5 s, 0.8 above 13 s and 1.0 between.
- e-mail codes: a valid code is dropped for "one-time use" (pkg/keys/redis.go:240) by a
  DEL whose error is ignored, so it may be used again; the errors of INCR (:246) and
  of the DELs after the last attempt (:249-250) are ignored too, and each gives a
  code three more tries.
- rounds: `startRound` ignores the error of `SetRoomRound` (services/quiz/main.go:314)
  and a snapshot whose round cannot be read is not sent (:600-602), where README:174
  says the stream is reconnection-safe: a player who comes back then sees the
  previous question under the new deadline, or none.
- tournaments: the seed, the only program that makes tournaments, leaves their `_id`
  to MongoDB (seed/main.go:206-211), and `JoinTournament` looks for the request's text
  (services/quiz/main.go:849, 860), which no ObjectID equals. Nobody can join the "2
  sample tournaments" of README:106, and their reminders go to nobody.
- a player popped alone by the poller (`tryCreateRoom`, the pool having shrunk
  after ZCARD) is dropped with its charge, where main.go:224 of the matchmaking
  service says a popped player's quota "was spent on a real match".
- the deferred `Delete` of a replaced `SubscribeToMatch` removes its successor's
  channel, the same fault as `QuizReconnect` shows in the quiz service.
- an answer that arrives while a match is being finished can change the winner
  between the announcement and the history.
- statistics are counted again when `match.finished` is delivered again,
  although the history is not.
- points are lost when the leaderboard update fails after HSETNX.
- `JoinMatchmaking` allows one free quiz a day (and the home screen shows a limit
  of one) where README:285 says five.
- `LeaveMatchmaking` refunds a user who was charged while free and is premium
  now, where `RefundQuota` is said to be a no-op for premium users.
- `startRound` finishes (and publishes) a match again that a disconnect finished
  during its sleep.
- a forfeit is won by whoever leads the leaderboard, also the player who left.
- a round that finds nobody connected never starts, however many players join
  later.
- a reconnect between the poller's load of a channel and its send closes the
  channel, the send panics, nothing recovers it, and the other players of the
  batch never hear of a room that README:166 says `SubscribeToMatch` fires for.
- plans: a renewal loses the remaining days (services/scoring/main.go:1196 says
  "don't lose remaining premium days on renewal") because the date in a `bson.M`
  is the driver's own type and the assertion to `time.Time` never holds.
- plans: a renewal while `checkExpiredPlans` walks the users it found is undone
  by the downgrade.
- plans: a renewal between the search and the mark of the warning worker leaves
  the mark on the renewed plan, which is then not warned of.
- plans: a webhook delivered while another delivery of it is in progress is
  answered with 200, although the first may fail and delete the key, counting on
  a retry.
- plans: a restart between the key and the publication leaves a key that turns
  every retry away.
- referrals: the cap of 20 is looked at when a code is applied, so any number of
  pending referrals may convert; `DeleteAccount` leaves the referrals, which
  README:156 says it deletes.
- e-mail codes: the count of attempts outlives a code that was not used, so a fresh
  code may have fewer than three tries; the flag that `VerifyEmailCode` stores for
  an address without an account is read by nobody.
- sign-up: a Google account whose name is taken cannot be made, and is refused.
- streaks: the longest streak stays 0 after the first login; the nudge of README:219
  at 09:00 comes at 08:00; a lapsed streak is warned of every evening, since nothing
  resets `current`.
- start-up: "Each service declares its own queues" (README:207), but scoring
  consumes three queues that only the quiz service declares, and exits when it is
  first on an empty broker; `leaderboard-updated-queue` has no consumer and grows;
  notices sent before scoring or notification was ever up are dropped.
- questions: "ensure no adjacent topics repeat" (services/quiz/main.go:148) holds up
  to a tail of one topic.
- plans: a user that could not be read is cached as free for five minutes;
  `GetPlanStatus` expects a `time.Time` where the driver gives its own type.
- streams: the server ignores the `sequence_number` that a reconnecting client sends,
  and its own numbers start again when a match is finished
  (services/quiz/main.go:548); no client reads them.
- push: every error that FCM calls an invalid argument removes the token, also one
  that is the message's fault: an installed device then gets nothing until it is
  registered again (`refused`); and a removal that is late takes a device that was
  registered again meanwhile.

Why the bounds are enough: the hazards are races of at most two requests of one
user with the poller, so two handlers and two users produce every order of them
(batches of any size are covered by `RoomSafety` below); three streams are
needed for two concurrent replacements of one. `DailyLimit` is 1 as in the code.
The rooms of a behaviour are bounded by `|Rooms|` (a used identifier is not used
again), a stream or connection is used once, and `MaxSelected` bounds
redeliveries that get as far as a new selection. Channel capacity 1 (10 in the
code) makes full buffers reachable. In a room, two slots exist although one
suffices: a second concurrent round could start if the code allowed it. Two
answers to one round and one to another are the least that make a repetition
race a new answer, hence `MaxAnswers` 3 where answers are the question; their
time, 15001 ms, is clamped and tests the slow multiplier, the 4000 ms of the
other behaviours the fast one. In `PaymentPlans` two payments are a purchase and its renewal, two
handlers the concurrent deliveries, `MaxTime` 3 with terms of 2 units lets a
plan be warned of, expire and be renewed at each point of that; users do not
interact. `MaxFaults` 1 (`MaxSlips` 1 in `PaymentPlans`) puts one failure or
restart at every step; `MaxEnds` 2 is a match ended twice. One round
suffices for the history since rounds are read alike. The proofs below do not
depend on any of these bounds.

`Auth`, `Events` and, in part, `MatchQuota` and `ScoreHistory` choose a *scenario*
in their initial state and stay in it: their parts share no variable, so the
product of the parts has no behaviours that the parts do not have (`MCAuth` and
`MCEvents`); or the product is out of reach, and each scenario is the
surroundings of one kind of hazard (`MCMatchmaking`, `MCScoring`). What a scenario
restricts, and why it loses nothing or little:

- `InTurn`, `PublishedInTurn`, `LeastRoom`, `OneSubscriber` order equal things;
  `RelayFirst` runs a step first that only its own player sees.
- `"faults"`, `"nights"`, and a user whose plan changes, in `MCMatchmaking`: failures
  without midnights, midnights without failures, plan changes with midnights and one
  handler and room at a time (`OneHandler`, `OneRoom`; other services' cache fills
  are its rivals). `LastDay`: what midnight carried over is looked at for one more
  day.
- `"answers"`, `"history"`, `"early"` in `MCScoring`: answers race one another without
  rounds or an end, which scoring does not look at; the end of a match with answers to
  one round; and an early answer of one player, which the history may miss.
  `FewEvents`: two answers and two ends come together only while nothing has failed.
- `TwoSignUps`: a third sign-up (a third party to a race for a name) only without
  a link and without faults.
- `LateThreeDays`: a request at midnight, in one of the first three of four days;
  four days make a streak that breaks, starts again and passes the old one.
- `"code"`/`"codes"`: two codes and five wrong tries one after the other, one code
  when requests overlap: overlapping requests race for a code, not for two. With
  `MaxAttempts` 2 (3 in the code) and one failing command for one of the codes
  (`MaxErrors`, `OneCodeFails`) five tries are one more than can be had;
  overlapping requests make `MaxAttempts` wrong tries at most (`FewTries`), as the
  limit on tries is only promised to requests in turn. Keys live 2
  ticks and the rate limit 1, so a second code meets the first one's count.
- `OneReferee`/`OneMatchEach`: two matches and failures for one referee, or two
  referees of one match each for the cap of 1.
- `FewCasts`, `MaxDropped` 1: two broadcasts at once are enough to reorder events;
  a third one has a channel of its own to be wrong about only with a third stream.
  One stream misses an event or a snapshot, for one reason: each reason excuses
  its own stream only, so two would excuse both players. After a round was not set
  or not read one broadcast at a time is left, as these errors meet the round's own.
- `OneRefused`: FCM refuses the device of one of the two users; the other one's pushes
  must not suffer from it.
- `MaxMisses` 1 is what `ReminderSafety` promises to survive, and it is asked for
  with at most one; `Starts` 7 and 8 lie on a tick and between two, for the two
  tournaments that can be joined; the seed's starts with one of them.
- `MatchBanks`: plenty, one question of two topics, one topic, two topics; four
  topics suffice for a final pass over five questions to fail.
- `OneStory`/`Concerned`: only the services an event concerns start; the others'
  queues are not bound for it.
- three goroutines and two opponents in `MatchInvites`: a race of two and a later
  one that meets the key; two slots of two queues in `Notifications` for two
  messages at once for one user and device.

Fairness: a started handler, the ticker-driven poller, sleeping goroutines,
timers and consumers take their next step eventually (weak fairness), because Go
schedules runnable goroutines and tickers fire. Nothing is assumed of users:
joins, leaves, connects, disconnects and scores may never happen. Liveness runs
of rooms have no failing calls: a lost publication ends a match in the code, and no retry
exists. `ScoreHistory` does have one: there the queues retry. Its consumers
are weakly fair (`for` loops over a delivery channel); answers, questions and the
end of the match may never come. `PaymentPlans` assumes the payment consumer and
the 15-minute expiry ticker fair, nothing of webhooks, warnings or time, and
its failures are at most `MaxSlips`: a MongoDB that fails forever grants nothing.

`CHECK_DEADLOCK FALSE` is set in the `QuizRoom` runs and `ScoreHistory` (a room
ends), and in `Auth`, `Events` and `StreakMidnight`, whose behaviours end at their
bounds: the last day, the last start, every request used. `Auth` and `Events` check
invariants only, hence no fairness.

## 4. Proofs

`Matchmaking_proofs` (assumptions: `Users` finite, `MaxBatch` at least 2, channel
capacity at least 1, `None` distinct from everything, plan changers are users,
finitely many handlers):

- `TypeCorrect`: `Spec => []TypeOK`, by one lemma per group of actions.
- `PlacesPaid`: `Spec => []PlacesArePaid`, and `ChargeSafety`:
  `Spec => []FreeMatchesPerDay`, which follows as the counter is at most the limit. A
  match a day is not inductive by itself: the counter says nothing of charges that
  are under way. `PlacesArePaid` counts them: what a user holds (handlers, pool,
  poller, and twice for a handler whose script will be late) and got today is at most
  the counter and what the day began with. No step between midnights raises the
  left side by more than the right one (`StillPaid`: `HandlerPays`, `PollPays`,
  `DiePays`); a midnight makes them equal. `DayInv` adds `FreeEverywhere` (a user
  free all day is free in MongoDB, in the cache and in the hands of whoever refills
  the cache, so the gate never lets it by).
- `RoomSafety`: `Spec => []RoomHasOpponents`, from what the poller holds between
  the pop and the write.
- `ChannelsSafe`: `Spec => []ChannelSafety`. `ChannelInv` says whose a channel is
  at each step: a stored one is its user's, open, and its handler still runs; one
  that is about to be closed was stored, is so no more, and has one closer.
- `RoomsWritten`: `Spec => []AnnouncedRoomsWritten`. `WrittenInv`: whatever room a
  channel's buffer or the poller's batch names has been written, and the room
  about to be written has an identifier that no room has.
- `HeardIsAnnounced`: `Spec => []HeardRoomIsAnnounced`, and `LoneWaiterDropped`:
  `Spec => DropsOnlyALoneWaiter`, both with `Faults = FALSE` as a hypothesis, since
  both properties say "as long as nothing fails" (`MatchLive` checks them so): a lost
  publication breaks the first, a room that could not be written the second.
  `HeardInv` follows a room from the publication into a channel's buffer. The
  second needs only that the poller asks for two players at least (`WantsTwo`);
  `PopDrops` says what a pop of that size may leave behind.

`QuizRoom_proofs` (assumptions: `Rounds` and `MaxSelected` positive, the names of
goroutines disjoint):

- `TypeCorrect`, strengthened by `RoundBound`: what a goroutine carries is a round
  of the match.
- `RoundSafety`: `Spec => [](OneRoundAtATime /\ RoundsInOrder)`. The order of the
  questions follows from there being one carrier of the match at a time, with the
  round that the questions asked so far call for. The invariant adds that a
  `match.created` in the handler's hands is not acked (`SetupHolds`).
- `CountSafety`: `Spec => []FullCountMeansAllAsked`, by following the full count
  back to the last round's message (`SignalTrue`).
- `FinishedOnce`: `Spec => []FinishedOnceIfAllStay`. `EndInv`: while every stream
  stays, a goroutine that is about to publish `match.finished` is what carried the
  match, so nothing else carries it (`Over`) and no second goroutine is about to;
  after the publication nothing carries it. It rests on `OneRoundAtATime`.

`MatchHistory_proofs` (assumptions: finite players, positive identifiers,
`Rounds` positive, any answer times and bounds):

- `AnswersTyped`: `Spec => []AnswerInv`, which is the types of the answer side,
  `KeptOwn` (the answer kept for a round is the player's own to that round) and
  `UpdateKept` (points are about to be added only for an answer that is kept).
- `AnswersScoredOnce`: `Spec => ScoredOnce`. `UpdateKept` is what makes leaving the
  update step settle exactly one round of one player: HSETNX took effect, so the
  round's answer is the current one, and by `KeptOwn` no other round's is. Taking,
  acking, asking and persisting are stutters; a failed update or a restart after
  HSETNX is `Lose`.
- `MatchPersisted`: `Spec => []PersistSafety`, in three parts. The types of the end
  of a match need `LoopsEnd` (a loop over players ends when none is left).
  `CountInv`: for each player, what is counted, the messages that wait and the
  message that may still be counted (`Spent`) are at most the publications and the
  failures. `WinnerInv`: when all answers to the list's rounds were in (`Awaited`), every message names the
  leaderboard's first and the run has read that leaderboard (`SettledWinner`), and
  before a publication there is nothing to persist.
- `ReferralsConvert`: `Spec => []FirstMatchConverts`. `ConvertInv`: who is on the
  board is in the history, and has a conversion or is still to come in the loops of
  the run that wrote it (`ConversionDue`).
- `HistoryExplained`: `Spec => []HistoryExplainsScore`. `ExplainInv`: the leaderboard
  never runs ahead of the answers that are kept (`Explained`), so whatever
  `persistMatch` read of it first is explained by what it finds, or has found, of
  them later (`JobExplained`, `Worth`), or by the early answers it does not reach
  (`Untold`); answers only grow meanwhile (`Grows`).
- `ScoresBacked`: `Spec => []ScoreIsBacked`. `KeptPoints` is a fold over all
  rounds. That the fold adds up, and that changing one number changes the sum by as
  much, is induction on a set; it is made by taking a smallest counterexample
  (`SmallestNumber` and `SmallestSubset`, from the library's `WFMin`), in
  `SumExists`, `SumOfNumbers` and `SumChanges`.

`Payment_proofs` (assumptions: `None` distinct, terms positive; any number of
users, payments, concurrent webhooks and slips):

- `PremiumPaid`: `Spec => []PremiumIsPaid`, from `PaidSteps`: a handler past the
  update, a queued message and the consumer's hands all hold captured payments.
- `PaymentFollowed`: `Spec => []PaymentIsFollowed`. The second half needs
  `AckedIsGranted` (what the consumer is about to ack was granted). All steps of a
  handler after its delivery are instances of one lemma, `HandlerStep`, and the
  consumer's of another, `ConsumerStep`.
- `GrantOnce`: `Spec => []GrantSafety`, the types, `GrantedOnce` and
  `WarnedOncePerPlan`. `OnceInv`: a payment's key is in the hands of one handler
  (`OneHandler`), and while a publication is still to come there is room for it in
  the publications, and in the upgrades made and those in the queue and the
  consumer's hands (`Sent`). `NoticesFit` counts the warnings of each of a user's
  plans: a plan that a renewal began during the sweep was not warned of, so taking
  the mark back, which may then concern the new plan, costs nothing.

`Auth_proofs` (one section per module; identifiers of names, addresses and codes
positive, sets of requests finite, times to live positive with the rate limit's not
the longer; any number of users, days, codes, attempts and failures):

- `AccountsStayApart`: `AccountSpec => []AccountSafety`. That the code of an account
  leads to it needs that the code a sign-up holds does (`CodesAreOwned`), and that a
  sign-up's account does not exist before it inserts it (`NotInsertedYet`); that
  there is one account per name, address and Google id rests on the unique indexes,
  and on what a sign-up has worked out before it inserts (`SignUpsFit`). An account
  without a code is that of a Google sign-in that still draws or sets one
  (`CodesArrive`).
- `StreakIsKept`: `StreakSpec => []StreakSafety`. `StreakInv` has two layers.
  Whatever happens at midnight, dates in the streak and in a request's hands are
  those of logins (`DatesAreLogins`). While no request met a midnight, each has read
  the streak as it is now, or today's login was written since
  (`RequestsAreOfToday`). Counts of days in a row are cardinalities of intervals
  (`Row`, `Run`) with lemmas on how a login extends them.
- `CodesAreGivenUp`: `EmailSpec => []CodeSafety`. `CodeInv`: a code was accepted, and
  is about to be accepted, by as many requests as there are at most, and once more
  for each failed command (`AcceptingFit`); while requests come one after the other
  (`CalmRequests`) the count of wrong tries in Redis covers those of the code that is
  kept, less the `MaxAttempts` that each failed command hides (`Excused`), and does
  not expire before it (`CalmCounts`).
- `StreaksAreWarned`: `ReminderSpec => []WarningSafety`. `WarningInv`: a job sleeps
  until its next slot and publishes in it, for users it has not noticed today
  (`JobsFit`); while nothing failed, in the evening's slot whoever may lose a streak
  is warned or among those the job still has before it (`WarnedTonight`).
- `PlanShown`: `PlanSpec => []PlanShownSafety`. The copy may be wrong only while
  somebody can still correct it or is excused: `CopyFollowsPlan`, and
  `RequestsKnowPlan` for what a request is about to store. By `OneRequest` a
  step of one request concerns the others only through the copy.

`Referral_proofs` (any number of users, matches, codes and handlers):

- `ReferralTyped`, strengthened by `SeenReferrer`: what the consumer is about to
  count has a referrer.
- `ReferralPaid`: `ReferralSpec => []ReferralPaysOnce`, each side is paid at most once, with failures. `PaidOnce` per
  referee: nobody was paid for a referral that is not converted, and whoever is
  about to be paid was not.
- `ReferralSafe`: `ReferralSpec => []ReferralSafety`, with the dashboard's coins
  while nothing has failed and no user's requests crossed. What a request has read
  (`RequestKnows`), the user's field and the referral (`ReferrerAgrees`), the event
  on its way (`CarriedAgrees`) and the counters (`PaidAgrees`) then agree.

`Events_proofs` (one section per module; any number of messages, devices,
goroutines, participants and failures; the queues' names are not those of the two
other places of a message; the ticker's interval fits twice into the reminder
window, as 5 minutes do into 10; the bank has a topic, and a number of questions
for each difficulty and topic):

- `PushSafe`: `PushSpec => []PushSafety`. `OwedInv` follows what is owed: a device
  its user kept was tried, or the message waits in its queue, or its consumer has
  the user or the device before it. `PullsInv`: the tokens on their way to be pulled
  are among those refused since they were registered last.
- `InvitesThrottled`: `InviteSpec => []InviteSafety`. A key was won by one goroutine
  (`WonOnce`), which has no other (`OneWon`), and its invitation is sent, lost or in
  that goroutine's hands (`OnePlacePerKey`); one whose SETNX lost its answer counts as
  lost.
- `ParticipantsReminded`: `TourneySpec => []ReminderSafety`. `ChancesLeft` says by
  when the ticker will look next, that is, that a tournament whose window has opened
  is found a tick later, or two if one was missed. `DocsFit` and `MarkedFit`: whoever
  joined before the window opened is in the document that a pass has read, or
  reminded. `JoinedInv`: whoever is in such a document, or was reminded, is a
  participant, and the tournaments without a text have none.
- `EventsRouted`: `BusSpec => []StartSafety`. A service that has started has declared
  its queues, which stay (`StartedHaveQueues`); what waits was published and is bound
  for that queue; answers come from a quiz service that has started.
- `QuestionsSelected`: `SelectSpec => []SelectionSafety`. `BatchIsLong`: a batch has
  its full number or no topic has enough, since otherwise as many questions of that
  topic would be a longer sample. A swap is a bijection of the positions of each
  topic, so the pass loses nothing (`SwapKeeps`); where it has been, a topic that
  repeats is that of all the questions after it (`PassFit`).

`GameStreams_proofs` (any number of players, streams and rounds):

- `StreamsSafe`: `GameSpec => []StreamSafety`. The order of events needs that a
  stream still to be visited has nothing of the event being broadcast or past it
  (`OrderInv`), and that broadcasts follow the match (`CastsAgree`). That the
  question is shown needs, from the moment the question is broadcast, that each
  stored stream is still to be visited, or comes to the question when it has relayed
  its channel, from the channel or from its snapshot, or has missed it for one of
  the reasons named (`ShownInv`, `ComesTo`, `Missed`); a step that forgets to set
  the round before the broadcast breaks exactly this.

With these every safety invariant and action property that a run checks is a
theorem. The lemmas about counting and sums are proved from the library's facts on
bijections and minimal elements; its induction theorems take an operator as a
parameter, which the provers cannot instantiate.

Model-checked only: liveness (`SubscribedPlayerHears`, `NoPairWaitsForever`,
`StartedMatchEnds`, `AnswerIsKept`, `FinishedIsPersisted`, `PublishedIsGranted`,
`ExpiredPlanEnds`), since fairness and ENABLED are outside the prover, and the four
violations, which are counterexamples.

## 5. Not modelled

- Generated code (`proto/`, half of the implementation's lines), seed data,
  deployment and the test programs: no logic of their own.
- The Flutter client: presentation, and one user's view of the services.
- Tokens, password hashes, mail templates and formatting: pure functions.
- Queries of scoring other than those that fill the plan cache (leaderboards,
  history, analytics): they read and format.
- The content of `TimerSync` and of the relayed leaderboards: the clients show
  whatever came last. Here they only fill channels.
- AMQP frames. `publishMatchInvite` and the poller publish on one channel without
  a lock (services/matchmaking/main.go:192), where other services have a mutex;
  what interleaved frames do is the client library's matter.
- The loss of a broker connection: no service reconnects, README:393 says to
  restart them, and restarts are modelled.
- Elo arithmetic, response-time averages and the win streak's values.

## 6. Plan

Done: matchmaking with its streams and invitations, one room's rounds, its
streams and the selection of its questions, answers, the end of a match, premium
plans and their screens, accounts, streaks, codes, referrals, tournaments, push
messages, and the start of the services. Next:

1. The safety that the liveness properties rest on, as theorems: what each step
   under fairness leads to, and that no step leads back.
2. `Match`: what a match promises a player (queued, matched or refunded, asked in
   order, ended once), implemented by `Matchmaking` with `QuizRoom`.
3. `GameStreams` as an implementation of the broadcasts of `QuizRoom`, with its
   faults.

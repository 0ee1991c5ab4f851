------------------------------ MODULE EventBus ------------------------------
(***************************************************************************)
(* The services as they start, exit and start again on a broker that knows *)
(* no queue yet, and the events they send one another through its topic    *)
(* exchange "sx" (main, setupRabbitMQ, publish and the consumers' first    *)
(* lines in services/*/main.go).                                           *)
(*                                                                         *)
(* The exchange drops an event that no queue is bound for.  A consumer of  *)
(* a queue that does not exist ends its process (log.Fatalf).  Nothing     *)
(* makes one service wait for another: docker-compose.yml lets each wait   *)
(* for Redis, RabbitMQ, MongoDB and the seed only.                         *)
(*                                                                         *)
(* One event of each kind is enough: what is asked is where it goes.       *)
(***************************************************************************)
EXTENDS Naturals, Sequences, SequencesExt

CONSTANT
    MaxFailures \* bound: services that fail to start, or die

ASSUME MaxFailuresAssumption == MaxFailures \in Nat

VARIABLES
    service,   \* what each process has got to
    queues,    \* queues that are declared and bound; they are durable
    waiting,   \* events in each queue
    handled,   \* history: events that each queue's consumer acknowledged
    published, \* history: events sent to the exchange
    missed,    \* history: event and queue, not bound yet when it was sent
    exits,     \* history: service and the queues it lacked when it exited
    failures   \* services that have failed to start, or died

busVars == <<service, queues, waiting, handled, published, missed, exits,
             failures>>

Services ==
    {"auth", "matchmaking", "quiz", "scoring", "payment", "notification"}

(* The queues that each service's setupRabbitMQ declares and binds, in     *)
(* this order; auth makes sure of the exchange only.                       *)
MatchmakingQueues == <<"match-created">>
QuizQueues == <<"answer-processing", "round-completed", "match-finished",
                "match-analytics", "leaderboard-broadcast">>
ScoringQueues == <<"leaderboard-updated", "payment-success",
                   "referral-event", "push-notification">>
PaymentQueues == <<"payment-success", "premium-expiry">>
NotificationQueues == <<"push-notification", "premium-expiry">>

SetupQueues ==
    [auth |-> <<>>, matchmaking |-> MatchmakingQueues, quiz |-> QuizQueues,
     scoring |-> ScoringQueues, payment |-> PaymentQueues,
     notification |-> NotificationQueues]

BusQueues == UNION {ToSet(SetupQueues[s]) : s \in Services}

(* consumeMatchCreated declares its queue by itself, once more.            *)
DeclaredOnConsume_None(s) == {}
DeclaredOnConsume(s) == IF s = "quiz" THEN {"match-created"} ELSE {}

(* The queues whose consumers each main starts.  The poller of matchmaking *)
(* and the workers of payment consume nothing.                             *)
MatchmakingConsumers == {}
QuizConsumers == {"match-created", "round-completed", "leaderboard-broadcast"}
ScoringConsumers == {"answer-processing", "match-finished", "match-analytics",
                     "payment-success", "referral-event"}
PaymentConsumers == {}
NotificationConsumers == {"push-notification", "premium-expiry"}

ConsumedBy ==
    [auth |-> {}, matchmaking |-> MatchmakingConsumers, quiz |-> QuizConsumers,
     scoring |-> ScoringConsumers, payment |-> PaymentConsumers,
     notification |-> NotificationConsumers]

(* What a service sends by itself: on a request, by a timer, or in a job.  *)
SentBy ==
    [auth |-> {"notif.streak.warning"},
     matchmaking |-> {"match.created", "notif.match.invite"},
     quiz |-> {"answer.submitted", "round.completed", "match.finished",
               "notif.tournament.remind"},
     scoring |-> {},
     payment |-> {"payment.captured", "premium.expired",
                  "notif.premium.expiry"},
     notification |-> {}]

EarlyNotices == {"notif.streak.warning", "notif.match.invite",
                 "notif.tournament.remind", "notif.premium.expiry"}

Notice == EarlyNotices \cup
          {"notif.premium.activated", "notif.referral.converted"}

(* The events that a queue is bound for (payment.*, referral.*, premium.*  *)
(* and notif.# are the patterns of the last four).                         *)
BoundFor(q) ==
    CASE q = "match-created" -> {"match.created"}
      [] q = "answer-processing" -> {"answer.submitted"}
      [] q = "round-completed" -> {"round.completed"}
      [] q \in {"match-finished", "match-analytics"} -> {"match.finished"}
      [] q \in {"leaderboard-broadcast", "leaderboard-updated"}
           -> {"leaderboard.updated"}
      [] q = "payment-success" -> {"payment.captured"}
      [] q = "referral-event" -> {"referral.first_quiz_completed"}
      [] q = "premium-expiry" -> {"premium.expired"}
      [] q = "push-notification" -> Notice

BusEvents == UNION {BoundFor(q) : q \in BusQueues}

(* A room's events come after the quiz service has been told of it.        *)
Caused(k) ==
    k \in {"answer.submitted", "round.completed", "match.finished"}
        => "match.created" \in handled["match-created"]

(* What a consumer sends on an event of its queue.                         *)
Reaction(q) ==
    CASE q = "answer-processing" -> {"leaderboard.updated"}
      [] q = "match-finished" -> {"referral.first_quiz_completed"}
      [] q = "payment-success" -> {"notif.premium.activated"}
      [] q = "referral-event" -> {"notif.referral.converted"}
      [] OTHER -> {}

ServiceAt == {"down", "serving", "consuming"}

BusTypeOK ==
    /\ service \in [Services -> ServiceAt]
    /\ queues \subseteq BusQueues
    /\ waiting \in [BusQueues -> SUBSET BusEvents]
    /\ handled \in [BusQueues -> SUBSET BusEvents]
    /\ published \subseteq BusEvents
    /\ missed \subseteq BusEvents \X BusQueues
    /\ exits \subseteq Services \X SUBSET BusQueues
    /\ failures \in 0..MaxFailures

BusInit ==
    /\ service = [s \in Services |-> "down"]
    /\ queues = {}
    /\ waiting = [q \in BusQueues |-> {}]
    /\ handled = [q \in BusQueues |-> {}]
    /\ published = {}
    /\ missed = {}
    /\ exits = {}
    /\ failures = 0

Fail == failures < MaxFailures /\ failures' = failures + 1

-----------------------------------------------------------------------------
(* main: connect, set the queues up, serve.                                *)

StartService(s) ==
    /\ service[s] = "down"
    /\ queues' = queues \cup ToSet(SetupQueues[s])
    /\ service' = [service EXCEPT ![s] = "serving"]
    /\ UNCHANGED <<waiting, handled, published, missed, exits, failures>>

(* A connection or a declaration fails, and the process exits.             *)
StartFails(s) ==
    /\ service[s] = "down"
    /\ Fail
    /\ \E n \in 0..Len(SetupQueues[s]) :
         queues' = queues \cup ToSet(SubSeq(SetupQueues[s], 1, n))
    /\ UNCHANGED <<service, waiting, handled, published, missed, exits>>

(* All consumers have asked for their queues' events.  One may already     *)
(* handle events while another asks.                                       *)
StartConsumers(s) ==
    /\ service[s] = "serving"
    /\ ConsumedBy[s] \subseteq queues \cup DeclaredOnConsume(s)
    /\ queues' = queues \cup DeclaredOnConsume(s)
    /\ service' = [service EXCEPT ![s] = "consuming"]
    /\ UNCHANGED <<waiting, handled, published, missed, exits, failures>>

(* ch.Consume answers that there is no such queue.                         *)
ConsumerExits(s) ==
    LET lacking == ConsumedBy[s] \ (queues \cup DeclaredOnConsume(s)) IN
    /\ service[s] = "serving"
    /\ lacking # {}
    /\ service' = [service EXCEPT ![s] = "down"]
    /\ exits' = exits \cup {<<s, lacking>>}
    /\ UNCHANGED <<queues, waiting, handled, published, missed, failures>>

ServiceDies(s) ==
    /\ service[s] # "down"
    /\ Fail
    /\ service' = [service EXCEPT ![s] = "down"]
    /\ UNCHANGED <<queues, waiting, handled, published, missed, exits>>

-----------------------------------------------------------------------------
(* The exchange copies events to the queues that are bound for them.       *)

Routed(sent) ==
    [q \in BusQueues |->
       waiting[q] \cup IF q \in queues THEN sent \cap BoundFor(q) ELSE {}]

SentNow(sent) ==
    /\ published' = published \cup sent
    /\ missed' = missed \cup
         UNION {(sent \cap BoundFor(q)) \X {q} : q \in BusQueues \ queues}

Publish(s) ==
    /\ service[s] # "down"
    /\ \E k \in SentBy[s] \ published :
         /\ Caused(k)
         /\ waiting' = Routed({k})
         /\ SentNow({k})
    /\ UNCHANGED <<service, queues, handled, exits, failures>>

(* A consumer handles an event and acknowledges it, or dies before that;   *)
(* then the event stays in its queue.  A match need not convert anybody.   *)
HandleEvent(s) ==
    /\ service[s] # "down"
    /\ \E q \in ConsumedBy[s] \cap queues : \E k \in waiting[q] :
       \E sent \in {Reaction(q)} \cup IF q = "match-finished" THEN {{}} ELSE {} :
         /\ SentNow(sent)
         /\ \/ /\ waiting' = [Routed(sent) EXCEPT ![q] = @ \ {k}]
               /\ handled' = [handled EXCEPT ![q] = @ \cup {k}]
               /\ UNCHANGED <<service, failures>>
            \/ /\ Fail
               /\ waiting' = Routed(sent)
               /\ service' = [service EXCEPT ![s] = "down"]
               /\ UNCHANGED handled
    /\ UNCHANGED <<queues, exits>>

BusNext ==
    \E s \in Services :
        \/ StartService(s) \/ StartFails(s)
        \/ StartConsumers(s) \/ ConsumerExits(s) \/ ServiceDies(s)
        \/ Publish(s) \/ HandleEvent(s)

BusSpec == BusInit /\ [][BusNext]_busVars

-----------------------------------------------------------------------------
(* In whatever order the services start, fail and start again, no event of *)
(* a match, a payment or a referral is dropped for want of a queue: its    *)
(* sender, or a service that the event comes after, has bound the queue    *)
(* before.  Dropped are only notices of services that do not declare the   *)
(* push queue, while neither scoring nor notification has been up.         *)
OnlyEarlyNoticesMissed ==
    \A m \in missed : m[1] \in EarlyNotices /\ m[2] = "push-notification"

(* And what was not dropped is handled, or still waits to be.              *)
PublishedIsHandledOrWaits ==
    \A k \in published, q \in BusQueues :
        k \in BoundFor(q) /\ <<k, q>> \notin missed
            => k \in waiting[q] \cup handled[q]

(* consumeMatchCreated's comment, "so startup doesn't race": of all        *)
(* services only scoring exits for want of a queue, and only of queues     *)
(* that the quiz service has never declared.                               *)
OnlyScoringExits ==
    \A e \in exits :
        /\ e[1] = "scoring"
        /\ e[2] \subseteq ToSet(SetupQueues["quiz"])

StartSafety ==
    /\ BusTypeOK
    /\ OnlyEarlyNoticesMissed
    /\ PublishedIsHandledOrWaits
    /\ OnlyScoringExits
=============================================================================

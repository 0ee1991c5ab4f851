------------------------------ MODULE QuizRoom ------------------------------
(***************************************************************************)
(* One room in the quiz service (services/quiz/main.go), from the delivery *)
(* of match.created to the publication of match.finished: the goroutines   *)
(* that start, time, close and finish its rounds, the RabbitMQ message     *)
(* that carries the match from one round to the next, and the players'     *)
(* StreamGameEvents calls, whose ends also finish the match.               *)
(*                                                                         *)
(* Rooms share nothing but the process, so one room is enough for what is  *)
(* said here.  Time is abstract: a sleep or a timer may end at any moment. *)
(* What a broadcast puts into which stream is left to GameStreams; here it *)
(* matters only that it takes time: the end of a stream closes a channel   *)
(* that a broadcast may hold, and the send then ends the process.          *)
(***************************************************************************)
EXTENDS Integers, Sequences, FiniteSets

CONSTANTS
    Players,     \* players of the room
    Rounds,      \* questions selected for a match, 5 in the code
    Slots,       \* goroutines that start rounds, and round timers
    Consumer,    \* the goroutine of consumeRoundCompleted
    Conns,       \* the StreamGameEvents calls of a behaviour
    MaxSelected, \* bound: how often questions are selected
    Faults,      \* whether Redis, RabbitMQ fail and the process restarts
    None

ASSUME RoundsAssumption == Rounds \in Nat \ {0}
ASSUME PlayersAssumption == IsFiniteSet(Players)
ASSUME MaxSelectedAssumption == MaxSelected \in Nat \ {0}
ASSUME FaultsAssumption == Faults \in BOOLEAN
ASSUME ThreadsAssumption ==
    /\ None \notin Players \cup Slots \cup Conns
    /\ Consumer \notin Slots \cup Conns
    /\ Slots \cap Conns = {}

VARIABLES
    created,     \* the match.created message: queued, delivered or acked
    setup,       \* where consumeMatchCreated stands
    selected,    \* selections of questions made so far
    listed,      \* the selection at the head of room:{id}:questions (0: none)
    loaded,      \* the selection in roomQuestions (0: no entry)
    redisRound,  \* room:{id}:round
    closedKeys,  \* rounds with a room:{id}:round:{n}:closed key
    completed,   \* round-completed-queue
    thread,      \* the goroutines: where each stands, for which round
    roomTimer,   \* roomTimers: the slot whose timer is stored
    streams,     \* gameStreams: the call whose channel is stored per player
    player,      \* whose call a StreamGameEvents call is
    process,     \* "up", "panicking" (a send on a closed channel is about
                 \* to happen), or "restarted"
    asked,       \* history: rounds whose question was broadcast
    finished     \* history: `rounds` fields of the match.finished published

setupVars == <<created, setup, selected, listed>>
connVars == <<streams, player>>
vars == <<setupVars, loaded, redisRound, closedKeys, completed, thread,
          roomTimer, connVars, process, asked, finished>>

Threads == Slots \cup Conns \cup {Consumer}

(* totalRounds of finishMatch: -1 when an opponent left, 0 when nobody is  *)
(* connected or nothing is loaded, and the number of rounds otherwise.     *)
Signals == -1..Rounds

(* A goroutine's next step.                                                *)
(*  slots   "sleep" .. "arm": startRound; "timer" .. "complete":           *)
(*          AfterFunc and closeRound                                       *)
(*  conns   "open": in the select loop; "count", "ask": the deferred part  *)
(*  all     "end", "publish", "cleanup": finishMatch                       *)
ThreadAt == {"idle", "sleep", "load", "announce", "arm", "timer", "closing",
             "result", "complete", "open", "count", "ask", "gone", "end",
             "publish", "cleanup"}

ThreadState == [at : ThreadAt, round : 0..Rounds, signal : Signals]

Idle == [at |-> "idle", round |-> 0, signal |-> 0]

TypeOK ==
    /\ created \in {"queued", "delivered", "acked"}
    /\ setup \in {"idle", "select", "push", "store", "round", "ack"}
    /\ selected \in 0..MaxSelected
    /\ listed \in 0..MaxSelected
    /\ loaded \in 0..MaxSelected
    /\ redisRound \in 0..Rounds
    /\ closedKeys \subseteq 1..Rounds
    /\ completed \in Seq(1..Rounds)
    /\ thread \in [Threads -> ThreadState]
    /\ roomTimer \in Slots \cup {None}
    /\ streams \in [Players -> Conns \cup {None}]
    /\ player \in [Conns -> Players \cup {None}]
    /\ process \in {"up", "panicking", "restarted"}
    /\ asked \in Seq(1..Rounds)
    /\ finished \in Seq(Signals)

Init ==
    /\ created = "queued" /\ setup = "idle" /\ selected = 0 /\ listed = 0
    /\ loaded = 0 /\ redisRound = 0 /\ closedKeys = {} /\ completed = <<>>
    /\ thread = [t \in Threads |-> Idle]
    /\ roomTimer = None
    /\ streams = [p \in Players |-> None]
    /\ player = [c \in Conns |-> None]
    /\ process = "up"
    /\ asked = <<>> /\ finished = <<>>

Goto(t, label) == thread' = [thread EXCEPT ![t].at = label]

(* A goroutine ends: a StreamGameEvents call is over for good.             *)
Exit(t) == thread' = [thread EXCEPT ![t] =
             IF t \in Conns THEN [Idle EXCEPT !.at = "gone"] ELSE Idle]

(* connectedPlayersInRoom                                                  *)
Connected == {p \in Players : streams[p] # None}

-----------------------------------------------------------------------------
(* consumeMatchCreated, one message; questions are selected anew on every  *)
(* delivery, and a failure before Ack puts the message back.               *)

SetupDeliver ==
    /\ created = "queued" /\ setup = "idle"
    /\ created' = "delivered" /\ setup' = "select"
    /\ UNCHANGED <<selected, listed, loaded, redisRound, closedKeys, completed,
                   thread, roomTimer, connVars, process, asked, finished>>

(* selectQuestions, or its error and Nack(requeue).                        *)
SetupSelect ==
    /\ setup = "select"
    /\ \/ /\ selected < MaxSelected
          /\ selected' = selected + 1 /\ setup' = "push"
          /\ UNCHANGED created
       \/ /\ Faults
          /\ setup' = "idle" /\ created' = "queued"
          /\ UNCHANGED selected
    /\ UNCHANGED <<listed, loaded, redisRound, closedKeys, completed, thread,
                   roomTimer, connVars, process, asked, finished>>

(* SetQuestions: RPUSH appends, so the list starts with the first          *)
(* selection ever pushed.  A pipeline error may come after the pushes.     *)
Pushed == listed' = IF listed = 0 THEN selected ELSE listed

SetupPush ==
    /\ setup = "push"
    /\ \/ setup' = "store" /\ Pushed /\ UNCHANGED created
       \/ /\ Faults
          /\ setup' = "idle" /\ created' = "queued"
          /\ Pushed \/ UNCHANGED listed
    /\ UNCHANGED <<selected, loaded, redisRound, closedKeys, completed, thread,
                   roomTimer, connVars, process, asked, finished>>

(* storeRoomQuestions.                                                     *)
SetupStore ==
    /\ setup = "store"
    /\ setup' = "round" /\ loaded' = selected
    /\ UNCHANGED <<created, selected, listed, redisRound, closedKeys, completed,
                   thread, roomTimer, connVars, process, asked, finished>>

(* SetRoomRound(1), whose error is not looked at.                          *)
SetupRound ==
    /\ setup = "round"
    /\ setup' = "ack"
    /\ redisRound' = 1 \/ (Faults /\ UNCHANGED redisRound)
    /\ UNCHANGED <<created, selected, listed, loaded, closedKeys, completed,
                   thread, roomTimer, connVars, process, asked, finished>>

(* Spawn startRound(round) behind its two seconds of sleep.                *)
Spawn(th, round) ==
    \E g \in Slots : /\ th[g] = Idle
                     /\ thread' = [th EXCEPT ![g] =
                          [at |-> "sleep", round |-> round, signal |-> 0]]

SetupAck ==
    /\ setup = "ack"
    /\ setup' = "idle" /\ created' = "acked"
    /\ Spawn(thread, 1)
    /\ UNCHANGED <<selected, listed, loaded, redisRound, closedKeys, completed,
                   roomTimer, connVars, process, asked, finished>>

-----------------------------------------------------------------------------
(* startRound.                                                             *)

(* The sleep is over: nobody connected means the round is skipped.         *)
StartCheck(g) ==
    /\ thread[g].at = "sleep"
    /\ IF Connected = {} THEN Exit(g) ELSE Goto(g, "load")
    /\ UNCHANGED <<setupVars, loaded, redisRound, closedKeys, completed,
                   roomTimer, connVars, process, asked, finished>>

(* getRoomQuestions: no entry (or past the last round) finishes the match, *)
(* with the length of what was loaded.                                     *)
StartLoad(g) ==
    /\ thread[g].at = "load"
    /\ IF loaded # 0 /\ thread[g].round <= Rounds
         THEN Goto(g, "announce")
         ELSE thread' = [thread EXCEPT ![g].at = "end",
                           ![g].signal = IF loaded = 0 THEN 0 ELSE Rounds]
    /\ UNCHANGED <<setupVars, loaded, redisRound, closedKeys, completed,
                   roomTimer, connVars, process, asked, finished>>

(* SetRoomRound and the broadcast of the question.                         *)
StartAnnounce(g) ==
    /\ thread[g].at = "announce"
    /\ redisRound' = thread[g].round \/ (Faults /\ UNCHANGED redisRound)
    /\ asked' = Append(asked, thread[g].round)
    /\ Goto(g, "arm")
    /\ UNCHANGED <<setupVars, loaded, closedKeys, completed, roomTimer, connVars,
                   process, finished>>

(* AfterFunc and roomTimers.Store; the goroutine ends, its slot holds the  *)
(* timer.                                                                  *)
StartArm(g) ==
    /\ thread[g].at = "arm"
    /\ roomTimer' = g
    /\ Goto(g, "timer")
    /\ UNCHANGED <<setupVars, loaded, redisRound, closedKeys, completed,
                   connVars, process, asked, finished>>

-----------------------------------------------------------------------------
(* closeRound, run by the timer.                                           *)

TimerFires(g) ==
    /\ thread[g].at = "timer"
    /\ Goto(g, "closing")
    /\ UNCHANGED <<setupVars, loaded, redisRound, closedKeys, completed,
                   roomTimer, connVars, process, asked, finished>>

(* TryCloseRound: SETNX.                                                   *)
CloseTry(g) ==
    /\ thread[g].at = "closing"
    /\ LET r == thread[g].round IN
         \/ /\ r \notin closedKeys
            /\ closedKeys' = closedKeys \cup {r}
            /\ Goto(g, "result")
         \/ /\ r \in closedKeys \/ Faults
            /\ UNCHANGED closedKeys
            /\ Exit(g)
    /\ UNCHANGED <<setupVars, loaded, redisRound, completed, roomTimer, connVars,
                   process, asked, finished>>

(* The questions are looked up again and RoundResult is broadcast.         *)
CloseResult(g) ==
    /\ thread[g].at = "result"
    /\ IF loaded # 0 THEN Goto(g, "complete") ELSE Exit(g)
    /\ UNCHANGED <<setupVars, loaded, redisRound, closedKeys, completed,
                   roomTimer, connVars, process, asked, finished>>

(* round.completed is published; a failure is only logged.                 *)
CompleteWith(g, queue) ==
    /\ thread[g].at = "complete"
    /\ completed' = queue \/ (Faults /\ UNCHANGED completed)
    /\ Exit(g)
    /\ UNCHANGED <<setupVars, loaded, redisRound, closedKeys, roomTimer,
                   connVars, process, asked, finished>>

CloseComplete_Forgotten(g) == CompleteWith(g, completed)
CloseComplete_Next(g) ==
    CompleteWith(g, Append(completed, thread[g].round + 1))
CloseComplete(g) == CompleteWith(g, Append(completed, thread[g].round))

-----------------------------------------------------------------------------
(* finishMatch with every round, in the consumer's own goroutine.          *)
Finishing(r) == [thread EXCEPT ![Consumer] =
                   [at |-> "end", round |-> r, signal |-> r]]

(* consumeRoundCompleted: the next round, the end of the match, or nothing *)
(* when the room is unknown.  The message is acked before either.          *)
Advance_NoReturn(r, next) ==
    IF loaded = 0 THEN UNCHANGED thread ELSE Spawn(Finishing(r), next)

Advance(r, next) ==
    \/ /\ loaded = 0
       /\ UNCHANGED thread
    \/ /\ loaded # 0 /\ r < Rounds
       /\ Spawn(thread, next)
    \/ /\ loaded # 0 /\ r >= Rounds
       /\ thread' = Finishing(r)

ConsumeWith(next, rest) ==
    /\ thread[Consumer].at = "idle"
    /\ completed # <<>>
    /\ Advance(Head(completed), next)
    /\ completed' = rest
    /\ UNCHANGED <<setupVars, loaded, redisRound, closedKeys, roomTimer,
                   connVars, process, asked, finished>>

ConsumeCompleted_Skip == ConsumeWith(Head(completed) + 2, Tail(completed))
ConsumeCompleted_NoAck == ConsumeWith(Head(completed) + 1, completed)
ConsumeCompleted == ConsumeWith(Head(completed) + 1, Tail(completed))

-----------------------------------------------------------------------------
(* finishMatch, run by a slot, the consumer or a disconnected stream.      *)

(* The leaderboard is read and MatchEnd is broadcast.                      *)
FinishEnd(t) ==
    /\ thread[t].at = "end"
    /\ Goto(t, "publish")
    /\ UNCHANGED <<setupVars, loaded, redisRound, closedKeys, completed,
                   roomTimer, connVars, process, asked, finished>>

(* A failure to publish is only logged.                                    *)
FinishPublish(t) ==
    /\ thread[t].at = "publish"
    /\ \/ finished' = Append(finished, thread[t].signal)
       \/ Faults /\ UNCHANGED finished
    /\ Goto(t, "cleanup")
    /\ UNCHANGED <<setupVars, loaded, redisRound, closedKeys, completed,
                   roomTimer, connVars, process, asked>>

(* roomQuestions, seqCounters and roomTimers forget the room; a timer that *)
(* runs is not stopped.                                                    *)
FinishCleanup(t) ==
    /\ thread[t].at = "cleanup"
    /\ loaded' = 0 /\ roomTimer' = None
    /\ Exit(t)
    /\ UNCHANGED <<setupVars, redisRound, closedKeys, completed, connVars,
                   process, asked, finished>>

-----------------------------------------------------------------------------
(* StreamGameEvents.                                                       *)

(* The channel is stored under room:user, over the one of an earlier call. *)
StreamOpen(c, p) ==
    /\ thread[c].at = "idle"
    /\ streams' = [streams EXCEPT ![p] = c]
    /\ player' = [player EXCEPT ![c] = p]
    /\ Goto(c, "open")
    /\ UNCHANGED <<setupVars, loaded, redisRound, closedKeys, completed,
                   roomTimer, process, asked, finished>>

(* A broadcast to the room may be under way: another stream's PlayerJoined *)
(* or, once the match has its questions, those of its rounds, its end and  *)
(* its leaderboards, and TimerSync.                                        *)
MayBroadcast(c) == listed # 0 \/ \E d \in Conns \ {c} : thread[d].at = "open"

(* The stream ends: the deferred function deletes room:user, whoever's     *)
(* channel is stored there, and closes its own channel.  A broadcast that  *)
(* has already loaded that channel will panic.                             *)
StreamEnd(c) ==
    /\ thread[c].at = "open"
    /\ streams' = [streams EXCEPT ![player[c]] = None]
    /\ Goto(c, "count")
    /\ \/ UNCHANGED process
       \/ MayBroadcast(c) /\ process' = "panicking"
    /\ UNCHANGED <<setupVars, loaded, redisRound, closedKeys, completed,
                   roomTimer, player, asked, finished>>

(* It counts who remains; with nobody or one left it stops the round timer *)
(* (if that still waits) and goes on to finish the match.                  *)
StreamCount(c) ==
    /\ thread[c].at = "count"
    /\ LET n == Cardinality(Connected)
           asking == [thread EXCEPT ![c].at = "ask",
                                    ![c].signal = IF n = 0 THEN 0 ELSE -1]
       IN IF n > 1
            THEN Exit(c) /\ UNCHANGED roomTimer
            ELSE /\ roomTimer' = None
                 /\ thread' = IF roomTimer # None /\ thread[roomTimer].at = "timer"
                                THEN [asking EXCEPT ![roomTimer] = Idle]
                                ELSE asking
    /\ UNCHANGED <<setupVars, loaded, redisRound, closedKeys, completed,
                   connVars, process, asked, finished>>

(* Only a room whose questions are loaded is finished.                     *)
StreamAsk(c) ==
    /\ thread[c].at = "ask"
    /\ IF loaded # 0 THEN Goto(c, "end") ELSE Exit(c)
    /\ UNCHANGED <<setupVars, loaded, redisRound, closedKeys, completed,
                   roomTimer, connVars, process, asked, finished>>

-----------------------------------------------------------------------------
(* The quiz process restarts: its memory and streams are gone, and an      *)
(* unacked match.created comes back.                                       *)
Restart ==
    /\ process' = "restarted"
    /\ created' = IF created = "acked" THEN "acked" ELSE "queued"
    /\ setup' = "idle" /\ loaded' = 0 /\ roomTimer' = None
    /\ thread' = [t \in Threads |->
                    IF t \in Conns /\ thread[t].at # "idle"
                      THEN [Idle EXCEPT !.at = "gone"] ELSE Idle]
    /\ streams' = [p \in Players |-> None]
    /\ UNCHANGED <<selected, listed, redisRound, closedKeys, completed, player,
                   asked, finished>>

(* broadcastToRoom sends on the channel that was closed under it.          *)
SendPanics == process = "panicking" /\ Restart

(* The process ends for another reason.                                    *)
Crash == Faults /\ Restart

SetupNext == SetupDeliver \/ SetupSelect \/ SetupPush \/ SetupStore
                \/ SetupRound \/ SetupAck

RoundNext(g) ==
    \/ StartCheck(g) \/ StartLoad(g) \/ StartAnnounce(g) \/ StartArm(g)
    \/ TimerFires(g) \/ CloseTry(g) \/ CloseResult(g) \/ CloseComplete(g)

FinishNext(t) == FinishEnd(t) \/ FinishPublish(t) \/ FinishCleanup(t)

StreamNext(c) ==
    \/ \E p \in Players : StreamOpen(c, p)
    \/ StreamEnd(c)
    \/ StreamCount(c)
    \/ StreamAsk(c)

Next ==
    \/ SetupNext
    \/ \E g \in Slots : RoundNext(g)
    \/ ConsumeCompleted
    \/ \E t \in Threads : FinishNext(t)
    \/ \E c \in Conns : StreamNext(c)
    \/ SendPanics
    \/ Crash

Spec == Init /\ [][Next]_vars

(* Goroutines run, broadcasts too, sleeps and timers end, consumers        *)
(* consume; players come and go as they like.                              *)
Fairness ==
    /\ WF_vars(SetupNext)
    /\ \A g \in Slots : WF_vars(RoundNext(g))
    /\ WF_vars(ConsumeCompleted)
    /\ \A t \in Threads : WF_vars(FinishNext(t))
    /\ \A c \in Conns : WF_vars(StreamCount(c) \/ StreamAsk(c))
    /\ WF_vars(SendPanics)

FairSpec == Spec /\ Fairness

-----------------------------------------------------------------------------
(* Safety.                                                                 *)

(* A goroutine, or its timer, that has yet to carry its round to the next. *)
Carries(g) == thread[g].at \in {"sleep", "load", "announce", "arm", "timer",
                                "closing", "result", "complete"}

BeforeQuestion(g) == thread[g].at \in {"sleep", "load", "announce"}

(* The match goes from round to round along one thread of events: the      *)
(* match.created message, a goroutine or timer, the round.completed        *)
(* message, and never two of them at once, each with the round that the    *)
(* questions asked so far call for.  This is what the SETNX guard of       *)
(* closeRound, the acks and the timers are there for.                      *)
OneRoundAtATime ==
    /\ \A g, h \in Slots : Carries(g) /\ Carries(h) => g = h
    /\ \A g \in Slots : Carries(g) =>
          /\ created = "acked" /\ completed = <<>>
          /\ thread[g].round = IF BeforeQuestion(g) THEN Len(asked) + 1
                                                    ELSE Len(asked)
    /\ completed # <<>> => created = "acked" /\ completed = <<Len(asked)>>
    /\ created # "acked" => asked = <<>>

(* Players are asked round 1, 2, 3, ... each once, whoever connects,       *)
(* leaves or comes back and whatever fails in between.                     *)
RoundsInOrder == \A i \in 1..Len(asked) : asked[i] = i

(* A match.finished that claims the full number of rounds means that every *)
(* question was asked (the negative and zero counts are status signals).   *)
FullCountMeansAllAsked ==
    \A i \in 1..Len(finished) : finished[i] = Rounds => Len(asked) = Rounds

(* When nobody's stream has ended, the match is finished at most once.     *)
(* (A disconnect may finish it while the next round sleeps; startRound     *)
(* then misses the room and finishes it again.)                            *)
FinishedOnceIfAllStay ==
    (\A c \in Conns : thread[c].at \in {"idle", "open"}) => Len(finished) <= 1

(* Players with a stream in its select loop.                               *)
Online == {p \in Players : \E c \in Conns : /\ player[c] = p
                                            /\ thread[c].at = "open"}

(* match.finished is published with -1, the signal for it.                 *)
OpponentLeft(t) == thread[t].signal = -1 /\ finished' # finished

(* What README says of StreamGameEvents: "Reconnection-safe via            *)
(* sequence_number".  The end of a stream does not publish that the        *)
(* opponent left (-1) while two players have a stream, unless one came     *)
(* back only after the count and is registered now.                        *)
ReconnectionSafe ==
    [][\A c \in Conns :
          FinishPublish(c) /\ OpponentLeft(c) =>
             Cardinality(Online) <= 1 \/ Cardinality(Connected) >= 2]_vars

(* The comment of SetQuestions (pkg/keys/redis.go:134): it "stores the     *)
(* ordered question IDs for a match".  The questions that will be asked    *)
(* are those the scoring service looks up.                                 *)
AskedQuestionsAreScored ==
    created = "acked" /\ loaded # 0 => listed = loaded

-----------------------------------------------------------------------------
(* Liveness.                                                               *)

(* A match whose first question went out ends, when no call fails: its     *)
(* rounds run out, or its players leave.  The exception is a player who    *)
(* leaves while a broadcast holds the channel of its stream: the send      *)
(* panics, the process restarts and knows nothing of the match.            *)
StartedMatchEnds == asked # <<>> ~> finished # <<>> \/ process = "restarted"
=============================================================================

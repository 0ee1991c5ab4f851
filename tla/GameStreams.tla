---------------------------- MODULE GameStreams ----------------------------
(***************************************************************************)
(* What the players of one room are sent (services/quiz/main.go):          *)
(* broadcastToRoom, which visits the channels in gameStreams one by one    *)
(* and sends without waiting; StreamGameEvents, which stores its channel,  *)
(* broadcasts PlayerJoined, sends the state of the match and then relays   *)
(* its channel; and the broadcasts of startRound, closeRound, finishMatch, *)
(* the TimerSync goroutine and consumeLeaderboardUpdated.                  *)
(*                                                                         *)
(* QuizRoom has the control of the rounds with its faults, and a broadcast *)
(* as one step; here rounds follow each other, and a broadcast does not.   *)
(* The order of questions, results and the end of the match is what        *)
(* matters: the other events (PlayerJoined, TimerSync, LeaderboardUpdate)  *)
(* only fill channels, so that an event may be dropped at any time.        *)
(***************************************************************************)
EXTENDS Integers, FiniteSets, Sequences

CONSTANTS
    GamePlayers,  \* players of the room
    Calls,        \* StreamGameEvents calls of a behaviour
    Nobody,       \* no channel, no player
    GameRounds    \* questions of the match

ASSUME GameAssumption ==
    /\ GameRounds \in Nat \ {0}
    /\ IsFiniteSet(GamePlayers) /\ Nobody \notin Calls \cup GamePlayers
    /\ "main" \notin Calls

VARIABLES
    game,       \* where the room's match is
    redisRound, \* room:{id}:round
    loaded,     \* whether roomQuestions has the room
    live,       \* the round whose deadline is in roomDeadlines and not over
    gameStreams, \* the channel stored per player
    stream,     \* the StreamGameEvents calls
    casting,    \* the broadcasts in progress
    halted,     \* a send on a closed channel has ended the process
    abandoned,  \* history: a stream's end has finished the match
    dropped,    \* history: streams that an event was dropped for
    unset,      \* history: setting the round in Redis has failed
    misread     \* history: the round asked that a stream's snapshot missed

gameVars == <<game, redisRound, loaded, live, gameStreams, stream, casting,
              halted, abandoned, dropped, unset, misread>>

missVars == <<dropped, unset, misread>>

(* An event: the number of what it says in the order of the match.         *)
Question(r) == 2 * r - 1
Result(r) == 2 * r
MatchEnd == 2 * GameRounds + 1
Events == 1..MatchEnd

(* The goroutine that takes the match from round to round: its next step.  *)
GameAt == {"start", "setRound", "asking", "asked", "telling", "ending", "over"}

(* A call: its step, its player, its channel, the round its snapshot has   *)
(* read, the last question it was sent and the last event it has relayed.  *)
StreamAt == {"new", "stored", "snapshot", "relay", "count", "ending", "gone"}
NewStream == [at |-> "new", player |-> Nobody, channel |-> <<>>, read |-> 0,
              question |-> 0, relayed |-> 0]

(* A broadcast: its event and the players still to visit.                  *)
Casters == {"main"} \cup Calls
Casts == [event : Events, todo : SUBSET GamePlayers]

GameTypeOK ==
    /\ game \in [at : GameAt, round : 1..GameRounds + 1]
    /\ redisRound \in 0..GameRounds
    /\ loaded \in BOOLEAN
    /\ live \in 0..GameRounds
    /\ gameStreams \in [GamePlayers -> Calls \cup {Nobody}]
    /\ \A s \in Calls :
         /\ stream[s].at \in StreamAt
         /\ stream[s].player \in GamePlayers \cup {Nobody}
         /\ stream[s].channel \in Seq(Events)
         /\ {stream[s].read, stream[s].question} \subseteq 0..GameRounds
         /\ stream[s].relayed \in Events \cup {0}
    /\ \A c \in Casters : casting[c] \subseteq Casts /\ Cardinality(casting[c]) <= 1
    /\ halted \in BOOLEAN /\ abandoned \in BOOLEAN
    /\ dropped \subseteq Calls
    /\ unset \in BOOLEAN
    /\ misread \in [Calls -> 0..GameRounds]

GameInit ==
    /\ game = [at |-> "start", round |-> 1]
    /\ redisRound = 0
    /\ loaded = TRUE
    /\ live = 0
    /\ gameStreams = [p \in GamePlayers |-> Nobody]
    /\ stream = [s \in Calls |-> NewStream]
    /\ casting = [c \in Casters |-> {}]
    /\ halted = FALSE
    /\ abandoned = FALSE
    /\ dropped = {}
    /\ unset = FALSE
    /\ misread = [s \in Calls |-> 0]

Present == {p \in GamePlayers : gameStreams[p] # Nobody}

-----------------------------------------------------------------------------
(* broadcastToRoom.                                                        *)

Cast(c, event) == casting' = [casting EXCEPT ![c] =
    {[event |-> event, todo |-> GamePlayers]}]

CastOver(c) == \A b \in casting[c] : b.todo = {}
EndCast(c) == casting' = [casting EXCEPT ![c] = {}]

(* Range comes to a player.  If a channel is stored by then the event is   *)
(* sent, or dropped when the channel is full.                              *)
Visit(c) ==
    \E b \in casting[c], p \in GamePlayers :
        /\ p \in b.todo
        /\ casting' = [casting EXCEPT ![c] = {[b EXCEPT !.todo = @ \ {p}]}]
        /\ LET s == gameStreams[p] IN
             \/ /\ stream' = IF s = Nobody THEN stream
                     ELSE [stream EXCEPT ![s].channel = Append(@, b.event)]
                /\ UNCHANGED dropped
             \/ /\ s # Nobody
                /\ dropped' = dropped \cup {s}
                /\ UNCHANGED stream
        /\ UNCHANGED <<game, redisRound, loaded, live, gameStreams, halted,
                       abandoned, unset, misread>>

-----------------------------------------------------------------------------
(* startRound, closeRound and finishMatch.                                 *)

At(label) == game.at = label
GoTo(label) == game' = [game EXCEPT !.at = label]

(* startRound: the match ends after the last question, a round is skipped  *)
(* for good when nobody is connected, and otherwise its deadline is set.   *)
StartRound ==
    /\ At("start")
    /\ \/ /\ Present = {}
          /\ GoTo("over")
          /\ UNCHANGED <<live, casting>>
       \/ /\ Present # {} /\ (game.round > GameRounds \/ ~ loaded)
          /\ GoTo("ending")
          /\ Cast("main", MatchEnd)
          /\ UNCHANGED live
       \/ /\ Present # {} /\ game.round <= GameRounds /\ loaded
          /\ GoTo("setRound")
          /\ live' = game.round
          /\ UNCHANGED casting
    /\ UNCHANGED <<redisRound, loaded, gameStreams, stream, halted,
                   abandoned, missVars>>

Ask == /\ At("setRound")
       /\ GoTo("asking")
       /\ Cast("main", Question(game.round))
       /\ UNCHANGED <<loaded, live, gameStreams, stream, halted,
                      abandoned, dropped, misread>>

SetRound_Forgotten == Ask /\ unset' = FALSE /\ UNCHANGED redisRound

(* The round is set in Redis, which may fail, and in any case its question *)
(* is broadcast then.                                                      *)
SetRound ==
    /\ Ask
    /\ \/ unset' = FALSE /\ redisRound' = game.round
       \/ unset' = TRUE /\ UNCHANGED redisRound

(* The question was broadcast: the timer is armed.                         *)
ArmTimer ==
    /\ At("asking") /\ CastOver("main")
    /\ GoTo("asked")
    /\ EndCast("main")
    /\ UNCHANGED <<redisRound, loaded, live, gameStreams, stream, halted,
                   abandoned, missVars>>

(* The deadline, in whole seconds, is over before the timer fires.         *)
DeadlinePasses ==
    /\ At("asked") /\ live # 0
    /\ live' = 0
    /\ UNCHANGED <<game, redisRound, loaded, gameStreams, stream, casting,
                   halted, abandoned, missVars>>

(* closeRound, unless the questions are gone.                              *)
CloseRound ==
    /\ At("asked") /\ live = 0
    /\ IF loaded THEN GoTo("telling") /\ Cast("main", Result(game.round))
                 ELSE GoTo("over") /\ UNCHANGED casting
    /\ UNCHANGED <<redisRound, loaded, live, gameStreams, stream, halted,
                   abandoned, missVars>>

(* round.completed is published after the broadcast, and starts the next   *)
(* round.                                                                  *)
RoundCompleted ==
    /\ At("telling") /\ CastOver("main")
    /\ game' = [at |-> "start", round |-> game.round + 1]
    /\ EndCast("main")
    /\ UNCHANGED <<redisRound, loaded, live, gameStreams, stream, halted,
                   abandoned, missVars>>

(* The end of finishMatch.                                                 *)
MatchFinished ==
    /\ At("ending") /\ CastOver("main")
    /\ GoTo("over")
    /\ EndCast("main")
    /\ loaded' = FALSE
    /\ UNCHANGED <<redisRound, live, gameStreams, stream, halted,
                   abandoned, missVars>>

-----------------------------------------------------------------------------
(* StreamGameEvents.                                                       *)

Step(s, from, to) ==
    /\ stream[s].at = from
    /\ stream' = [stream EXCEPT ![s].at = to]

Gone(s, from) ==
    /\ stream[s].at = from
    /\ stream' = [stream EXCEPT ![s] = [NewStream EXCEPT !.at = "gone"]]

(* The channel is stored, in place of one that the player may have.        *)
OpenStream(s, p) ==
    /\ stream[s].at = "new"
    /\ stream' = [stream EXCEPT ![s].at = "stored", ![s].player = p]
    /\ gameStreams' = [gameStreams EXCEPT ![p] = s]
    /\ UNCHANGED <<game, redisRound, loaded, live, casting, halted,
                   abandoned, missVars>>

(* The question of the round was broadcast and did not, nor will, come to  *)
(* the call's channel.                                                     *)
PassedBy(s) ==
    /\ At("asking") \/ At("asked")
    /\ \A i \in DOMAIN stream[s].channel :
         stream[s].channel[i] # Question(game.round)
    /\ \A b \in casting["main"] : stream[s].player \notin b.todo

(* After PlayerJoined sendStateSnapshot reads the round, which may fail,   *)
(* and the questions ...                                                   *)
ReadRound(s) ==
    /\ stream[s].at = "stored"
    /\ \E failed \in BOOLEAN :
         /\ stream' = [stream EXCEPT
              ![s].at = IF ~ failed /\ redisRound >= 1 /\ loaded THEN "snapshot"
                                                                 ELSE "relay",
              ![s].read = IF failed THEN 0 ELSE redisRound]
         /\ misread' = [misread EXCEPT
              ![s] = IF (failed \/ unset) /\ PassedBy(s) THEN game.round ELSE @]
    /\ UNCHANGED <<game, redisRound, loaded, live, gameStreams, casting, halted,
                   abandoned, dropped, unset>>

(* ... and sends the round's question while the room's deadline is live,   *)
(* past the channel.                                                       *)
SendSnapshot(s) ==
    /\ stream[s].at = "snapshot"
    /\ stream' = [stream EXCEPT
          ![s].at = "relay",
          ![s].read = 0,
          ![s].question = IF live # 0 THEN stream[s].read ELSE @]
    /\ UNCHANGED <<game, redisRound, loaded, live, gameStreams, casting, halted,
                   abandoned, missVars>>

(* The loop sends the next event of the channel.                           *)
Relay(s) ==
    /\ stream[s].at = "relay" /\ stream[s].channel # <<>>
    /\ LET event == Head(stream[s].channel)
           asks == {r \in 1..GameRounds : Question(r) = event}
       IN stream' = [stream EXCEPT
            ![s].channel = Tail(@),
            ![s].relayed = event,
            ![s].question = IF asks = {} THEN @ ELSE CHOOSE r \in asks : TRUE]
    /\ UNCHANGED <<game, redisRound, loaded, live, gameStreams, casting, halted,
                   abandoned, missVars>>

(* The call ends: whatever is stored for its player is deleted and its     *)
(* channel closed.  A broadcast that has just loaded the channel, be it of *)
(* an event that is not modelled, sends to it all the same, and a send on  *)
(* a closed channel ends the process.                                      *)
EndStream(s) ==
    /\ Step(s, "relay", "count")
    /\ gameStreams' = [gameStreams EXCEPT ![stream[s].player] = Nobody]
    /\ halted' \in BOOLEAN
    /\ UNCHANGED <<game, redisRound, loaded, live, casting, abandoned, missVars>>

(* With one player left or none the timer is stopped and the match, if it  *)
(* is loaded, finished.                                                    *)
CountRemaining(s) ==
    /\ stream[s].at = "count"
    /\ LET left == Cardinality(Present) <= 1 IN
         /\ game' = IF left /\ At("asked") THEN [game EXCEPT !.at = "over"]
                                           ELSE game
         /\ IF left /\ loaded
              THEN /\ Step(s, "count", "ending")
                   /\ Cast(s, MatchEnd)
                   /\ abandoned' = TRUE
              ELSE /\ Gone(s, "count")
                   /\ UNCHANGED <<casting, abandoned>>
    /\ UNCHANGED <<redisRound, loaded, live, gameStreams, halted, missVars>>

MatchAbandoned(s) ==
    /\ Gone(s, "ending") /\ CastOver(s)
    /\ EndCast(s)
    /\ loaded' = FALSE
    /\ UNCHANGED <<game, redisRound, live, gameStreams, halted, abandoned,
                   missVars>>

GameNext ==
    /\ ~ halted
    /\ \/ \E c \in Casters : Visit(c)
       \/ StartRound \/ SetRound \/ ArmTimer \/ DeadlinePasses \/ CloseRound
       \/ RoundCompleted \/ MatchFinished
       \/ \E s \in Calls :
            \/ \E p \in GamePlayers : OpenStream(s, p)
            \/ ReadRound(s) \/ SendSnapshot(s)
            \/ Relay(s) \/ EndStream(s) \/ CountRemaining(s) \/ MatchAbandoned(s)

GameSpec == GameInit /\ [][GameNext]_gameVars

-----------------------------------------------------------------------------
(* Whenever a player's stream was opened, before a round, after its        *)
(* question or in the middle of its broadcast: while a round can be        *)
(* answered, a stream that is stored and has relayed all of its channel    *)
(* has shown the round's question last.  A stream may miss it if an event  *)
(* was dropped because its channel was full; or if the broadcast of the    *)
(* question passed by before it was stored, and the round could not be set *)
(* or its snapshot not read.  Nobody looks at these errors: it then shows  *)
(* an older question, or none, under the new deadline, until the next      *)
(* round.                                                                  *)
CurrentQuestionIsShown ==
    At("asked") /\ live # 0 /\ loaded =>
        \A s \in Calls \ dropped :
            /\ stream[s].at = "relay" /\ stream[s].channel = <<>>
            /\ gameStreams[stream[s].player] = s
            /\ misread[s] # live
            => stream[s].question = live

(* Questions, results and the end of the match reach each stream's channel *)
(* in their order, whatever else is broadcast meanwhile, as long as no     *)
(* stream's end finishes the match.                                        *)
EventsInOrder ==
    ~ abandoned =>
        \A s \in Calls :
            LET said == <<stream[s].relayed>> \o stream[s].channel
            IN \A m, n \in DOMAIN said : m < n => said[m] < said[n]

(* What a player of the room has on the screen, and in which order.        *)
StreamSafety == GameTypeOK /\ CurrentQuestionIsShown /\ EventsInOrder
=============================================================================

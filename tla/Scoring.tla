------------------------------ MODULE Scoring ------------------------------
(***************************************************************************)
(* How the answers of one room become its leaderboard: SubmitAnswer of the *)
(* quiz service publishes answer.submitted, and the scoring service's      *)
(* single consumer (processAnswer, services/scoring/main.go) scores it,    *)
(* records it in a hash with HSETNX, adds its points with a Lua script and *)
(* acks it.  A failing step puts the message back, and a restart brings    *)
(* back what was not acked.                                                *)
(*                                                                         *)
(* Messages come out of the queue in any order: answers of different       *)
(* players race each other, and requeued ones are overtaken.  (The         *)
(* consumer has no prefetch limit: a message that is put back comes behind *)
(* all that were delivered meanwhile.)                                     *)
(***************************************************************************)
EXTENDS Integers, Sequences, FiniteSets, FiniteSetsExt

CONSTANTS
    Players,    \* players of the room, ordered as their identifiers are
    Rounds,     \* questions in the room's list
    Elapsed,    \* answer times, server clock minus client clock, in ms
    MaxAnswers, \* bound: answers submitted in a behaviour
    MaxFaults   \* bound: failures in a behaviour

ASSUME PlayersAssumption == Players \subseteq Nat \ {0} /\ IsFiniteSet(Players)
ASSUME RoundsAssumption == Rounds \in Nat \ {0}
ASSUME ElapsedAssumption == Elapsed \subseteq Int
ASSUME BoundsAssumption == MaxAnswers \in Nat /\ MaxFaults \in Nat

VARIABLES
    asked,       \* rounds whose question the players have seen
    roundNow,    \* room:{id}:round
    answer,      \* every answer.submitted published, in order
    queue,       \* those of them in answer-processing-queue
    current,     \* the one in processAnswer's hands, 0 for none
    step,        \* where processAnswer stands
    answers,     \* room:{id}:answers:{round}: the answer kept, 0 for none
    leaderboard, \* room:{id}:leaderboard: points, or Absent
    faults       \* failures so far

answerVars == <<asked, roundNow, answer, queue, current, step, answers,
                leaderboard>>

Absent == -1

(* answer.submitted; Rounds + 1 stands for every round that is not in the  *)
(* list.  `early` is a history: its question had not been asked then.      *)
Message == [player : Players, round : 1..(Rounds + 1), correct : BOOLEAN,
            elapsed : Elapsed, early : BOOLEAN]

(* isCorrect finds the question of the answer's round in the list.         *)
InList(a) == answer[a].round \in 1..Rounds

AnswerTypeOK ==
    /\ asked \in 0..Rounds
    /\ roundNow \in 0..Rounds
    /\ answer \in Seq(Message) /\ Len(answer) <= MaxAnswers
    /\ queue \subseteq 1..Len(answer)
    /\ current \in 0..Len(answer)
    /\ step \in {"idle", "record", "update", "ack"}
    /\ step = "idle" <=> current = 0
    /\ step # "idle" => InList(current)
    /\ answers \in [1..Rounds -> [Players -> 0..Len(answer)]]
    /\ leaderboard \in [Players -> Nat \cup {Absent}]
    /\ faults \in 0..MaxFaults

AnswerInit ==
    /\ asked = 0 /\ roundNow = 0
    /\ answer = <<>> /\ queue = {} /\ current = 0 /\ step = "idle"
    /\ answers = [r \in 1..Rounds |-> [p \in Players |-> 0]]
    /\ leaderboard = [p \in Players |-> Absent]
    /\ faults = 0

Fault == faults < MaxFaults /\ faults' = faults + 1
NoFault == UNCHANGED faults

-----------------------------------------------------------------------------
(* CalculateScore: 100 points when correct, times 1.5 below five seconds   *)
(* and 0.8 above thirteen.  A time outside 0..15000 counts as 15000.       *)

Clamped(ms) == IF ms < 0 \/ ms > 15000 THEN 15000 ELSE ms

SpeedTenths(ms) == IF ms < 5000 THEN 15 ELSE IF ms > 13000 THEN 8 ELSE 10

ScoreOf(m) == IF m.correct THEN 10 * SpeedTenths(Clamped(m.elapsed)) ELSE 0

-----------------------------------------------------------------------------
(* The quiz service and its players.                                       *)

(* startRound: SetRoomRound, whose error is only logged, and the question. *)
AskQuestion ==
    /\ asked < Rounds
    /\ asked' = asked + 1
    /\ \/ roundNow' = asked + 1 /\ NoFault
       \/ UNCHANGED roundNow /\ Fault
    /\ UNCHANGED <<answer, queue, current, step, answers, leaderboard>>

(* SubmitAnswer: whatever the player sends is published, for the present   *)
(* question, an earlier or a later one, or one that does not exist.        *)
SubmitAnswer ==
    /\ Len(answer) < MaxAnswers
    /\ \E m \in Message : /\ m.early = (m.round > asked)
                          /\ answer' = Append(answer, m)
    /\ queue' = queue \cup {Len(answer) + 1}
    /\ NoFault
    /\ UNCHANGED <<asked, roundNow, current, step, answers, leaderboard>>

-----------------------------------------------------------------------------
(* processAnswer.                                                          *)

(* A message is delivered and CalculateScore called; if that fails, as it  *)
(* always does for a round that is not in the list, it is put back.        *)
TakeAnswer ==
    /\ step = "idle"
    /\ \E a \in queue :
         \/ /\ InList(a)
            /\ queue' = queue \ {a} /\ current' = a /\ step' = "record"
            /\ NoFault
         \/ /\ UNCHANGED <<queue, current, step>>
            /\ IF InList(a) THEN Fault ELSE NoFault
    /\ UNCHANGED <<asked, roundNow, answer, answers, leaderboard>>

Requeue ==
    /\ queue' = queue \cup {current} /\ current' = 0 /\ step' = "idle"
    /\ Fault

Ack == current' = 0 /\ step' = "idle" /\ UNCHANGED queue

Kept == answers[answer[current].round][answer[current].player]

Keep == answers' = [answers EXCEPT
                      ![answer[current].round][answer[current].player] = current]

(* A record kept without looking whether there is one.                     *)
RecordAnswer_Overwrites ==
    /\ step = "record"
    /\ Keep /\ step' = "update" /\ NoFault
    /\ UNCHANGED <<asked, roundNow, answer, queue, current, leaderboard>>

(* A record that fails and is not tried again.                             *)
RecordAnswer_Dropped ==
    /\ step = "record"
    /\ \/ Kept = 0 /\ Keep /\ step' = "update" /\ UNCHANGED <<queue, current>>
                   /\ NoFault
       \/ Kept # 0 /\ Ack /\ UNCHANGED answers /\ NoFault
       \/ Ack /\ UNCHANGED answers /\ Fault
    /\ UNCHANGED <<asked, roundNow, answer, leaderboard>>

(* TrySetAnswer: HSETNX, which may take effect and yet fail.               *)
RecordAnswer ==
    /\ step = "record"
    /\ \/ Kept = 0 /\ Keep /\ step' = "update" /\ UNCHANGED <<queue, current>>
                   /\ NoFault
       \/ Kept # 0 /\ Ack /\ UNCHANGED answers /\ NoFault
       \/ Requeue /\ UNCHANGED answers
       \/ Kept = 0 /\ Keep /\ Requeue
    /\ UNCHANGED <<asked, roundNow, answer, leaderboard>>

(* The leaderboard script: the points are added to what is there.          *)
Scored ==
    LET m == answer[current] IN
    leaderboard' = [leaderboard EXCEPT ![m.player] =
                      IF @ = Absent THEN ScoreOf(m) ELSE @ + ScoreOf(m)]

(* UpdateLeaderboard, which may take effect and yet fail.                  *)
UpdateLeaderboard ==
    /\ step = "update"
    /\ \/ Scored /\ step' = "ack" /\ UNCHANGED <<queue, current>> /\ NoFault
       \/ Requeue /\ (Scored \/ UNCHANGED leaderboard)
    /\ UNCHANGED <<asked, roundNow, answer, answers>>

(* leaderboard.updated is published, its error ignored, and Ack.           *)
AckAnswer ==
    /\ step = "ack"
    /\ Ack /\ NoFault
    /\ UNCHANGED <<asked, roundNow, answer, answers, leaderboard>>

Process == TakeAnswer \/ RecordAnswer \/ UpdateLeaderboard \/ AckAnswer

AnswerNext == AskQuestion \/ SubmitAnswer \/ Process

(* The scoring service restarts: what was not acked comes back.            *)
AnswerCrash ==
    /\ queue' = IF current = 0 THEN queue ELSE queue \cup {current}
    /\ current' = 0 /\ step' = "idle"
    /\ UNCHANGED <<asked, roundNow, answer, answers, leaderboard>>

-----------------------------------------------------------------------------
Points(i) == IF i = 0 THEN 0 ELSE ScoreOf(answer[i])

KeptPoints(p) == MapThenSumSet(LAMBDA r : Points(answers[r][p]), 1..Rounds)

(* Points recorded and about to be added.                                  *)
Pending(p) == IF step = "update" /\ answer[current].player = p
                THEN Points(current) ELSE 0

ScoreNow(p) == IF leaderboard[p] = Absent THEN 0 ELSE leaderboard[p]

(* However answers are repeated, retried and redelivered, a player's score *)
(* never exceeds the points of the answers kept for it (one per round),    *)
(* and is exactly that when nothing failed.                                *)
ScoreIsBacked ==
    \A p \in Players :
       /\ ScoreNow(p) + Pending(p) <= KeptPoints(p)
       /\ faults = 0 => ScoreNow(p) + Pending(p) = KeptPoints(p)

(* An answer whose points may still reach the leaderboard.                 *)
Unsettled(p, r) == \/ answers[r][p] = 0
                   \/ step = "update" /\ answers[r][p] = current

Ledger == INSTANCE AnswerLedger WITH
            score <- [p \in Players |-> ScoreNow(p)],
            open <- [p \in Players |-> {r \in 1..Rounds : Unsettled(p, r)}]

(* README "Answer Idempotency": the answers of a room are scored as the    *)
(* abstract ledger says, each round of a player at most once.              *)
ScoredOnce == Ledger!LedgerSpec

(* The answer was published, for a round of the list.                      *)
Accepted(i) == i <= Len(answer) /\ InList(i)

(* Every answer to a question of the match is recorded, or an earlier one  *)
(* of the player to that question is, failures and restarts                *)
(* notwithstanding.  (One to a round that is not in the list goes round    *)
(* and round: the death count that should give it up never grows.)         *)
AnswerIsKept ==
    \A i \in 1..MaxAnswers :
       Accepted(i)
          ~> (Accepted(i) /\ answers[answer[i].round][answer[i].player] # 0)
=============================================================================

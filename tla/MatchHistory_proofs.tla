------------------------ MODULE MatchHistory_proofs ------------------------
(***************************************************************************)
(* Theorems about MatchHistory and the answers it is composed with, for    *)
(* any players, rounds, answers, failures and ends of the match.           *)
(*                                                                         *)
(* The answers: their types, that Scoring implements AnswerLedger, so that *)
(* a round of a player enters its score at most once, and that a score is  *)
(* backed by the answers kept.  The end of the match: that persistMatch    *)
(* counts a match once for each message and failure, that the winner told, *)
(* the history and the statistics agree, that a first match converts a     *)
(* referral, and that the points of the history are explained.             *)
(***************************************************************************)
EXTENDS MatchHistory, FiniteSetTheorems, WellFoundedInduction, TLAPS

USE DEF Absent

(* A kept answer is the player's own, to that round.                       *)
KeptOwn ==
    \A r \in 1..Rounds, p \in Players :
       answers[r][p] # 0 => /\ answer[answers[r][p]].round = r
                            /\ answer[answers[r][p]].player = p

(* Points about to be added are those of an answer that is kept.           *)
UpdateKept == step = "update" => Kept = current

AnswerInv == AnswerTypeOK /\ KeptOwn /\ UpdateKept

-----------------------------------------------------------------------------
(* Helpers.                                                                *)

(* An answer earns 0, 80, 100 or 150 points.                               *)
LEMMA ScorePoints ==
    ASSUME NEW m \in Message
    PROVE  ScoreOf(m) \in Ledger!Points /\ ScoreOf(m) \in Nat
BY ElapsedAssumption
   DEF ScoreOf, SpeedTenths, Clamped, Message, Ledger!Points

(* The message in processAnswer's hands is an answer of the room.          *)
LEMMA CurrentMessage ==
    ASSUME AnswerTypeOK, step # "idle"
    PROVE  /\ current \in 1..Len(answer)
           /\ answer[current] \in Message
           /\ answer[current].round \in 1..Rounds
           /\ answer[current].player \in Players
<1>1. current \in 1..Len(answer)
  BY DEF AnswerTypeOK
<1>2. answer[current] \in Message
  BY <1>1 DEF AnswerTypeOK
<1>3. answer[current].round \in 1..Rounds
  BY DEF AnswerTypeOK, InList
<1> QED BY <1>1, <1>2, <1>3 DEF Message

(* What keeping the current answer does to the hash.                       *)
LEMMA KeepAnswers ==
    ASSUME AnswerTypeOK, step # "idle", Keep
    PROVE  LET m == answer[current] IN
           /\ answers' \in [1..Rounds -> [Players -> 0..Len(answer)]]
           /\ answers'[m.round][m.player] = current
           /\ \A r \in 1..Rounds, p \in Players :
                 r # m.round \/ p # m.player => answers'[r][p] = answers[r][p]
<1> DEFINE r0 == answer[current].round
           p0 == answer[current].player
           row == [answers[r0] EXCEPT ![p0] = current]
<1>1. r0 \in 1..Rounds /\ p0 \in Players /\ current \in 0..Len(answer)
  BY CurrentMessage
<1>2. answers \in [1..Rounds -> [Players -> 0..Len(answer)]]
  BY DEF AnswerTypeOK
<1>3. answers' = [answers EXCEPT ![r0] = row]
  BY <1>1, <1>2 DEF Keep
<1>4. /\ row \in [Players -> 0..Len(answer)]
      /\ row[p0] = current
      /\ \A p \in Players : p # p0 => row[p] = answers[r0][p]
  BY <1>1, <1>2
<1> HIDE DEF r0, p0, row
<1>5. /\ answers' \in [1..Rounds -> [Players -> 0..Len(answer)]]
      /\ answers'[r0] = row
      /\ \A r \in 1..Rounds : r # r0 => answers'[r] = answers[r]
  BY <1>1, <1>2, <1>3, <1>4
<1> QED BY <1>1, <1>4, <1>5 DEF r0, p0

(* Putting a message back keeps the queue and the position typed.          *)
LEMMA RequeueType ==
    ASSUME AnswerTypeOK, step # "idle", Requeue, UNCHANGED answer
    PROVE  /\ queue' \subseteq 1..Len(answer') /\ current' = 0
           /\ step' = "idle" /\ faults' \in 0..MaxFaults
BY CurrentMessage, BoundsAssumption DEF Requeue, Fault, AnswerTypeOK

-----------------------------------------------------------------------------
(* The invariant of the answer side.                                       *)

LEMMA InitAnswer == Init => AnswerInv
BY RoundsAssumption, BoundsAssumption
   DEF Init, AnswerInit, AnswerInv, AnswerTypeOK, KeptOwn, UpdateKept, Message

(* A new answer joins the list; the others stay what they are.             *)
LEMMA SubmitInv == AnswerInv /\ SubmitAnswer => AnswerInv'
<1> SUFFICES ASSUME AnswerInv, SubmitAnswer PROVE AnswerInv'
  OBVIOUS
<1> USE DEF AnswerInv
<1>1. PICK m \in Message : answer' = Append(answer, m)
  BY DEF SubmitAnswer
<1>2. /\ answer' \in Seq(Message) /\ Len(answer') = Len(answer) + 1
      /\ \A i \in 1..Len(answer) : answer'[i] = answer[i]
  BY <1>1 DEF AnswerTypeOK
<1>3. AnswerTypeOK'
  <2>1. Len(answer') <= MaxAnswers
    BY <1>2, BoundsAssumption DEF SubmitAnswer, AnswerTypeOK
  <2>2. queue' \subseteq 1..Len(answer')
    <3>1. Len(answer) \in Nat /\ queue \subseteq 1..Len(answer)
      BY DEF AnswerTypeOK
    <3>2. queue' = queue \cup {Len(answer) + 1}
      BY DEF SubmitAnswer
    <3>3. 1..Len(answer) \cup {Len(answer) + 1} \subseteq 1..(Len(answer) + 1)
      BY <3>1
    <3> QED BY <1>2, <3>1, <3>2, <3>3
  <2>3. answers' \in [1..Rounds -> [Players -> 0..Len(answer')]]
    <3>1. 0..Len(answer) \subseteq 0..Len(answer')
      BY <1>2 DEF AnswerTypeOK
    <3> QED BY <3>1 DEF SubmitAnswer, AnswerTypeOK
  <2>4. current' \in 0..Len(answer')
    BY <1>2 DEF SubmitAnswer, AnswerTypeOK
  <2>5. step' # "idle" => answer'[current'].round \in 1..Rounds
    BY <1>2, CurrentMessage DEF SubmitAnswer
  <2> QED BY <1>2, <2>1, <2>2, <2>3, <2>4, <2>5
          DEF SubmitAnswer, NoFault, AnswerTypeOK, InList
<1>4. KeptOwn'
  <2> SUFFICES ASSUME NEW r \in 1..Rounds, NEW p \in Players, answers'[r][p] # 0
               PROVE  /\ answer'[answers'[r][p]].round = r
                      /\ answer'[answers'[r][p]].player = p
    BY DEF KeptOwn
  <2>1. answers'[r][p] = answers[r][p] /\ answers[r][p] # 0
    BY DEF SubmitAnswer
  <2>2. answers[r][p] \in 0..Len(answer)
    BY DEF AnswerTypeOK
  <2>3. answers[r][p] \in 1..Len(answer)
    BY <2>1, <2>2 DEF AnswerTypeOK
  <2> QED BY <1>2, <2>1, <2>3 DEF KeptOwn
<1>5. UpdateKept'
  <2> SUFFICES ASSUME step' = "update" PROVE Kept' = current'
    BY DEF UpdateKept
  <2>1. step = "update" /\ current' = current /\ answers' = answers
    BY DEF SubmitAnswer
  <2>2. answer'[current] = answer[current]
    BY <1>2, <2>1, CurrentMessage
  <2> QED BY <2>1, <2>2 DEF UpdateKept, Kept
<1> QED BY <1>3, <1>4, <1>5

(* HSETNX, taking effect or not, failing or not.                           *)
LEMMA RecordInv == AnswerInv /\ RecordAnswer => AnswerInv'
<1> SUFFICES ASSUME AnswerInv, RecordAnswer PROVE AnswerInv'
  OBVIOUS
<1> USE DEF AnswerInv
<1>0. /\ step = "record" /\ UNCHANGED <<asked, roundNow, answer, leaderboard>>
      /\ faults' \in 0..MaxFaults
  BY BoundsAssumption
     DEF RecordAnswer, Requeue, Fault, NoFault, AnswerTypeOK
<1>1. CASE UNCHANGED answers
  <2>1. step' = "idle" /\ current' = 0 /\ queue' \subseteq 1..Len(answer')
    <3>1. CASE Ack
      BY <1>0, <3>1 DEF Ack, AnswerTypeOK
    <3>2. CASE Requeue
      BY <1>0, <3>2, RequeueType
    <3>3. Kept # 0 /\ Kept = 0 => FALSE
      OBVIOUS
    <3>4. ~(Kept = 0 /\ Keep)
      <4>1. Keep => answers'[answer[current].round][answer[current].player]
                      = current
        BY <1>0, KeepAnswers
      <4>2. current # 0
        BY <1>0 DEF AnswerTypeOK
      <4> QED BY <1>1, <4>1, <4>2 DEF Kept
    <3> QED BY <3>1, <3>2, <3>4 DEF RecordAnswer
  <2> QED BY <1>0, <1>1, <2>1 DEF AnswerTypeOK, InList, KeptOwn, UpdateKept
<1>2. CASE Keep
  <2>1. /\ answers' \in [1..Rounds -> [Players -> 0..Len(answer')]]
        /\ Kept' = current \/ current' = 0
        /\ KeptOwn'
    <3>1. \/ UNCHANGED current
          \/ current' = 0
      BY DEF RecordAnswer, Requeue, Ack
    <3>2. /\ answers' \in [1..Rounds -> [Players -> 0..Len(answer)]]
          /\ answers'[answer[current].round][answer[current].player] = current
      BY <1>0, <1>2, KeepAnswers
    <3>3. UNCHANGED current => Kept' = current
      BY <1>0, <3>2 DEF Kept
    <3>4. KeptOwn'
      <4> SUFFICES ASSUME NEW r \in 1..Rounds, NEW p \in Players,
                          answers'[r][p] # 0
                   PROVE  /\ answer[answers'[r][p]].round = r
                          /\ answer[answers'[r][p]].player = p
        BY <1>0 DEF KeptOwn
      <4>1. CASE r = answer[current].round /\ p = answer[current].player
        BY <3>2, <4>1
      <4>2. CASE r # answer[current].round \/ p # answer[current].player
        <5>1. answers'[r][p] = answers[r][p]
          BY <1>0, <1>2, <4>2, KeepAnswers
        <5> QED BY <5>1 DEF KeptOwn
      <4> QED BY <4>1, <4>2
    <3> QED BY <1>0, <3>1, <3>2, <3>3, <3>4
  <2>2. \/ step' = "update" /\ UNCHANGED <<queue, current>>
        \/ /\ step' = "idle" /\ current' = 0
           /\ queue' \subseteq 1..Len(answer')
    BY <1>0, RequeueType DEF RecordAnswer, Ack, AnswerTypeOK
  <2>3. current # 0
    BY <1>0 DEF AnswerTypeOK
  <2>4. /\ queue' \subseteq 1..Len(answer')
        /\ current' \in 0..Len(answer')
        /\ step' \in {"idle", "record", "update", "ack"}
        /\ step' = "idle" <=> current' = 0
    <3>1. CASE step' = "update" /\ UNCHANGED <<queue, current>>
      BY <1>0, <2>3, <3>1 DEF AnswerTypeOK
    <3>2. CASE /\ step' = "idle" /\ current' = 0
               /\ queue' \subseteq 1..Len(answer')
      <4>1. Len(answer') \in Nat
        BY <1>0 DEF AnswerTypeOK
      <4> QED BY <3>2, <4>1
    <3> QED BY <2>2, <3>1, <3>2
  <2>5. AnswerTypeOK'
    <3>1. step' # "idle" => answer'[current'].round \in 1..Rounds
      BY <1>0, <2>2, CurrentMessage
    <3> QED BY <1>0, <2>1, <2>4, <3>1 DEF AnswerTypeOK, InList
  <2>6. UpdateKept'
    BY <2>1, <2>2, <2>3 DEF UpdateKept
  <2> QED BY <2>1, <2>5, <2>6
<1> QED BY <1>1, <1>2 DEF RecordAnswer

(* What the leaderboard script leaves behind.                              *)
LEMMA ScoredBoard ==
    ASSUME AnswerTypeOK, step # "idle", Scored
    PROVE  /\ leaderboard' \in [Players -> Nat \cup {Absent}]
           /\ \A p \in Players :
                 ScoreNow(p)' = IF p = answer[current].player
                                  THEN ScoreNow(p) + ScoreOf(answer[current])
                                  ELSE ScoreNow(p)
<1> DEFINE m == answer[current]
           n == ScoreOf(m)
<1>1. m.player \in Players /\ n \in Nat
  BY CurrentMessage, ScorePoints
<1>2. leaderboard' = [leaderboard EXCEPT ![m.player] =
                        IF @ = Absent THEN n ELSE @ + n]
  BY DEF Scored
<1>3. leaderboard \in [Players -> Nat \cup {Absent}]
  BY DEF AnswerTypeOK
<1> HIDE DEF m, n
<1>4. /\ leaderboard' \in [Players -> Nat \cup {Absent}]
      /\ leaderboard'[m.player] = IF leaderboard[m.player] = Absent THEN n
                                  ELSE leaderboard[m.player] + n
      /\ \A p \in Players \ {m.player} : leaderboard'[p] = leaderboard[p]
  BY <1>1, <1>2, <1>3
<1>5. ASSUME NEW p \in Players
      PROVE  ScoreNow(p)' = IF p = m.player THEN ScoreNow(p) + n
                                            ELSE ScoreNow(p)
  BY <1>1, <1>3, <1>4 DEF ScoreNow
<1> QED BY <1>4, <1>5 DEF m, n

(* The leaderboard script, taking effect or not, failing or not.           *)
LEMMA UpdateInv == AnswerInv /\ UpdateLeaderboard => AnswerInv'
<1> SUFFICES ASSUME AnswerInv, UpdateLeaderboard PROVE AnswerInv'
  OBVIOUS
<1> USE DEF AnswerInv
<1>1. /\ step = "update" /\ UNCHANGED <<asked, roundNow, answer, answers>>
      /\ faults' \in 0..MaxFaults
  BY BoundsAssumption
     DEF UpdateLeaderboard, Requeue, Fault, NoFault, AnswerTypeOK
<1>2. leaderboard' \in [Players -> Nat \cup {Absent}]
  <2>1. Scored \/ UNCHANGED leaderboard
    BY DEF UpdateLeaderboard
  <2> QED BY <1>1, <2>1, ScoredBoard DEF AnswerTypeOK
<1>3. \/ step' = "ack" /\ UNCHANGED <<queue, current>>
      \/ /\ step' = "idle" /\ current' = 0
         /\ queue' \subseteq 1..Len(answer')
  BY <1>1, RequeueType DEF UpdateLeaderboard
<1>4. current # 0
  BY <1>1 DEF AnswerTypeOK
<1>5. AnswerTypeOK'
  <2>1. /\ queue' \subseteq 1..Len(answer')
        /\ current' \in 0..Len(answer')
        /\ step' \in {"idle", "record", "update", "ack"}
        /\ step' = "idle" <=> current' = 0
    <3>1. CASE step' = "ack" /\ UNCHANGED <<queue, current>>
      BY <1>1, <1>4, <3>1 DEF AnswerTypeOK
    <3>2. CASE /\ step' = "idle" /\ current' = 0
               /\ queue' \subseteq 1..Len(answer')
      <4>1. Len(answer') \in Nat
        BY <1>1 DEF AnswerTypeOK
      <4> QED BY <3>2, <4>1
    <3> QED BY <1>3, <3>1, <3>2
  <2>2. step' # "idle" => answer'[current'].round \in 1..Rounds
    BY <1>1, <1>3, CurrentMessage
  <2> QED BY <1>1, <1>2, <2>1, <2>2 DEF AnswerTypeOK, InList
<1>6. KeptOwn'
  BY <1>1 DEF KeptOwn
<1>7. UpdateKept'
  BY <1>3 DEF UpdateKept
<1> QED BY <1>5, <1>6, <1>7

(* A message is taken, or put back because its score cannot be computed.   *)
LEMMA TakeInv == AnswerInv /\ TakeAnswer => AnswerInv'
<1> SUFFICES ASSUME AnswerInv, TakeAnswer PROVE AnswerInv'
  OBVIOUS
<1> USE DEF AnswerInv
<1>1. /\ UNCHANGED <<asked, roundNow, answer, answers, leaderboard>>
      /\ faults' \in 0..MaxFaults
  BY BoundsAssumption DEF TakeAnswer, Fault, NoFault, AnswerTypeOK
<1>2. queue \subseteq 1..Len(answer) /\ Len(answer) \in Nat
  BY DEF AnswerTypeOK
<1>3. CASE UNCHANGED <<queue, current, step>>
  BY <1>1, <1>3 DEF TakeAnswer, AnswerTypeOK, InList, KeptOwn, UpdateKept
<1>4. ASSUME NEW a \in queue, InList(a), queue' = queue \ {a}, current' = a,
             step' = "record"
      PROVE  AnswerInv'
  <2>1. /\ current' \in 0..Len(answer') /\ current' # 0
        /\ queue' \subseteq 1..Len(answer')
    BY <1>1, <1>2, <1>4
  <2>2. AnswerTypeOK'
    BY <1>1, <1>4, <2>1 DEF AnswerTypeOK, InList
  <2> QED BY <1>1, <1>4, <2>2 DEF KeptOwn, UpdateKept
<1> QED BY <1>3, <1>4 DEF TakeAnswer

(* The message is acked.                                                   *)
LEMMA AckInv == AnswerInv /\ AckAnswer => AnswerInv'
BY BoundsAssumption
   DEF AnswerInv, AckAnswer, Ack, NoFault, AnswerTypeOK, InList, KeptOwn,
       UpdateKept

(* A question is asked.                                                    *)
LEMMA AskInv == AnswerInv /\ AskQuestion => AnswerInv'
<1> SUFFICES ASSUME AnswerInv, AskQuestion PROVE AnswerInv'
  OBVIOUS
<1>1. /\ asked' \in 0..Rounds /\ roundNow' \in 0..Rounds
      /\ faults' \in 0..MaxFaults
      /\ UNCHANGED <<answer, queue, current, step, answers, leaderboard>>
  BY RoundsAssumption, BoundsAssumption
     DEF AskQuestion, Fault, NoFault, AnswerInv, AnswerTypeOK
<1> QED BY <1>1 DEF AnswerInv, AnswerTypeOK, InList, KeptOwn, UpdateKept, Kept

(* A restart gives back what was in hand.                                  *)
LEMMA CrashInv == AnswerInv /\ Crash => AnswerInv'
<1> SUFFICES ASSUME AnswerInv, Crash PROVE AnswerInv'
  OBVIOUS
<1>1. /\ UNCHANGED <<asked, roundNow, answer, answers, leaderboard>>
      /\ current' = 0 /\ step' = "idle" /\ faults' \in 0..MaxFaults
  BY BoundsAssumption DEF Crash, Fault, AnswerCrash, AnswerInv, AnswerTypeOK
<1>2. queue' \subseteq 1..Len(answer') /\ Len(answer') \in Nat
  <2>1. /\ queue \subseteq 1..Len(answer) /\ Len(answer) \in Nat
        /\ current \in 0..Len(answer)
    BY DEF AnswerInv, AnswerTypeOK
  <2> QED BY <1>1, <2>1 DEF Crash, AnswerCrash
<1>3. AnswerTypeOK'
  BY <1>1, <1>2 DEF AnswerInv, AnswerTypeOK, InList
<1> QED BY <1>1, <1>3 DEF AnswerInv, KeptOwn, UpdateKept

(* The end of the match and its persistence leave the answers alone.       *)
LEMMA OtherStep ==
    ASSUME AnswerInv, FinishMatch \/ Persist
    PROVE  UNCHANGED answerVars /\ faults' \in 0..MaxFaults
<1> USE BoundsAssumption DEF NoFault, Fault, AnswerInv, AnswerTypeOK
<1>1. CASE FinishMatch
  BY <1>1 DEF FinishMatch, answerVars
<1>2. CASE PersistRead
  BY <1>2 DEF PersistRead, answerVars
<1>3. CASE PersistRounds
  BY <1>3 DEF PersistRounds, answerVars
<1>4. CASE PersistTally
  BY <1>4 DEF PersistTally, answerVars
<1>5. CASE PersistUpsert
  BY <1>5 DEF PersistUpsert, answerVars
<1>6. CASE PersistRate
  BY <1>6 DEF PersistRate, RateTurn, answerVars
<1>7. CASE PersistRefer
  BY <1>7 DEF PersistRefer, ReferAt, answerVars
<1>8. CASE PersistAck
  BY <1>8 DEF PersistAck, answerVars
<1> QED BY <1>1, <1>2, <1>3, <1>4, <1>5, <1>6, <1>7, <1>8 DEF Persist

(* Every step of the specification keeps the invariant.                    *)
LEMMA NextInv == AnswerInv /\ [Next]_vars => AnswerInv'
<1> SUFFICES ASSUME AnswerInv, [Next]_vars PROVE AnswerInv'
  OBVIOUS
<1>1. ASSUME UNCHANGED answerVars, faults' \in 0..MaxFaults
      PROVE  AnswerInv'
  BY <1>1 DEF answerVars, AnswerInv, AnswerTypeOK, InList, KeptOwn, UpdateKept,
              Kept
<1>2. CASE ScoreStep
  BY <1>2, SubmitInv, RecordInv, UpdateInv, TakeInv, AckInv, AskInv
     DEF ScoreStep, AnswerNext, Process
<1>3. CASE FinishMatch \/ Persist
  BY <1>1, <1>3, OtherStep
<1>4. CASE Crash
  BY <1>4, CrashInv
<1>5. CASE UNCHANGED vars
  <2>1. UNCHANGED answerVars /\ faults' \in 0..MaxFaults
    BY <1>5 DEF vars, AnswerInv, AnswerTypeOK
  <2> QED BY <1>1, <2>1
<1> QED BY <1>2, <1>3, <1>4, <1>5 DEF Next

(* The answers, their queue and what is kept of them have their types, and *)
(* the answer kept for a player's round is the player's own answer to it.  *)
THEOREM AnswersTyped == Spec => []AnswerInv
<1>1. Init => AnswerInv
  BY InitAnswer
<1> QED BY <1>1, NextInv, PTL DEF Spec

-----------------------------------------------------------------------------
(* Every step is a step of the ledger, or none.                            *)

(* The ledger sees nothing when no score and no unsettled round changes.   *)
LEMMA NoLedgerStep ==
    ASSUME UNCHANGED leaderboard,
           \A p \in Players, r \in 1..Rounds :
              Unsettled(p, r)' <=> Unsettled(p, r)
    PROVE  UNCHANGED Ledger!ledgerVars
<1>1. \A p \in Players : ScoreNow(p)' = ScoreNow(p)
  BY DEF ScoreNow
<1> QED BY <1>1 DEF Ledger!ledgerVars

(* One round of one player is settled.                                     *)
LEMMA LedgerSettle ==
    ASSUME NEW p0 \in Players, NEW r0 \in 1..Rounds,
           Unsettled(p0, r0), ~Unsettled(p0, r0)',
           \A p \in Players, r \in 1..Rounds :
              p # p0 \/ r # r0 => (Unsettled(p, r)' <=> Unsettled(p, r))
    PROVE  Ledger!Settle(p0, r0)
<1> DEFINE before == [p \in Players |-> {r \in 1..Rounds : Unsettled(p, r)}]
           after == [p \in Players |-> {r \in 1..Rounds : Unsettled(p, r)'}]
<1>1. r0 \in before[p0]
  OBVIOUS
<1>2. after = [before EXCEPT ![p0] = @ \ {r0}]
  <2>1. ASSUME NEW p \in Players
        PROVE  after[p] = [before EXCEPT ![p0] = @ \ {r0}][p]
    <3>1. CASE p = p0
      BY <3>1
    <3>2. CASE p # p0
      BY <3>2
    <3> QED BY <3>1, <3>2
  <2> HIDE DEF before
  <2>2. DOMAIN before = Players
    BY DEF before
  <2>3. after = [p \in Players |-> [before EXCEPT ![p0] = @ \ {r0}][p]]
    BY <2>1
  <2> QED BY <2>2, <2>3
<1> QED BY <1>1, <1>2 DEF Ledger!Settle

(* The round of the answer whose points are about to be added is settled   *)
(* when processAnswer leaves it, and no other is.                          *)
LEMMA LeaveUpdate ==
    ASSUME AnswerInv, step = "update", step' # "update", UNCHANGED answers
    PROVE  LET m == answer[current] IN
           m.player \in Players /\ m.round \in 1..Rounds
             /\ Ledger!Settle(m.player, m.round)
<1> USE DEF AnswerInv
<1>1. /\ answer[current].player \in Players
      /\ answer[current].round \in 1..Rounds
      /\ current # 0
  BY CurrentMessage DEF AnswerTypeOK
<1>2. answers[answer[current].round][answer[current].player] = current
  BY DEF UpdateKept, Kept
<1>3. PICK p0 \in Players, r0 \in 1..Rounds :
              p0 = answer[current].player /\ r0 = answer[current].round
  BY <1>1
<1>4. ASSUME NEW p \in Players, NEW r \in 1..Rounds
      PROVE  Unsettled(p, r)' <=> answers[r][p] = 0
  BY DEF Unsettled
<1>5. ASSUME NEW p \in Players, NEW r \in 1..Rounds, p # p0 \/ r # r0
      PROVE  Unsettled(p, r) <=> answers[r][p] = 0
  BY <1>1, <1>3, <1>5 DEF Unsettled, KeptOwn
<1>6. Unsettled(p0, r0) /\ ~Unsettled(p0, r0)'
  BY <1>1, <1>2, <1>3, <1>4 DEF Unsettled
<1>7. Ledger!Settle(p0, r0)
  BY <1>4, <1>5, <1>6, LedgerSettle
<1> QED BY <1>3, <1>7

(* Recording an answer opens nothing, and settles its round only when the  *)
(* record is made and reported as failed: the points are lost.             *)
LEMMA RecordLedger ==
    ASSUME AnswerInv, AnswerInv', RecordAnswer
    PROVE  [Ledger!LedgerNext]_Ledger!ledgerVars
<1> USE DEF AnswerInv
<1>0. /\ step = "record" /\ step' \in {"update", "idle"}
      /\ UNCHANGED <<answer, leaderboard>>
  BY DEF RecordAnswer, Requeue, Ack
<1>1. /\ answer[current].player \in Players
      /\ answer[current].round \in 1..Rounds
      /\ current # 0
  BY <1>0, CurrentMessage DEF AnswerTypeOK
<1>2. ASSUME NEW p \in Players, NEW r \in 1..Rounds
      PROVE  Unsettled(p, r) <=> answers[r][p] = 0
  BY <1>0 DEF Unsettled
<1>3. CASE UNCHANGED answers /\ step' = "idle"
  <2>1. \A p \in Players, r \in 1..Rounds :
           Unsettled(p, r)' <=> Unsettled(p, r)
    BY <1>2, <1>3 DEF Unsettled
  <2> QED BY <1>0, <2>1, NoLedgerStep
<1>4. CASE Kept = 0 /\ Keep /\ step' = "update" /\ UNCHANGED current
  <2>1. ASSUME NEW p \in Players, NEW r \in 1..Rounds
        PROVE  Unsettled(p, r)' <=> Unsettled(p, r)
    <3>1. CASE p = answer[current].player /\ r = answer[current].round
      <4>1. answers'[r][p] = current
        BY <1>0, <1>4, <3>1, KeepAnswers
      <4>2. answers[r][p] = 0
        BY <1>4, <3>1 DEF Kept
      <4> QED BY <1>2, <1>4, <4>1, <4>2 DEF Unsettled
    <3>2. CASE p # answer[current].player \/ r # answer[current].round
      <4>1. answers'[r][p] = answers[r][p]
        BY <1>0, <1>4, <3>2, KeepAnswers
      <4>2. answers[r][p] # current
        BY <1>1, <3>2 DEF KeptOwn
      <4> QED BY <1>2, <1>4, <4>1, <4>2 DEF Unsettled
    <3> QED BY <3>1, <3>2
  <2> QED BY <1>0, <2>1, NoLedgerStep
<1>5. CASE Kept = 0 /\ Keep /\ step' = "idle"
  <2>1. PICK p0 \in Players, r0 \in 1..Rounds :
                p0 = answer[current].player /\ r0 = answer[current].round
    BY <1>1
  <2>2. ASSUME NEW p \in Players, NEW r \in 1..Rounds
        PROVE  Unsettled(p, r)' <=> answers'[r][p] = 0
    BY <1>5 DEF Unsettled
  <2>3. ASSUME NEW p \in Players, NEW r \in 1..Rounds, p # p0 \/ r # r0
        PROVE  Unsettled(p, r)' <=> Unsettled(p, r)
    BY <1>0, <1>2, <1>5, <2>1, <2>2, <2>3, KeepAnswers
  <2>4. Unsettled(p0, r0) /\ ~Unsettled(p0, r0)'
    <3>1. answers'[r0][p0] = current
      BY <1>0, <1>5, <2>1, KeepAnswers
    <3> QED BY <1>1, <1>2, <1>5, <2>1, <2>2, <3>1 DEF Kept
  <2>5. Ledger!Settle(p0, r0)
    BY <2>3, <2>4, LedgerSettle
  <2>6. UNCHANGED [p \in Players |-> ScoreNow(p)]
    BY <1>0 DEF ScoreNow
  <2> QED BY <2>5, <2>6 DEF Ledger!LedgerNext, Ledger!Lose
<1>6. \/ UNCHANGED answers /\ step' = "idle"
      \/ Kept = 0 /\ Keep /\ step' = "update" /\ UNCHANGED current
      \/ Kept = 0 /\ Keep /\ step' = "idle"
  BY DEF RecordAnswer, Requeue, Ack
<1> QED BY <1>3, <1>4, <1>5, <1>6

(* Adding the points counts the round; failing without effect loses it.    *)
LEMMA UpdateLedger ==
    ASSUME AnswerInv, UpdateLeaderboard
    PROVE  [Ledger!LedgerNext]_Ledger!ledgerVars
<1> DEFINE m == answer[current]
<1>1. step = "update" /\ step' # "update" /\ UNCHANGED answers
  BY DEF UpdateLeaderboard, Requeue
<1>2. /\ m.player \in Players /\ m.round \in 1..Rounds
      /\ Ledger!Settle(m.player, m.round)
  BY <1>1, LeaveUpdate
<1>3. CASE UNCHANGED leaderboard
  <2>1. UNCHANGED [p \in Players |-> ScoreNow(p)]
    BY <1>3 DEF ScoreNow
  <2> QED BY <1>2, <2>1 DEF Ledger!LedgerNext, Ledger!Lose
<1>4. CASE Scored
  <2> DEFINE before == [p \in Players |-> ScoreNow(p)]
             after == [p \in Players |-> ScoreNow(p)']
             n == ScoreOf(m)
  <2>1. n \in Ledger!Points
    BY <1>1, CurrentMessage, ScorePoints DEF AnswerInv
  <2>2. after = [before EXCEPT ![m.player] = @ + n]
    <3>1. \A p \in Players : ScoreNow(p)' = IF p = m.player THEN ScoreNow(p) + n
                                                       ELSE ScoreNow(p)
      BY <1>1, <1>4, ScoredBoard DEF AnswerInv
    <3> HIDE DEF m, n
    <3> QED BY <1>2, <3>1
  <2>3. Ledger!Count(m.player, m.round)
    BY <1>2, <2>1, <2>2 DEF Ledger!Count
  <2> QED BY <1>2, <2>3 DEF Ledger!LedgerNext
<1> QED BY <1>3, <1>4 DEF UpdateLeaderboard

(* A restart loses the points that were about to be added.                 *)
LEMMA CrashLedger ==
    ASSUME AnswerInv, Crash
    PROVE  [Ledger!LedgerNext]_Ledger!ledgerVars
<1>1. UNCHANGED <<answers, leaderboard>> /\ step' = "idle"
  BY DEF Crash, AnswerCrash
<1>2. CASE step = "update"
  <2>1. UNCHANGED [p \in Players |-> ScoreNow(p)]
    BY <1>1 DEF ScoreNow
  <2> QED BY <1>1, <1>2, <2>1, LeaveUpdate DEF Ledger!LedgerNext, Ledger!Lose
<1>3. CASE step # "update"
  BY <1>1, <1>3, NoLedgerStep DEF Unsettled
<1> QED BY <1>2, <1>3

(* The other steps leave the ledger alone.                                 *)
LEMMA OtherLedger ==
    ASSUME UNCHANGED <<answers, leaderboard>>,
           \/ UNCHANGED <<step, current>>
           \/ step # "update" /\ step' # "update"
    PROVE  UNCHANGED Ledger!ledgerVars
BY NoLedgerStep DEF Unsettled

LEMMA NextLedger ==
    AnswerInv /\ AnswerInv' /\ [Next]_vars
      => [Ledger!LedgerNext]_Ledger!ledgerVars
<1> SUFFICES ASSUME AnswerInv, AnswerInv', [Next]_vars
             PROVE  [Ledger!LedgerNext]_Ledger!ledgerVars
  OBVIOUS
<1>1. CASE AskQuestion \/ SubmitAnswer
  BY <1>1, OtherLedger DEF AskQuestion, SubmitAnswer
<1>2. CASE TakeAnswer
  BY <1>2, OtherLedger DEF TakeAnswer
<1>3. CASE AckAnswer
  BY <1>3, OtherLedger DEF AckAnswer, Ack
<1>4. CASE RecordAnswer
  BY <1>4, RecordLedger
<1>5. CASE UpdateLeaderboard
  BY <1>5, UpdateLedger
<1>6. CASE FinishMatch \/ Persist
  BY <1>6, OtherStep, OtherLedger DEF answerVars
<1>7. CASE Crash
  BY <1>7, CrashLedger
<1>8. CASE UNCHANGED vars
  BY <1>8, OtherLedger DEF vars, answerVars
<1> QED BY <1>1, <1>2, <1>3, <1>4, <1>5, <1>6, <1>7, <1>8
        DEF Next, ScoreStep, AnswerNext, Process

LEMMA InitLedger == Init => Ledger!LedgerInit
<1> SUFFICES ASSUME Init PROVE Ledger!LedgerInit
  OBVIOUS
<1>1. \A p \in Players : ScoreNow(p) = 0
  BY DEF Init, AnswerInit, ScoreNow
<1>2. \A p \in Players, r \in 1..Rounds : Unsettled(p, r)
  BY DEF Init, AnswerInit, Unsettled
<1> QED BY <1>1, <1>2 DEF Ledger!LedgerInit

(* README "Answer Idempotency", for any players, rounds and failures: the  *)
(* leaderboard takes each round of a player at most once, with the points  *)
(* of one answer, as AnswerLedger says.                                    *)
THEOREM AnswersScoredOnce == Spec => ScoredOnce
<1>1. Init => Ledger!LedgerInit
  BY InitLedger
<1>2. AnswerInv /\ AnswerInv' /\ [Next]_vars
        => [Ledger!LedgerNext]_Ledger!ledgerVars
  BY NextLedger
<1> QED BY <1>1, <1>2, AnswersTyped, PTL
        DEF Spec, ScoredOnce, Ledger!LedgerSpec

-----------------------------------------------------------------------------
(* The leaderboard is a total order, so players have a leader.             *)

(* A player of the room is ahead of another, or behind.                    *)
LEMMA AheadOrders ==
    ASSUME NEW entries \in Entries,
           NEW p \in Players, NEW q \in Players, NEW o \in Players
    PROVE  /\ Ahead(entries, p, q) \/ Ahead(entries, q, p)
           /\ Ahead(entries, p, q) /\ Ahead(entries, q, o)
                => Ahead(entries, p, o)
           /\ Ahead(entries, p, q) /\ Ahead(entries, q, p) => p = q
<1>1. /\ entries[p] \in Int /\ entries[q] \in Int /\ entries[o] \in Int
      /\ p \in Nat /\ q \in Nat /\ o \in Nat
  BY PlayersAssumption DEF Entries
<1> QED BY <1>1 DEF Ahead

(* The first of any players, by a minimal set of players ahead of one.     *)
LEMMA LeaderLeads ==
    ASSUME NEW entries \in Entries, NEW among \in SUBSET Players, among # {}
    PROVE  /\ Leader(entries, among) \in among
           /\ \A q \in among : Ahead(entries, Leader(entries, among), q)
<1> DEFINE Before(p) == {q \in among : ~ Ahead(entries, p, q)}
           sets == {Before(p) : p \in among}
<1>1. IsFiniteSet(among)
  BY PlayersAssumption, FS_Subset
<1>2. IsWellFoundedOn(StrictSubsetOrdering(among), SUBSET among)
  BY <1>1, FS_StrictSubsetOrderingWellFounded, FS_FiniteSubsetsOfFinite
<1>3. sets \subseteq SUBSET among /\ sets # {}
  OBVIOUS
<1>4. PICK least \in sets :
              \A set \in sets : <<set, least>> \notin StrictSubsetOrdering(among)
  <2> HIDE DEF sets
  <2> QED BY <1>2, <1>3, WFMin
<1>5. PICK p \in among : least = Before(p)
  BY <1>4
<1>6. ASSUME NEW q \in among PROVE Ahead(entries, p, q)
  <2> SUFFICES ASSUME ~ Ahead(entries, p, q) PROVE FALSE
    OBVIOUS
  <2>1. Ahead(entries, q, p)
    BY AheadOrders
  <2>2. Before(q) \subseteq Before(p)
    <3> SUFFICES ASSUME NEW o \in among, Ahead(entries, p, o)
                 PROVE  Ahead(entries, q, o)
      OBVIOUS
    <3> QED BY <2>1, AheadOrders
  <2>3. q \in Before(p) /\ q \notin Before(q)
    BY AheadOrders
  <2>4. Before(q) \in sets /\ Before(p) \in sets
    OBVIOUS
  <2> QED BY <1>3, <1>4, <1>5, <2>2, <2>3, <2>4 DEF StrictSubsetOrdering
<1>7. \E o \in among : \A q \in among : Ahead(entries, o, q)
  BY <1>6
<1> QED BY <1>7 DEF Leader

(* The leader is among those it leads.                                     *)
LEMMA LeaderIs ==
    ASSUME NEW entries \in Entries
    PROVE  First(entries) \in Winners
BY LeaderLeads DEF First, Winners, OnBoard

(* The next turn goes to a player that is left.                            *)
LEMMA TurnIsLeft ==
    ASSUME job.entries \in Entries, job.todo \in SUBSET Players, job.todo # {}
    PROVE  Turn \in job.todo /\ Turn \in Players
BY LeaderLeads DEF Turn

-----------------------------------------------------------------------------
(* The types of persistMatch, and how often a match is counted.            *)

Stages == {"idle", "rounds", "tally", "upsert", "rate", "refer", "ack"}

JobType == [stage : Stages, winner : Winners, entries : Entries,
            rounds : 0..Rounds, roster : SUBSET Players, correct : Tally,
            total : Tally, todo : SUBSET Players]
HistoryType == [written : BOOLEAN, winner : Winners, players : SUBSET Players,
                score : Entries, correct : Tally]
StatsType == [matches : Nat, wins : Nat, streak : Nat, longest : Nat,
              correct : Nat, total : Nat]

(* A loop over players ends when none is left.                             *)
LoopsEnd ==
    /\ job.stage \in {"tally", "rate", "refer"} => job.todo # {}
    /\ job.stage \in {"rate", "refer"} => job.todo \subseteq OnBoard(job.entries)

(* A message in persistMatch's hands that may still count the match for p. *)
MayCount(p) == \/ job.stage \in {"rounds", "tally", "upsert"}
               \/ job.stage = "rate" /\ p \in job.todo

(* What is published or was put back is counted, waits, or may be counted. *)
Spent(p) == stats[p].matches + Len(ends) + (IF MayCount(p) THEN 1 ELSE 0)
CountedPerEnd == \A p \in Players : Spent(p) <= published + faults

CountInv == HistoryTypeOK /\ LoopsEnd /\ CountedPerEnd

(* The invariant contains the types.                                       *)
LEMMA HistoryTypes ==
    HistoryTypeOK <=>
    /\ ends \in Seq(Winners) /\ published \in 0..MaxEnds
    /\ announced \in Winners /\ settled \in BOOLEAN
    /\ job \in JobType /\ history \in HistoryType
    /\ stats \in [Players -> StatsType] /\ conversions \in [Players -> Nat]
BY DEF HistoryTypeOK, JobType, Stages, HistoryType, StatsType

(* At first there is nothing to count.                                     *)
LEMMA InitCount == Init => CountInv
<1> SUFFICES ASSUME Init PROVE CountInv
  OBVIOUS
<1>1. NoEntries \in Entries /\ NoTally \in Tally
  BY RoundsAssumption DEF NoEntries, NoTally, Entries, Tally
<1>2. IdleJob \in JobType /\ NoHistory \in HistoryType /\ NewStats \in StatsType
  BY <1>1, RoundsAssumption
     DEF IdleJob, NoHistory, NewStats, JobType, Stages, HistoryType, StatsType,
         Winners
<1>3. HistoryTypeOK
  <2>1. /\ ends \in Seq(Winners) /\ published \in 0..MaxEnds
        /\ announced \in Winners /\ settled \in BOOLEAN
    <3>1. <<>> \in Seq(Winners)
      OBVIOUS
    <3>2. 0 \in 0..MaxEnds /\ 0 \in Winners
      BY MaxEndsAssumption DEF Winners
    <3> QED BY <3>1, <3>2 DEF Init
  <2>2. stats \in [Players -> StatsType] /\ conversions \in [Players -> Nat]
    BY <1>2 DEF Init
  <2>3. job \in JobType /\ history \in HistoryType
    BY <1>2 DEF Init
  <2> QED BY <2>1, <2>2, <2>3, HistoryTypes
<1>4. LoopsEnd /\ CountedPerEnd
  BY DEF Init, AnswerInit, LoopsEnd, CountedPerEnd, Spent, MayCount, IdleJob,
         NewStats
<1> QED BY <1>3, <1>4 DEF CountInv

(* Putting a message back is a failure, and it may be counted once more.   *)
LEMMA PutBackCount ==
    ASSUME CountInv, AnswerTypeOK, PutBack, Fault,
           UNCHANGED <<published, announced, settled, stats, conversions>>,
           history' \in HistoryType
    PROVE  CountInv'
<1>1. /\ job \in JobType /\ stats \in [Players -> StatsType]
      /\ published \in Nat /\ faults \in Nat /\ faults' = faults + 1
      /\ ends \in Seq(Winners)
  BY HistoryTypes DEF CountInv, Fault, AnswerTypeOK
<1>2. /\ ends' \in Seq(Winners) /\ Len(ends') = Len(ends) + 1
      /\ Len(ends) \in Nat
  <2>1. job.winner \in Winners
    BY <1>1 DEF JobType
  <2>2. ends' = <<job.winner>> \o ends /\ <<job.winner>> \in Seq(Winners)
    BY <2>1 DEF PutBack
  <2> QED BY <1>1, <2>2
<1>3. job' = IdleJob /\ job' \in JobType
  BY RoundsAssumption
     DEF PutBack, IdleJob, JobType, Stages, Winners, NoEntries, Entries,
         NoTally, Tally
<1>4. HistoryTypeOK'
  <2> SUFFICES ends' \in Seq(Winners) /\ published' \in 0..MaxEnds
               /\ announced' \in Winners /\ settled' \in BOOLEAN
               /\ job' \in JobType /\ history' \in HistoryType
               /\ stats' \in [Players -> StatsType]
               /\ conversions' \in [Players -> Nat]
    BY DEF HistoryTypeOK, JobType, Stages, HistoryType, StatsType
  <2> QED BY <1>2, <1>3, HistoryTypes DEF CountInv
<1>5. LoopsEnd'
  BY <1>3 DEF LoopsEnd, IdleJob
<1>6. CountedPerEnd'
  <2> SUFFICES ASSUME NEW p \in Players
               PROVE  stats'[p].matches + Len(ends') + 0 <= published' + faults'
    BY <1>3 DEF CountedPerEnd, Spent, MayCount, IdleJob
  <2>1. stats[p].matches + Len(ends) + (IF MayCount(p) THEN 1 ELSE 0)
          <= published + faults
    BY DEF CountInv, CountedPerEnd, Spent
  <2>2. stats[p].matches \in Nat
    BY <1>1 DEF StatsType
  <2>3. stats'[p].matches = stats[p].matches /\ published' = published
    OBVIOUS
  <2> QED BY <1>1, <1>2, <2>1, <2>2, <2>3
<1> QED BY <1>4, <1>5, <1>6 DEF CountInv

(* Any other step keeps the invariant if it keeps the types and loops, and *)
(* counts, delivers and finishes as it should.                             *)
LEMMA CountStep ==
    ASSUME CountInv, AnswerTypeOK, faults' \in Nat, faults <= faults',
           ends' \in Seq(Winners), published' \in 0..MaxEnds,
           announced' \in Winners, settled' \in BOOLEAN,
           job' \in JobType, history' \in HistoryType,
           stats' \in [Players -> StatsType],
           conversions' \in [Players -> Nat],
           LoopsEnd',
           \A p \in Players : Spent(p)' + published <= Spent(p) + published'
    PROVE  CountInv'
<1>1. HistoryTypeOK'
  BY DEF HistoryTypeOK, JobType, Stages, HistoryType, StatsType
<1>2. published \in Nat /\ published' \in Nat /\ faults \in Nat
  BY HistoryTypes, MaxEndsAssumption DEF CountInv, AnswerTypeOK
<1>3. ASSUME NEW p \in Players
      PROVE  Spent(p) \in Nat /\ Spent(p)' \in Nat
  <2>1. stats \in [Players -> StatsType] /\ ends \in Seq(Winners)
    BY HistoryTypes DEF CountInv
  <2>2. stats[p].matches \in Nat /\ stats'[p].matches \in Nat
    BY <2>1 DEF StatsType
  <2>3. Len(ends) \in Nat /\ Len(ends') \in Nat
    BY <2>1
  <2> DEFINE m == stats[p].matches + Len(ends)
             mm == stats'[p].matches + Len(ends')
  <2>4. m \in Nat /\ mm \in Nat
    BY <2>2, <2>3
  <2> HIDE DEF m, mm
  <2>5. /\ m + (IF MayCount(p) THEN 1 ELSE 0) \in Nat
        /\ mm + (IF MayCount(p)' THEN 1 ELSE 0) \in Nat
    BY <2>4
  <2> QED BY <2>5 DEF Spent, m, mm
<1>4. CountedPerEnd'
  BY <1>2, <1>3 DEF CountInv, CountedPerEnd
<1> QED BY <1>1, <1>4 DEF CountInv

(* The steps, one by one.                                                  *)

(* What CountStep asks of the variables that a step leaves alone.          *)
LEMMA CountTypes ==
    ASSUME CountInv, AnswerTypeOK
    PROVE  /\ ends \in Seq(Winners) /\ published \in 0..MaxEnds
           /\ announced \in Winners /\ settled \in BOOLEAN
           /\ job \in JobType /\ history \in HistoryType
           /\ stats \in [Players -> StatsType]
           /\ conversions \in [Players -> Nat]
           /\ faults \in Nat /\ Len(ends) \in Nat /\ published \in Nat
           /\ \A p \in Players : stats[p] \in StatsType /\ stats[p].matches \in Nat
<1>1. /\ ends \in Seq(Winners) /\ published \in 0..MaxEnds
      /\ announced \in Winners /\ settled \in BOOLEAN
      /\ job \in JobType /\ history \in HistoryType
      /\ stats \in [Players -> StatsType]
      /\ conversions \in [Players -> Nat]
  BY HistoryTypes DEF CountInv
<1> QED BY <1>1, MaxEndsAssumption DEF AnswerTypeOK, StatsType

(* A step that fails, or does not, keeps the count of failures typed.      *)
LEMMA FaultTypes ==
    ASSUME AnswerTypeOK, NoFault \/ Fault
    PROVE  faults' \in Nat /\ faults <= faults'
BY DEF AnswerTypeOK, NoFault, Fault

(* The fields of job and what they hold.                                   *)
LEMMA JobFields ==
    ASSUME NEW j, j \in JobType
    PROVE  /\ j.stage \in Stages /\ j.winner \in Winners
           /\ j.entries \in Entries /\ j.rounds \in 0..Rounds
           /\ j.roster \in SUBSET Players /\ j.correct \in Tally
           /\ j.total \in Tally /\ j.todo \in SUBSET Players
BY DEF JobType

(* The worker that waits, and the empty tables, have their types.          *)
LEMMA IdleJobType == IdleJob \in JobType /\ NoEntries \in Entries /\ NoTally \in Tally
BY RoundsAssumption
   DEF IdleJob, JobType, Stages, Winners, NoEntries, Entries, NoTally, Tally

(* The match is ended.                                                     *)
LEMMA FinishCount == CountInv /\ AnswerTypeOK /\ FinishMatch => CountInv'
<1> SUFFICES ASSUME CountInv, AnswerTypeOK, FinishMatch PROVE CountInv'
  OBVIOUS
<1>1. PICK winner \in {First(leaderboard), 0}, sent \in BOOLEAN :
         /\ ends' = IF sent THEN Append(ends, winner) ELSE ends
         /\ published' = IF sent THEN published + 1 ELSE published
         /\ announced' = IF published = 0 THEN winner ELSE announced
         /\ IF sent /\ winner = First(leaderboard) THEN NoFault ELSE Fault
  BY DEF FinishMatch
<1>2. /\ UNCHANGED <<job, history, stats, conversions>>
      /\ settled' \in BOOLEAN /\ published < MaxEnds
  BY DEF FinishMatch, storeVars
<1>3. winner \in Winners
  <2>1. leaderboard \in Entries
    BY DEF AnswerTypeOK, Entries
  <2> QED BY <2>1, LeaderIs DEF Winners
<1>4. faults' \in Nat /\ faults <= faults'
  BY <1>1, FaultTypes
<1>5. /\ ends' \in Seq(Winners) /\ published' \in 0..MaxEnds
      /\ announced' \in Winners
      /\ \/ Len(ends') = Len(ends) + 1 /\ published' = published + 1
         \/ Len(ends') = Len(ends) /\ published' = published
  BY <1>1, <1>2, <1>3, CountTypes, MaxEndsAssumption
<1>6. LoopsEnd'
  BY <1>2 DEF CountInv, LoopsEnd
<1>7. ASSUME NEW p \in Players
      PROVE  Spent(p)' + published <= Spent(p) + published'
  <2>1. MayCount(p)' <=> MayCount(p)
    BY <1>2 DEF MayCount
  <2> DEFINE m == stats[p].matches
             c == IF MayCount(p) THEN 1 ELSE 0
  <2>2. m \in Nat /\ c \in Nat /\ Len(ends) \in Nat /\ published \in Nat
    BY CountTypes
  <2>3. Spent(p) = m + Len(ends) + c /\ Spent(p)' = m + Len(ends') + c
    BY <1>2, <2>1 DEF Spent
  <2> HIDE DEF m, c
  <2> QED BY <1>5, <2>2, <2>3
<1>8. /\ job' \in JobType /\ history' \in HistoryType
      /\ stats' \in [Players -> StatsType]
      /\ conversions' \in [Players -> Nat]
  BY <1>2, CountTypes
<1> QED BY <1>2, <1>4, <1>5, <1>6, <1>7, <1>8, CountStep

(* A step of persistMatch that delivers and counts nothing.                *)
LEMMA QuietCount ==
    ASSUME CountInv, AnswerTypeOK, NoFault \/ Fault,
           UNCHANGED <<ends, published, announced, settled, stats>>,
           job' \in JobType, history' \in HistoryType,
           conversions' \in [Players -> Nat], LoopsEnd',
           \A p \in Players : MayCount(p)' => MayCount(p)
    PROVE  CountInv'
<1>1. ASSUME NEW p \in Players
      PROVE  Spent(p)' + published <= Spent(p) + published'
  <2> DEFINE m == stats[p].matches + Len(ends)
  <2>1. m \in Nat /\ published \in Nat /\ published' = published
    BY CountTypes
  <2>2. /\ Spent(p) = m + (IF MayCount(p) THEN 1 ELSE 0)
        /\ Spent(p)' = m + (IF MayCount(p)' THEN 1 ELSE 0)
    BY DEF Spent
  <2> HIDE DEF m
  <2>3. MayCount(p)' => MayCount(p)
    OBVIOUS
  <2> QED BY <2>1, <2>2, <2>3
<1>2. faults' \in Nat /\ faults <= faults'
  BY FaultTypes
<1>3. /\ ends' \in Seq(Winners) /\ published' \in 0..MaxEnds
      /\ announced' \in Winners /\ settled' \in BOOLEAN
      /\ stats' \in [Players -> StatsType]
  BY CountTypes
<1> QED BY <1>1, <1>2, <1>3, CountStep

(* PersistRead: a message that waits is now in hand.                       *)
LEMMA ReadCount == CountInv /\ AnswerTypeOK /\ PersistRead => CountInv'
<1> SUFFICES ASSUME CountInv, AnswerTypeOK, PersistRead PROVE CountInv'
  OBVIOUS
<1>1. /\ ends # <<>> /\ ends' = Tail(ends) /\ job.stage = "idle"
      /\ UNCHANGED <<published, announced, settled, history, stats, conversions>>
      /\ NoFault \/ Fault
  BY DEF PersistRead, storeVars
<1>2. PICK read \in {leaderboard, NoEntries} :
         job' = [IdleJob EXCEPT !.stage = "rounds", !.winner = Head(ends),
                                !.entries = read]
  BY DEF PersistRead
<1>3. /\ ends' \in Seq(Winners) /\ Len(ends') = Len(ends) - 1
      /\ Head(ends) \in Winners
  BY <1>1, CountTypes
<1>4. read \in Entries
  BY IdleJobType DEF AnswerTypeOK, Entries
<1>5. job' \in JobType /\ job'.stage = "rounds"
  <2>1. "rounds" \in Stages
    BY DEF Stages
  <2> QED BY <1>2, <1>3, <1>4, <2>1, IdleJobType DEF JobType, IdleJob
<1>6. LoopsEnd'
  BY <1>5 DEF LoopsEnd
<1>7. ASSUME NEW p \in Players
      PROVE  Spent(p)' + published <= Spent(p) + published'
  <2>1. Spent(p)' = stats[p].matches + Len(ends') + 1
    BY <1>1, <1>5 DEF Spent, MayCount
  <2>2. Spent(p) = stats[p].matches + Len(ends)
    <3>1. ~ MayCount(p)
      BY <1>1 DEF MayCount
    <3>2. Spent(p) = stats[p].matches + Len(ends) + 0
      BY <3>1 DEF Spent
    <3> QED BY <3>2, CountTypes
  <2> DEFINE m == stats[p].matches
  <2>3. m \in Nat /\ Len(ends) \in Nat /\ published \in Nat
    BY CountTypes
  <2> HIDE DEF m
  <2> QED BY <1>1, <1>3, <2>1, <2>2, <2>3 DEF m
<1>8. faults' \in Nat /\ faults <= faults'
  BY <1>1, FaultTypes
<1>9. /\ published' \in 0..MaxEnds /\ announced' \in Winners
      /\ settled' \in BOOLEAN /\ history' \in HistoryType
      /\ stats' \in [Players -> StatsType] /\ conversions' \in [Players -> Nat]
  BY <1>1, CountTypes
<1> QED BY <1>3, <1>5, <1>6, <1>7, <1>8, <1>9, CountStep

(* PersistRounds: the loop starts with players to visit, or ends.          *)
LEMMA RoundsCount == CountInv /\ AnswerTypeOK /\ PersistRounds => CountInv'
<1> SUFFICES ASSUME CountInv, AnswerTypeOK, PersistRounds PROVE CountInv'
  OBVIOUS
<1>1. /\ UNCHANGED <<ends, published, announced, settled, history, stats,
                     conversions>>
      /\ job.stage = "rounds" /\ (NoFault \/ Fault)
  BY DEF PersistRounds, quizVars, storeVars
<1>2. PICK roster \in SUBSET Players, rounds \in 0..Rounds :
              ReadRounds(roster, rounds)
  <2>1. roundNow \in 0..Rounds /\ 0 \in 0..Rounds
    BY RoundsAssumption DEF AnswerTypeOK
  <2> QED BY <2>1 DEF PersistRounds
<1> DEFINE todo == OnBoard(job.entries) \cup roster
           stage == IF todo = {} THEN "upsert" ELSE "tally"
<1>3. job' = [job EXCEPT !.stage = stage, !.roster = roster,
                         !.rounds = rounds, !.todo = todo]
  BY <1>2 DEF ReadRounds
<1>4. todo \in SUBSET Players /\ stage \in Stages
  BY DEF OnBoard, Stages
<1>5. stage = "upsert" \/ (stage = "tally" /\ todo # {})
  OBVIOUS
<1> HIDE DEF todo, stage
<1>6. job' \in JobType /\ job'.stage = stage /\ job'.todo = todo
  BY <1>3, <1>4, CountTypes DEF JobType
<1>7. LoopsEnd'
  BY <1>5, <1>6 DEF LoopsEnd
<1>8. \A p \in Players : MayCount(p)' => MayCount(p)
  BY <1>1 DEF MayCount
<1>9. history' \in HistoryType /\ conversions' \in [Players -> Nat]
  BY <1>1, CountTypes
<1> QED BY <1>1, <1>6, <1>7, <1>8, <1>9, QuietCount

(* What tallyStats counts is at most the rounds.                           *)
LEMMA CountOfRounds ==
    ASSUME NEW rounds \in SUBSET (1..Rounds)
    PROVE  /\ IsFiniteSet(rounds) /\ Cardinality(rounds) \in 0..Rounds
           /\ Cardinality(rounds) \in Nat
<1>1. IsFiniteSet(1..Rounds) /\ Cardinality(1..Rounds) = Rounds
  BY RoundsAssumption, FS_Interval
<1>2. IsFiniteSet(rounds) /\ Cardinality(rounds) <= Cardinality(1..Rounds)
  BY <1>1, FS_Subset
<1>3. Cardinality(rounds) \in Nat
  BY <1>2, FS_CardinalityType
<1> QED BY <1>1, <1>2, <1>3, RoundsAssumption

(* PersistTally: one player less to visit.                                 *)
LEMMA TallyCount == CountInv /\ AnswerTypeOK /\ PersistTally => CountInv'
<1> SUFFICES ASSUME CountInv, AnswerTypeOK, PersistTally PROVE CountInv'
  OBVIOUS
<1>1. /\ UNCHANGED <<ends, published, announced, settled, history, stats,
                     conversions>>
      /\ job.stage = "tally" /\ (NoFault \/ Fault)
  BY DEF PersistTally, quizVars, storeVars
<1>2. PICK missed \in SUBSET (1..job.rounds) :
         LET seen == (1..job.rounds) \ missed
             rest == job.todo \ {Turn} IN
         job' = [job EXCEPT !.correct[Turn] = Cardinality(Correct(Turn, seen)),
                            !.total[Turn] = Cardinality(Answered(Turn, seen)),
                            !.todo = rest,
                            !.stage = Then("tally", rest, "upsert")]
  BY DEF PersistTally
<1> DEFINE seen == (1..job.rounds) \ missed
           right == Cardinality(Correct(Turn, seen))
           given == Cardinality(Answered(Turn, seen))
           rest == job.todo \ {Turn}
           stage == Then("tally", rest, "upsert")
           correct == [job.correct EXCEPT ![Turn] = right]
           total == [job.total EXCEPT ![Turn] = given]
<1>3. job' = [job EXCEPT !.correct = correct, !.total = total, !.todo = rest,
                         !.stage = stage]
  BY <1>2, CountTypes DEF JobType
<1>4. right \in 0..Rounds /\ given \in 0..Rounds
  <2>1. job.rounds \in 0..Rounds
    BY CountTypes DEF JobType
  <2>2. seen \subseteq 1..Rounds
    BY <2>1, RoundsAssumption
  <2>3. /\ Correct(Turn, seen) \in SUBSET (1..Rounds)
        /\ Answered(Turn, seen) \in SUBSET (1..Rounds)
    BY <2>2 DEF Correct, Answered
  <2> QED BY <2>3, CountOfRounds
<1>5. /\ job \in JobType /\ job.todo \in SUBSET Players
      /\ job.correct \in Tally /\ job.total \in Tally
  BY CountTypes DEF JobType
<1>6. rest \in SUBSET Players /\ stage \in Stages
  BY <1>5 DEF Then, Stages
<1>7. correct \in Tally /\ total \in Tally
  BY <1>4, <1>5 DEF Tally
<1>8. stage = "upsert" \/ (stage = "tally" /\ rest # {})
  BY DEF Then
<1> HIDE DEF correct, total, rest, stage
<1>9. job' \in JobType /\ job'.stage = stage /\ job'.todo = rest
  BY <1>3, <1>5, <1>6, <1>7 DEF JobType
<1>10. LoopsEnd'
  BY <1>8, <1>9 DEF LoopsEnd
<1>11. \A p \in Players : MayCount(p)' => MayCount(p)
  BY <1>1 DEF MayCount
<1>12. history' \in HistoryType /\ conversions' \in [Players -> Nat]
  BY <1>1, CountTypes
<1> QED BY <1>1, <1>9, <1>10, <1>11, <1>12, QuietCount

(* What is written of a match has its type.                                *)
LEMMA DocumentType ==
    ASSUME job \in JobType PROVE Document \in HistoryType
<1>1. First(job.entries) \in Winners /\ job.winner \in Winners
  BY LeaderIs DEF JobType
<1>2. OnBoard(job.entries) \cup job.roster \in SUBSET Players
  BY DEF OnBoard, JobType
<1>3. job.entries \in Entries /\ job.correct \in Tally
  BY DEF JobType
<1> QED BY <1>1, <1>2, <1>3 DEF Document, HistoryType

(* PersistUpsert: ratings follow, or the message is put back.              *)
LEMMA UpsertCount == CountInv /\ AnswerTypeOK /\ PersistUpsert => CountInv'
<1> SUFFICES ASSUME CountInv, AnswerTypeOK, PersistUpsert PROVE CountInv'
  OBVIOUS
<1>1. /\ UNCHANGED <<published, announced, settled, stats, conversions>>
      /\ job.stage = "upsert"
  BY DEF PersistUpsert
<1>2. history' \in HistoryType
  BY CountTypes, DocumentType DEF PersistUpsert, Inserted
<1>3. CASE PutBack /\ Fault
  BY <1>1, <1>2, <1>3, PutBackCount
<1>4. CASE AfterUpsert /\ NoFault /\ UNCHANGED ends
  <2> DEFINE board == OnBoard(job.entries)
             stage == IF board = {} THEN "ack"
                      ELSE IF Cardinality(board) = 1 THEN "refer" ELSE "rate"
  <2>1. job' = [job EXCEPT !.todo = board, !.stage = stage]
    BY <1>4 DEF AfterUpsert
  <2>2. board \in SUBSET Players /\ stage \in Stages
    BY DEF OnBoard, Stages
  <2>3. stage = "ack" \/ (stage \in {"rate", "refer"} /\ board # {})
    OBVIOUS
  <2> HIDE DEF stage
  <2>4. /\ job' \in JobType /\ job'.stage = stage /\ job'.todo = board
        /\ job'.entries = job.entries
    <3> HIDE DEF board
    <3> QED BY <2>1, <2>2, CountTypes DEF JobType
  <2>5. OnBoard(job'.entries) = board
    BY <2>4
  <2>6. LoopsEnd'
    <3>1. LoopsEnd' <=>
            /\ job'.stage \in {"tally", "rate", "refer"} => job'.todo # {}
            /\ job'.stage \in {"rate", "refer"}
                 => job'.todo \subseteq OnBoard(job'.entries)
      BY DEF LoopsEnd, OnBoard
    <3> QED BY <2>3, <2>4, <2>5, <3>1
  <2>7. \A p \in Players : MayCount(p)' => MayCount(p)
    BY <1>1 DEF MayCount
  <2>8. conversions' \in [Players -> Nat]
    BY <1>1, CountTypes
  <2> QED BY <1>1, <1>2, <1>4, <2>4, <2>6, <2>7, <2>8, QuietCount
<1> QED BY <1>3, <1>4 DEF PersistUpsert

(* The next player of a loop is one of those left, and the loop goes on.   *)
LEMMA TickDoes ==
    ASSUME CountInv, AnswerTypeOK, NEW next,
           \/ job.stage = "rate" /\ next = "refer"
           \/ job.stage = "refer" /\ next = "ack",
           Tick(next)
    PROVE  /\ Turn \in job.todo /\ Turn \in Players
           /\ job' \in JobType /\ LoopsEnd'
           /\ job'.entries = job.entries /\ job'.winner = job.winner
           /\ job'.correct = job.correct
           /\ \/ /\ job'.stage = job.stage
                 /\ job'.todo = job.todo \ {Turn} /\ job'.todo # {}
              \/ /\ job'.stage = next /\ job.todo = {Turn}
                 /\ next = "refer" => job'.todo = OnBoard(job.entries)
<1> DEFINE rest == job.todo \ {Turn}
           todo == IF rest = {} /\ next = "refer" THEN OnBoard(job.entries)
                   ELSE rest
           stage == Then(job.stage, rest, next)
<1>1. job' = [job EXCEPT !.todo = todo, !.stage = stage]
  BY DEF Tick
<1>2. /\ job \in JobType /\ job.entries \in Entries
      /\ job.todo \in SUBSET Players /\ job.todo # {}
      /\ job.todo \subseteq OnBoard(job.entries)
  BY CountTypes DEF JobType, CountInv, LoopsEnd
<1>3. Turn \in job.todo /\ Turn \in Players
  BY <1>2, TurnIsLeft
<1>4. todo \in SUBSET Players /\ stage \in Stages
  BY <1>2 DEF OnBoard, Then, Stages
<1>5. \/ stage = job.stage /\ todo = rest /\ rest # {}
      \/ /\ stage = next /\ rest = {}
         /\ next = "refer" => todo = OnBoard(job.entries)
  BY DEF Then
<1>6. rest \subseteq job.todo /\ (rest = {} => job.todo = {Turn})
  BY <1>3
<1>7. OnBoard(job.entries) # {}
  BY <1>2
<1> HIDE DEF todo, stage
<1>8. /\ job' \in JobType /\ job'.stage = stage /\ job'.todo = todo
      /\ job'.entries = job.entries /\ job'.winner = job.winner
      /\ job'.correct = job.correct
  BY <1>1, <1>2, <1>4 DEF JobType
<1>9. LoopsEnd'
  <2>1. LoopsEnd' <=>
          /\ job'.stage \in {"tally", "rate", "refer"} => job'.todo # {}
          /\ job'.stage \in {"rate", "refer"}
               => job'.todo \subseteq OnBoard(job'.entries)
    BY DEF LoopsEnd, OnBoard
  <2>2. CASE stage = job.stage /\ todo = rest /\ rest # {}
    BY <1>2, <1>6, <1>8, <2>1, <2>2
  <2>3. CASE /\ stage = next /\ rest = {}
             /\ next = "refer" => todo = OnBoard(job.entries)
    BY <1>7, <1>8, <2>1, <2>3
  <2> QED BY <1>5, <2>2, <2>3
<1> QED BY <1>3, <1>5, <1>6, <1>8, <1>9

(* Rated statistics have their type, and count one match more.             *)
LEMMA RatedType ==
    ASSUME job \in JobType, NEW p \in Players, NEW s \in StatsType,
           NEW seen \in StatsType, NEW first
    PROVE  /\ Rated(s, p, first, seen) \in StatsType
           /\ Rated(s, p, first, seen).matches = s.matches + 1
           /\ Rated(s, p, first, seen).wins > s.wins => p = first
<1> DEFINE streak == IF p = first THEN seen.streak + 1 ELSE 0
           longest == IF streak > seen.longest THEN streak ELSE s.longest
           wins == IF p = first THEN s.wins + 1 ELSE s.wins
<1>1. /\ s.matches \in Nat /\ s.wins \in Nat /\ s.longest \in Nat
      /\ s.correct \in Nat /\ s.total \in Nat /\ seen.streak \in Nat
  BY DEF StatsType
<1>2. job.correct[p] \in Nat /\ job.total[p] \in Nat
  BY RoundsAssumption DEF JobType, Tally
<1>3. streak \in Nat /\ wins \in Nat /\ (wins > s.wins => p = first)
  BY <1>1
<1>4. longest \in Nat
  BY <1>1, <1>3
<1>5. Rated(s, p, first, seen) =
        [matches |-> s.matches + 1, wins |-> wins, streak |-> streak,
         longest |-> longest, correct |-> s.correct + job.correct[p],
         total |-> s.total + job.total[p]]
  BY DEF Rated
<1> HIDE DEF streak, longest, wins
<1> QED BY <1>1, <1>2, <1>3, <1>4, <1>5 DEF StatsType

(* What the statistics of a step of the loop are.                          *)
LEMMA RateDoes ==
    ASSUME CountInv, AnswerTypeOK, PersistRate
    PROVE  /\ Turn \in Players
           /\ stats' \in [Players -> StatsType]
           /\ \A p \in Players : p # Turn => stats'[p] = stats[p]
           /\ \/ stats'[Turn].matches = stats[Turn].matches + 1
              \/ stats'[Turn].matches = stats[Turn].matches
           /\ stats'[Turn].wins > stats[Turn].wins => Turn = First(job.entries)
<1>1. job.stage = "rate" /\ Tick("refer")
  BY DEF PersistRate, RateTurn
<1>2. Turn \in Players
  BY <1>1, TickDoes
<1>3. /\ job \in JobType /\ stats \in [Players -> StatsType]
      /\ stats[Turn] \in StatsType /\ NewStats \in StatsType
      /\ stats[Turn].wins \in Nat
  BY <1>2, CountTypes DEF NewStats, StatsType
<1>4. PICK r \in StatsType :
         /\ stats' = [stats EXCEPT ![Turn] = r]
         /\ r.matches = stats[Turn].matches + 1 \/ r = stats[Turn]
         /\ r.wins > stats[Turn].wins => Turn = First(job.entries)
  <2> DEFINE read == Rated(stats[Turn], Turn, First(job.entries), stats[Turn])
             zero == Rated(stats[Turn], Turn, First(job.entries), NewStats)
  <2>1. /\ read \in StatsType /\ read.matches = stats[Turn].matches + 1
        /\ read.wins > stats[Turn].wins => Turn = First(job.entries)
    BY <1>2, <1>3, RatedType
  <2>2. /\ zero \in StatsType /\ zero.matches = stats[Turn].matches + 1
        /\ zero.wins > stats[Turn].wins => Turn = First(job.entries)
    BY <1>2, <1>3, RatedType
  <2>3. \/ stats' = [stats EXCEPT ![Turn] = read]
        \/ stats' = [stats EXCEPT ![Turn] = zero]
        \/ stats' = stats
    BY DEF PersistRate, RateTurn
  <2> HIDE DEF read, zero
  <2>4. CASE stats' = stats
    <3>1. stats' = [stats EXCEPT ![Turn] = stats[Turn]]
      BY <1>2, <1>3, <2>4
    <3>2. ~ (stats[Turn].wins > stats[Turn].wins)
      BY <1>3
    <3> QED BY <1>3, <3>1, <3>2
  <2> QED BY <2>1, <2>2, <2>3, <2>4
<1>5. /\ stats' \in [Players -> StatsType] /\ stats'[Turn] = r
      /\ \A p \in Players : p # Turn => stats'[p] = stats[p]
  BY <1>2, <1>3, <1>4
<1> QED BY <1>2, <1>4, <1>5

(* PersistRate: a player is counted, and may not be any more.              *)
LEMMA RateCount == CountInv /\ AnswerTypeOK /\ PersistRate => CountInv'
<1> SUFFICES ASSUME CountInv, AnswerTypeOK, PersistRate PROVE CountInv'
  OBVIOUS
<1>1. /\ UNCHANGED <<ends, published, announced, settled, history, conversions>>
      /\ job.stage = "rate" /\ Tick("refer") /\ (NoFault \/ Fault)
  BY DEF PersistRate, RateTurn, quizVars
<1>2. /\ Turn \in job.todo /\ Turn \in Players
      /\ job' \in JobType /\ LoopsEnd'
      /\ \/ job'.stage = "rate" /\ job'.todo = job.todo \ {Turn}
         \/ job'.stage = "refer" /\ job.todo = {Turn}
  BY <1>1, TickDoes
<1>3. ASSUME NEW p \in Players
      PROVE  Spent(p)' + published <= Spent(p) + published'
  <2> DEFINE m == stats[p].matches
             mm == stats'[p].matches
             n == Len(ends)
  <2>1. stats' \in [Players -> StatsType]
    BY RateDoes
  <2>2. m \in Nat /\ n \in Nat /\ published \in Nat /\ mm \in Nat
    BY <2>1, CountTypes DEF StatsType
  <2>3. /\ Spent(p) = m + n + (IF MayCount(p) THEN 1 ELSE 0)
        /\ Spent(p)' = mm + n + (IF MayCount(p)' THEN 1 ELSE 0)
    BY <1>1 DEF Spent
  <2>4. CASE p = Turn
    <3>1. MayCount(p) /\ ~ MayCount(p)'
      BY <1>1, <1>2, <2>4 DEF MayCount
    <3>2. mm = m + 1 \/ mm = m
      BY <2>4, RateDoes
    <3> HIDE DEF m, mm, n
    <3> QED BY <1>1, <2>2, <2>3, <3>1, <3>2
  <2>5. CASE p # Turn
    <3>1. MayCount(p)' => MayCount(p)
      BY <1>1, <1>2, <2>5 DEF MayCount
    <3>2. mm = m
      BY <2>5, RateDoes
    <3> HIDE DEF m, mm, n
    <3> QED BY <1>1, <2>2, <2>3, <3>1, <3>2
  <2> QED BY <2>4, <2>5
<1>4. /\ ends' \in Seq(Winners) /\ published' \in 0..MaxEnds
      /\ announced' \in Winners /\ settled' \in BOOLEAN
      /\ history' \in HistoryType /\ conversions' \in [Players -> Nat]
  BY <1>1, CountTypes
<1>5. stats' \in [Players -> StatsType]
  BY RateDoes
<1>6. faults' \in Nat /\ faults <= faults'
  BY <1>1, FaultTypes
<1> QED BY <1>2, <1>3, <1>4, <1>5, <1>6, CountStep

(* PersistRefer counts no match.                                           *)
LEMMA ReferCount == CountInv /\ AnswerTypeOK /\ PersistRefer => CountInv'
<1> SUFFICES ASSUME CountInv, AnswerTypeOK, PersistRefer PROVE CountInv'
  OBVIOUS
<1>1. /\ UNCHANGED <<ends, published, announced, settled, history, stats>>
      /\ job.stage = "refer" /\ Tick("ack") /\ (NoFault \/ Fault)
  BY DEF PersistRefer, ReferAt, quizVars
<1>2. /\ job' \in JobType /\ LoopsEnd'
      /\ job'.stage \in {"refer", "ack"}
  BY <1>1, TickDoes
<1>3. \A p \in Players : MayCount(p)' => MayCount(p)
  BY <1>2 DEF MayCount
<1>4. history' \in HistoryType
  BY <1>1, CountTypes
<1>5. conversions' \in [Players -> Nat]
  <2>1. \/ conversions' = conversions
        \/ conversions' = [conversions EXCEPT ![Turn] = @ + 1]
    BY DEF PersistRefer, ReferAt
  <2> QED BY <2>1, CountTypes
<1> QED BY <1>1, <1>2, <1>3, <1>4, <1>5, QuietCount

(* PersistAck: the message is dealt with.                                  *)
LEMMA AckCount == CountInv /\ AnswerTypeOK /\ PersistAck => CountInv'
<1> SUFFICES ASSUME CountInv, AnswerTypeOK, PersistAck PROVE CountInv'
  OBVIOUS
<1>1. /\ UNCHANGED <<faults, ends, published, announced, settled, history,
                     stats, conversions>>
      /\ job' = IdleJob
  BY DEF PersistAck, quizVars, storeVars
<1>2. job' \in JobType /\ job'.stage = "idle"
  BY <1>1, IdleJobType DEF IdleJob
<1>3. LoopsEnd' /\ \A p \in Players : ~ MayCount(p)'
  BY <1>2 DEF LoopsEnd, MayCount
<1>4. history' \in HistoryType /\ conversions' \in [Players -> Nat]
  BY <1>1, CountTypes
<1>5. NoFault
  BY <1>1 DEF NoFault
<1> QED BY <1>1, <1>2, <1>3, <1>4, <1>5, QuietCount

(* Steps that leave the end of the match alone.                            *)
LEMMA AnswersCount ==
    ASSUME CountInv, AnswerTypeOK, NoFault \/ Fault, settled' \in BOOLEAN,
           UNCHANGED <<ends, published, announced, job, storeVars>>
    PROVE  CountInv'
<1>1. UNCHANGED <<history, stats, conversions>>
  BY DEF storeVars
<1>2. LoopsEnd'
  BY DEF CountInv, LoopsEnd
<1>3. \A p \in Players : Spent(p)' = Spent(p) /\ Spent(p) \in Nat
  <2> TAKE p \in Players
  <2>1. Spent(p)' = Spent(p)
    BY <1>1 DEF Spent, MayCount
  <2> DEFINE m == stats[p].matches + Len(ends)
  <2>2. m \in Nat
    BY CountTypes
  <2>3. Spent(p) = m + (IF MayCount(p) THEN 1 ELSE 0)
    BY DEF Spent
  <2> HIDE DEF m
  <2> QED BY <2>1, <2>2, <2>3
<1>4. /\ ends' \in Seq(Winners) /\ published' \in 0..MaxEnds
      /\ announced' \in Winners /\ job' \in JobType /\ history' \in HistoryType
      /\ stats' \in [Players -> StatsType] /\ conversions' \in [Players -> Nat]
  BY <1>1, CountTypes
<1>5. \A p \in Players : Spent(p)' + published <= Spent(p) + published'
  BY <1>3, CountTypes
<1>6. faults' \in Nat /\ faults <= faults'
  BY FaultTypes
<1> QED BY <1>2, <1>4, <1>5, <1>6, CountStep

(* A restart puts the message back, and is a failure.                      *)
LEMMA CrashCount == CountInv /\ AnswerTypeOK /\ Crash => CountInv'
<1> SUFFICES ASSUME CountInv, AnswerTypeOK, Crash PROVE CountInv'
  OBVIOUS
<1>1. /\ UNCHANGED <<published, announced, settled, history, stats, conversions>>
      /\ Fault
  BY DEF Crash, storeVars
<1>2. CASE job.stage = "idle"
  <2>1. UNCHANGED <<ends, published, announced, job, storeVars>>
    BY <1>2 DEF Crash
  <2>2. settled' \in BOOLEAN
    BY <1>1, CountTypes
  <2> QED BY <1>1, <2>1, <2>2, AnswersCount
<1>3. CASE job.stage # "idle"
  <2>1. PutBack
    BY <1>3 DEF Crash
  <2>2. history' \in HistoryType
    BY <1>1, CountTypes
  <2> QED BY <1>1, <2>1, <2>2, PutBackCount
<1> QED BY <1>2, <1>3

(* Answers and questions count no match.                                   *)
LEMMA ScoreCount == CountInv /\ AnswerTypeOK /\ ScoreStep => CountInv'
<1> SUFFICES ASSUME CountInv, AnswerTypeOK, ScoreStep PROVE CountInv'
  OBVIOUS
<1>1. /\ UNCHANGED <<ends, published, announced, job, storeVars>>
      /\ settled' = (settled /\ Awaited' = {})
  BY DEF ScoreStep
<1>2. settled' \in BOOLEAN
  BY <1>1
<1>3. NoFault \/ Fault
  BY DEF ScoreStep, AnswerNext, Process, AskQuestion, SubmitAnswer, TakeAnswer,
         RecordAnswer, UpdateLeaderboard, AckAnswer, Requeue
<1> QED BY <1>1, <1>2, <1>3, AnswersCount

(* Every step of the specification keeps the invariant.                    *)
LEMMA NextCount == CountInv /\ AnswerTypeOK /\ [Next]_vars => CountInv'
<1> SUFFICES ASSUME CountInv, AnswerTypeOK, [Next]_vars PROVE CountInv'
  OBVIOUS
<1>1. CASE ScoreStep
  BY <1>1, ScoreCount
<1>2. CASE FinishMatch
  BY <1>2, FinishCount
<1>3. CASE Persist
  BY <1>3, ReadCount, RoundsCount, TallyCount, UpsertCount, RateCount,
     ReferCount, AckCount DEF Persist
<1>4. CASE Crash
  BY <1>4, CrashCount
<1>5. CASE UNCHANGED vars
  <2>1. UNCHANGED <<ends, published, announced, settled, job, storeVars, faults>>
    BY <1>5 DEF vars, quizVars
  <2>2. settled' \in BOOLEAN
    BY <2>1, CountTypes
  <2> QED BY <2>1, <2>2, AnswersCount DEF NoFault
<1> QED BY <1>1, <1>2, <1>3, <1>4, <1>5 DEF Next

-----------------------------------------------------------------------------
(* The winner the players were told, the history's and the statistics'.    *)

(* Before the match is ended there is nothing to persist.                  *)
NothingYet ==
    faults = 0 /\ published = 0 =>
      /\ ends = <<>> /\ job.stage = "idle" /\ ~ history.written
      /\ \A p \in Players : stats[p].wins = 0

(* When all answers were in, every message names the leaderboard's first,  *)
(* and persistMatch has read that leaderboard.                             *)
SettledWinner ==
    faults = 0 /\ settled =>
      /\ Awaited = {} /\ step = "idle" /\ published > 0
      /\ announced = First(leaderboard)
      /\ \A i \in 1..Len(ends) : ends[i] = announced
      /\ job.stage # "idle"
           => job.winner = announced /\ job.entries = leaderboard

WinnerInv == NothingYet /\ SettledWinner /\ WinnersAgree

(* At first nothing is told, written or counted.                           *)
LEMMA InitWinner == Init => WinnerInv
BY DEF Init, AnswerInit, WinnerInv, NothingYet, SettledWinner, WinnersAgree,
       IdleJob, NoHistory, NewStats

(* A failure excuses everything.                                           *)
LEMMA FaultWinner ==
    ASSUME AnswerTypeOK, Fault PROVE WinnerInv'
<1>1. faults' # 0
  BY DEF AnswerTypeOK, Fault
<1> QED BY <1>1 DEF WinnerInv, NothingYet, SettledWinner, WinnersAgree

(* A step that leaves the answers, the messages and the history alone.     *)
LEMMA QuietWinner ==
    ASSUME WinnerInv, UNCHANGED <<faults, answer, queue, step, leaderboard, ends,
                                  published, announced, settled, history, stats>>,
           faults = 0 => published > 0 \/ job'.stage = "idle",
           settled /\ faults = 0 /\ job'.stage # "idle" =>
             job'.winner = announced /\ job'.entries = leaderboard
    PROVE  WinnerInv'
<1>1. NothingYet'
  BY DEF WinnerInv, NothingYet
<1>2. SettledWinner'
  <2>1. Awaited' = Awaited
    BY DEF Awaited, InList
  <2> QED BY <2>1 DEF WinnerInv, SettledWinner
<1>3. WinnersAgree'
  BY DEF WinnerInv, WinnersAgree
<1> QED BY <1>1, <1>2, <1>3 DEF WinnerInv

(* An answer is scored, or a new one sent, which unsettles the match.      *)
LEMMA ScoreWinner == WinnerInv /\ CountInv /\ AnswerInv /\ ScoreStep => WinnerInv'
<1> SUFFICES ASSUME WinnerInv, CountInv, AnswerTypeOK, ScoreStep PROVE WinnerInv'
  BY DEF AnswerInv
<1>1. /\ UNCHANGED <<ends, published, announced, job, history, stats>>
      /\ settled' = (settled /\ Awaited' = {})
  BY DEF ScoreStep, storeVars
<1>2. CASE faults' # 0
  BY <1>2 DEF WinnerInv, NothingYet, SettledWinner, WinnersAgree
<1>3. CASE faults' = 0
  <2>1. faults = 0
    BY <1>3 DEF ScoreStep, AnswerNext, Process, AskQuestion, SubmitAnswer,
                TakeAnswer, RecordAnswer, UpdateLeaderboard, AckAnswer, Requeue,
                NoFault, Fault, AnswerTypeOK
  <2>2. NothingYet'
    BY <1>1, <2>1 DEF WinnerInv, NothingYet
  <2>3. settled' => settled
    BY <1>1
  <2>4. WinnersAgree'
    BY <1>1, <2>1, <2>3 DEF WinnerInv, WinnersAgree
  <2>5. SettledWinner'
    <3> SUFFICES ASSUME settled', settled, Awaited' = {} PROVE SettledWinner'
      BY <1>1 DEF SettledWinner
    <3>1. Awaited = {} /\ step = "idle"
      BY <2>1 DEF WinnerInv, SettledWinner
    <3>2. AskQuestion \/ SubmitAnswer \/ TakeAnswer
      BY <3>1 DEF ScoreStep, AnswerNext, Process, RecordAnswer,
                  UpdateLeaderboard, AckAnswer
    <3>3. TakeAnswer => UNCHANGED step
      BY <3>1 DEF TakeAnswer, Awaited
    <3>4. step' = "idle" /\ UNCHANGED leaderboard
      BY <3>1, <3>2, <3>3 DEF AskQuestion, SubmitAnswer, TakeAnswer
    <3> QED BY <1>1, <2>1, <3>4 DEF WinnerInv, SettledWinner
  <2> QED BY <2>2, <2>4, <2>5 DEF WinnerInv
<1> QED BY <1>2, <1>3

(* The match is ended: the first time, or with the winner told before.     *)
LEMMA FinishWinner ==
    WinnerInv /\ CountInv /\ AnswerInv /\ FinishMatch => WinnerInv'
<1> SUFFICES ASSUME WinnerInv, CountInv, AnswerTypeOK, FinishMatch
             PROVE  WinnerInv'
  BY DEF AnswerInv
<1>1. /\ UNCHANGED <<step, leaderboard, job, history, stats>>
      /\ settled' = (Awaited = {} /\ step = "idle" /\ (published > 0 => settled))
      /\ Awaited' = Awaited
  BY DEF FinishMatch, answerVars, storeVars, Awaited, InList
<1>2. CASE Fault
  BY <1>2, FaultWinner
<1>3. CASE ~ Fault
  <2>1. /\ ends' = Append(ends, First(leaderboard))
        /\ published' = published + 1
        /\ announced' = IF published = 0 THEN First(leaderboard) ELSE announced
        /\ faults' = faults
    BY <1>3 DEF FinishMatch, NoFault
  <2>2. published \in Nat /\ published' # 0 /\ published' > 0
    BY <2>1, CountTypes
  <2>3. /\ Len(ends') = Len(ends) + 1 /\ Len(ends) \in Nat
        /\ \A i \in 1..Len(ends) : ends'[i] = ends[i]
        /\ ends'[Len(ends) + 1] = First(leaderboard)
    BY <2>1, CountTypes
  <2>4. NothingYet'
    BY <2>2 DEF NothingYet
  <2>5. ASSUME faults' = 0, settled'
        PROVE  /\ announced' = First(leaderboard)
               /\ \A i \in 1..Len(ends') : ends'[i] = announced'
               /\ job.stage # "idle"
                    => job.winner = announced' /\ job.entries = leaderboard
               /\ history.written => history.winner = announced'
               /\ \A p \in Players : stats[p].wins > 0 => p = announced'
    <3>1. CASE published = 0
      <4>1. /\ ends = <<>> /\ job.stage = "idle" /\ ~ history.written
            /\ \A p \in Players : stats[p].wins = 0
        BY <2>1, <2>5, <3>1 DEF WinnerInv, NothingYet
      <4>2. announced' = First(leaderboard)
        BY <2>1, <3>1
      <4>3. Len(ends') = 1 /\ ends'[1] = First(leaderboard)
        <5>1. Len(ends) = 0
          BY <4>1
        <5> QED BY <2>3, <5>1
      <4>5. \A i \in 1..Len(ends') : ends'[i] = announced'
        <5> TAKE i \in 1..Len(ends')
        <5>1. i = 1
          BY <4>3
        <5> QED BY <4>2, <4>3, <5>1
      <4>6. /\ job.stage # "idle"
                  => job.winner = announced' /\ job.entries = leaderboard
            /\ history.written => history.winner = announced'
        BY <4>1
      <4>7. \A p \in Players : stats[p].wins > 0 => p = announced'
        BY <4>1
      <4> QED BY <4>2, <4>5, <4>6, <4>7
    <3>2. CASE published > 0
      <4>1. settled /\ faults = 0 /\ announced' = announced
        <5>1. settled' => (published > 0 => settled)
          BY <1>1
        <5>2. faults = 0 /\ published # 0
          BY <2>1, <2>2, <2>5, <3>2
        <5> QED BY <2>1, <2>5, <3>2, <5>1, <5>2
      <4>2. /\ announced = First(leaderboard)
            /\ \A i \in 1..Len(ends) : ends[i] = announced
            /\ job.stage # "idle"
                 => job.winner = announced /\ job.entries = leaderboard
        BY <4>1 DEF WinnerInv, SettledWinner
      <4>3. \A i \in 1..Len(ends') : i \in 1..Len(ends) \/ i = Len(ends) + 1
        BY <2>3
      <4>4. \A i \in 1..Len(ends') : ends'[i] = announced
        BY <2>3, <4>2, <4>3
      <4> QED BY <4>1, <4>2, <4>4 DEF WinnerInv, WinnersAgree
    <3> QED BY <2>2, <3>1, <3>2
  <2>6. SettledWinner'
    <3> SUFFICES ASSUME faults' = 0, settled' PROVE SettledWinner'
      BY DEF SettledWinner
    <3>1. First(leaderboard)' = First(leaderboard)
      BY <1>1 DEF First, Leader, OnBoard, Ahead
    <3> QED BY <1>1, <2>2, <2>5, <3>1 DEF SettledWinner
  <2>7. WinnersAgree'
    BY <1>1, <2>5 DEF WinnersAgree
  <2> QED BY <2>4, <2>6, <2>7 DEF WinnerInv
<1> QED BY <1>2, <1>3

(* A job is about a match that was ended.                                  *)
LEMMA JobEnded ==
    ASSUME WinnerInv, CountInv, AnswerTypeOK, faults = 0,
           job.stage # "idle" \/ ends # <<>>
    PROVE  published > 0
<1>1. published \in Nat
  BY CountTypes
<1> QED BY <1>1 DEF WinnerInv, NothingYet

(* A step of persistMatch that goes on with what it has read.              *)
LEMMA GoOnWinner ==
    ASSUME WinnerInv, CountInv, AnswerTypeOK,
           UNCHANGED <<answer, queue, step, leaderboard, ends, published,
                       announced, settled, history, stats>>,
           job.stage # "idle", NoFault \/ Fault,
           job'.winner = job.winner, job'.entries = job.entries
    PROVE  WinnerInv'
<1>1. CASE Fault
  BY <1>1, FaultWinner
<1>2. CASE NoFault
  <2>1. UNCHANGED faults
    BY <1>2 DEF NoFault
  <2>2. faults = 0 => published > 0
    BY JobEnded
  <2>3. settled /\ faults = 0 =>
          job'.winner = announced /\ job'.entries = leaderboard
    BY DEF WinnerInv, SettledWinner
  <2> QED BY <2>1, <2>2, <2>3, QuietWinner
<1> QED BY <1>1, <1>2

(* PersistRead: the leaderboard read is the one the winner comes from.     *)
LEMMA ReadWinner == WinnerInv /\ CountInv /\ AnswerInv /\ PersistRead => WinnerInv'
<1> SUFFICES ASSUME WinnerInv, CountInv, AnswerTypeOK, PersistRead
             PROVE  WinnerInv'
  BY DEF AnswerInv
<1>1. /\ UNCHANGED <<step, leaderboard, published, announced, settled, history,
                     stats>>
      /\ job.stage = "idle" /\ ends # <<>> /\ ends' = Tail(ends)
      /\ Awaited' = Awaited
  BY DEF PersistRead, answerVars, storeVars, Awaited, InList
<1>2. CASE Fault
  BY <1>2, FaultWinner
<1>3. CASE ~ Fault
  <2>1. /\ job' = [IdleJob EXCEPT !.stage = "rounds", !.winner = Head(ends),
                                  !.entries = leaderboard]
        /\ faults' = faults
    BY <1>3 DEF PersistRead, NoFault
  <2>2. job'.winner = Head(ends) /\ job'.entries = leaderboard
    BY <2>1 DEF IdleJob
  <2>3. /\ Head(ends) = ends[1] /\ Len(ends') = Len(ends) - 1
        /\ Len(ends) \in Nat /\ Len(ends) > 0
        /\ \A i \in 1..Len(ends') : ends'[i] = ends[i + 1]
    BY <1>1, CountTypes
  <2>4. faults = 0 => published > 0
    BY <1>1, JobEnded
  <2>5. published \in Nat /\ (published > 0 => published # 0)
    BY CountTypes
  <2>6. NothingYet'
    BY <1>1, <2>1, <2>4, <2>5 DEF NothingYet
  <2>7. SettledWinner'
    <3> SUFFICES ASSUME faults = 0, settled
                 PROVE  SettledWinner'
      BY <1>1, <2>1 DEF SettledWinner
    <3>1. /\ Awaited = {} /\ step = "idle" /\ published > 0
          /\ announced = First(leaderboard)
          /\ \A i \in 1..Len(ends) : ends[i] = announced
      BY DEF WinnerInv, SettledWinner
    <3>2. 1 \in 1..Len(ends) /\ \A i \in 1..Len(ends') : i + 1 \in 1..Len(ends)
      BY <2>3
    <3>3. \A i \in 1..Len(ends') : ends'[i] = announced
      BY <2>3, <3>1, <3>2
    <3>4. job'.winner = announced /\ job'.entries = leaderboard
      BY <2>2, <2>3, <3>1, <3>2
    <3>5. First(leaderboard)' = First(leaderboard)
      BY <1>1 DEF First, Leader, OnBoard, Ahead
    <3> QED BY <1>1, <3>1, <3>3, <3>4, <3>5 DEF SettledWinner
  <2>8. WinnersAgree'
    BY <1>1, <2>1 DEF WinnerInv, WinnersAgree
  <2> QED BY <2>6, <2>7, <2>8 DEF WinnerInv
<1> QED BY <1>2, <1>3

(* PersistRounds and PersistTally go on with what was read.                *)
LEMMA LoopWinner ==
    ASSUME WinnerInv, CountInv, AnswerTypeOK, PersistRounds \/ PersistTally
    PROVE  WinnerInv'
<1>1. /\ UNCHANGED <<answer, queue, step, leaderboard, ends, published,
                     announced, settled, history, stats>>
      /\ job.stage # "idle" /\ (NoFault \/ Fault)
  BY DEF PersistRounds, PersistTally, answerVars, quizVars, storeVars
<1>2. job'.winner = job.winner /\ job'.entries = job.entries
  <2>1. job \in JobType
    BY CountTypes
  <2>2. CASE PersistRounds
    BY <2>1, <2>2 DEF PersistRounds, ReadRounds, JobType
  <2>3. CASE PersistTally
    BY <2>1, <2>3 DEF PersistTally, JobType
  <2> QED BY <2>2, <2>3
<1> QED BY <1>1, <1>2, GoOnWinner

(* PersistUpsert: the winner written is the one announced.                 *)
LEMMA UpsertWinner ==
    ASSUME WinnerInv, CountInv, AnswerTypeOK, PersistUpsert
    PROVE  WinnerInv'
<1>1. CASE Fault
  BY <1>1, FaultWinner
<1>2. CASE ~ Fault
  <2>1. /\ UNCHANGED <<step, leaderboard, ends, published, announced,
                       settled, stats, faults>>
        /\ job.stage = "upsert" /\ Inserted /\ AfterUpsert
        /\ Awaited' = Awaited
    BY <1>2 DEF PersistUpsert, answerVars, NoFault, Awaited,
                InList
  <2>2. job'.winner = job.winner /\ job'.entries = job.entries
    BY <2>1, CountTypes DEF AfterUpsert, JobType
  <2>3. published \in Nat /\ (faults = 0 => published # 0)
    BY <2>1, JobEnded, CountTypes
  <2>4. NothingYet'
    BY <2>1, <2>3 DEF NothingYet
  <2>5. SettledWinner'
    <3> SUFFICES ASSUME faults = 0, settled
                 PROVE  SettledWinner'
      BY <2>1 DEF SettledWinner
    <3>1. First(leaderboard)' = First(leaderboard)
      BY <2>1 DEF First, Leader, OnBoard, Ahead
    <3> QED BY <2>1, <2>2, <3>1 DEF WinnerInv, SettledWinner
  <2>6. WinnersAgree'
    <3> SUFFICES ASSUME settled, faults = 0
                 PROVE  /\ history'.written => history'.winner = announced
                        /\ \A p \in Players : stats[p].wins > 0 => p = announced
      BY <2>1 DEF WinnersAgree
    <3>1. /\ job.winner = announced /\ First(job.entries) = announced
      BY <2>1 DEF WinnerInv, SettledWinner
    <3>2. Document.winner = announced
      BY <3>1 DEF Document
    <3> QED BY <2>1, <3>2 DEF WinnerInv, WinnersAgree, Inserted
  <2> QED BY <2>4, <2>5, <2>6 DEF WinnerInv
<1> QED BY <1>1, <1>2

(* PersistRate: the player that wins is the one announced.                 *)
LEMMA RateWinner ==
    ASSUME WinnerInv, CountInv, AnswerTypeOK, PersistRate
    PROVE  WinnerInv'
<1>1. CASE Fault
  BY <1>1, FaultWinner
<1>2. CASE ~ Fault
  <2>1. /\ UNCHANGED <<step, leaderboard, ends, published, announced,
                       settled, history, faults>>
        /\ job.stage = "rate" /\ Tick("refer")
        /\ Awaited' = Awaited
    BY <1>2 DEF PersistRate, RateTurn, answerVars, quizVars, NoFault, Awaited,
                InList
  <2>2. job'.winner = job.winner /\ job'.entries = job.entries
    BY <2>1, TickDoes
  <2>3. published \in Nat /\ (faults = 0 => published # 0)
    BY <2>1, JobEnded, CountTypes
  <2>4. NothingYet'
    BY <2>1, <2>3 DEF NothingYet
  <2>5. SettledWinner'
    <3> SUFFICES ASSUME faults = 0, settled
                 PROVE  SettledWinner'
      BY <2>1 DEF SettledWinner
    <3>1. First(leaderboard)' = First(leaderboard)
      BY <2>1 DEF First, Leader, OnBoard, Ahead
    <3> QED BY <2>1, <2>2, <3>1 DEF WinnerInv, SettledWinner
  <2>6. WinnersAgree'
    <3> SUFFICES ASSUME settled, faults = 0
                 PROVE  /\ history.written => history.winner = announced
                        /\ \A p \in Players : stats'[p].wins > 0 => p = announced
      BY <2>1 DEF WinnersAgree
    <3>1. First(job.entries) = announced
      BY <2>1 DEF WinnerInv, SettledWinner
    <3>2. /\ history.written => history.winner = announced
          /\ \A p \in Players : stats[p].wins > 0 => p = announced
      BY DEF WinnerInv, WinnersAgree
    <3>3. ASSUME NEW p \in Players, stats'[p].wins > 0 PROVE p = announced
      <4>1. CASE p # Turn
        BY <3>2, <3>3, <4>1, RateDoes
      <4>2. CASE p = Turn
        <5>1. stats' \in [Players -> StatsType] /\ stats \in [Players -> StatsType]
          BY RateDoes, CountTypes
        <5>2. stats'[p].wins \in Nat /\ stats[p].wins \in Nat
          BY <5>1 DEF StatsType
        <5>3. stats[p].wins > 0 \/ stats'[p].wins > stats[p].wins
          BY <3>3, <5>2
        <5> QED BY <3>1, <3>2, <4>2, <5>3, RateDoes
      <4> QED BY <4>1, <4>2
    <3> QED BY <3>2, <3>3
  <2> QED BY <2>4, <2>5, <2>6 DEF WinnerInv
<1> QED BY <1>1, <1>2

(* PersistRefer names no winner.                                           *)
LEMMA ReferWinner ==
    ASSUME WinnerInv, CountInv, AnswerTypeOK, PersistRefer
    PROVE  WinnerInv'
<1>1. /\ UNCHANGED <<answer, queue, step, leaderboard, ends, published,
                     announced, settled, history, stats>>
      /\ job.stage = "refer" /\ Tick("ack") /\ (NoFault \/ Fault)
  BY DEF PersistRefer, ReferAt, answerVars, quizVars
<1>2. job'.winner = job.winner /\ job'.entries = job.entries
  BY <1>1, TickDoes
<1> QED BY <1>1, <1>2, GoOnWinner

(* PersistAck leaves the history and the statistics as they are.           *)
LEMMA AckWinner == ASSUME WinnerInv, PersistAck PROVE WinnerInv'
<1>1. /\ UNCHANGED <<faults, answer, queue, step, leaderboard, ends, published,
                     announced, settled, history, stats>>
      /\ job'.stage = "idle"
  BY DEF PersistAck, answerVars, quizVars, storeVars, IdleJob
<1> QED BY <1>1, QuietWinner

(* Every step keeps the invariant.                                         *)
LEMMA NextWinner ==
    WinnerInv /\ CountInv /\ AnswerInv /\ [Next]_vars => WinnerInv'
<1> SUFFICES ASSUME WinnerInv, CountInv, AnswerInv, [Next]_vars
             PROVE  WinnerInv'
  OBVIOUS
<1>0. AnswerTypeOK
  BY DEF AnswerInv
<1>1. CASE ScoreStep
  BY <1>1, ScoreWinner
<1>2. CASE FinishMatch
  BY <1>2, FinishWinner
<1>3. CASE Persist
  BY <1>0, <1>3, ReadWinner, LoopWinner, UpsertWinner, RateWinner, ReferWinner,
     AckWinner DEF Persist
<1>4. CASE Crash
  BY <1>0, <1>4, FaultWinner DEF Crash
<1>5. CASE UNCHANGED vars
  <2>1. UNCHANGED <<faults, answer, queue, step, leaderboard, ends, published,
                    announced, settled, history, stats, job>>
    BY <1>5 DEF vars, answerVars, quizVars, storeVars
  <2>2. faults = 0 => published > 0 \/ job'.stage = "idle"
    BY <1>0, <2>1, JobEnded
  <2>3. settled /\ faults = 0 /\ job'.stage # "idle" =>
          job'.winner = announced /\ job'.entries = leaderboard
    BY <2>1 DEF WinnerInv, SettledWinner
  <2> QED BY <2>1, <2>2, <2>3, QuietWinner
<1> QED BY <1>1, <1>2, <1>3, <1>4, <1>5 DEF Next

(* Whatever players answer, however often the match is ended, and wherever *)
(* persistMatch fails or scoring restarts: queue, history and statistics   *)
(* stay well typed; a match is counted for a player at most once for each  *)
(* match.finished and failure; and when all answers were scored before the *)
(* match ended and nothing failed, the winner announced is the winner of   *)
(* the history and of the statistics.                                      *)
THEOREM MatchPersisted == Spec => []PersistSafety
<1>1. Init => CountInv /\ WinnerInv
  BY InitCount, InitWinner
<1>2. AnswerInv => AnswerTypeOK
  BY DEF AnswerInv
<1>3. AnswerInv /\ CountInv => RatedOncePerEnd
  <2> SUFFICES ASSUME AnswerTypeOK, CountInv, NEW p \in Players
               PROVE  stats[p].matches <= published + faults
    BY <1>2 DEF RatedOncePerEnd
  <2> DEFINE m == stats[p].matches
             n == Len(ends)
  <2>1. m \in Nat /\ n \in Nat /\ published \in Nat /\ faults \in Nat
    BY CountTypes
  <2>2. m + n + (IF MayCount(p) THEN 1 ELSE 0) <= published + faults
    BY DEF CountInv, CountedPerEnd, Spent
  <2> HIDE DEF m, n
  <2>3. m <= published + faults
    BY <2>1, <2>2
  <2> QED BY <2>3 DEF m
<1>4. AnswerInv /\ CountInv /\ WinnerInv => PersistSafety
  BY <1>2, <1>3 DEF PersistSafety, TypeOK, CountInv, WinnerInv
<1> QED BY <1>1, <1>2, <1>4, AnswersTyped, NextCount, NextWinner, PTL DEF Spec

-----------------------------------------------------------------------------
(* The conversion of referrals.                                            *)

BoardInHistory == faults = 0 => OnBoard(history.score) \subseteq history.players

(* persistMatch still has to look at the player's referral.                *)
Due(p) == \/ job.stage = "rate" /\ p \in OnBoard(job.entries)
          \/ job.stage = "refer" /\ p \in job.todo

ConversionDue ==
    faults = 0 /\ history.written =>
      \A p \in Referred \cap Newcomers :
         p \in OnBoard(history.score) => conversions[p] > 0 \/ Due(p)

ConvertInv == BoardInHistory /\ ConversionDue

(* At first nothing is due.                                                *)
LEMMA InitConvert == Init => ConvertInv
BY DEF Init, ConvertInv, BoardInHistory, ConversionDue, NoHistory, NoEntries,
       OnBoard

(* A failure excuses everything.                                           *)
LEMMA FaultConvert == ASSUME AnswerTypeOK, Fault PROVE ConvertInv'
<1>1. faults' # 0
  BY DEF AnswerTypeOK, Fault
<1> QED BY <1>1 DEF ConvertInv, BoardInHistory, ConversionDue

(* A step that writes nothing and leaves what is due.                      *)
LEMMA QuietConvert ==
    ASSUME ConvertInv, AnswerTypeOK, NoFault \/ Fault,
           UNCHANGED <<history, conversions>>,
           \A p \in Players : Due(p) => Due(p)'
    PROVE  ConvertInv'
<1>1. CASE Fault
  BY <1>1, FaultConvert
<1>2. CASE NoFault
  <2>1. faults' = faults
    BY <1>2 DEF NoFault
  <2>2. BoardInHistory'
    BY <2>1 DEF ConvertInv, BoardInHistory, OnBoard
  <2>3. ConversionDue'
    <3> SUFFICES ASSUME faults = 0, history.written,
                        NEW p \in Referred \cap Newcomers,
                        p \in OnBoard(history.score)
                 PROVE  conversions[p] > 0 \/ Due(p)'
      BY <2>1 DEF ConversionDue, OnBoard
    <3>1. p \in Players
      BY ReferredAssumption
    <3> QED BY <3>1 DEF ConvertInv, ConversionDue
  <2> QED BY <2>2, <2>3 DEF ConvertInv
<1> QED BY <1>1, <1>2

(* Before the upsert nothing is due.                                       *)
LEMMA EarlyConvert ==
    ASSUME ConvertInv, AnswerTypeOK,
           PersistRead \/ PersistRounds \/ PersistTally \/ PersistAck
    PROVE  ConvertInv'
<1>1. /\ UNCHANGED <<history, conversions>>
      /\ job.stage \notin {"rate", "refer"} /\ (NoFault \/ Fault)
  BY DEF PersistRead, PersistRounds, PersistTally, PersistAck, storeVars, NoFault
<1>2. \A p \in Players : ~ Due(p)
  BY <1>1 DEF Due
<1> QED BY <1>1, <1>2, QuietConvert

(* PersistUpsert: the conversions of those on the board are due.           *)
LEMMA UpsertConvert ==
    ASSUME ConvertInv, CountInv, AnswerTypeOK, PersistUpsert
    PROVE  ConvertInv'
<1>1. CASE Fault
  BY <1>1, FaultConvert
<1>2. CASE ~ Fault
  <2>1. /\ UNCHANGED <<faults, conversions>>
        /\ job.stage = "upsert" /\ Inserted /\ AfterUpsert
    BY <1>2 DEF PersistUpsert, NoFault
  <2>2. CASE history.written
    <3>1. UNCHANGED history
      BY <2>1, <2>2 DEF Inserted
    <3>2. \A p \in Players : ~ Due(p)
      BY <2>1 DEF Due
    <3> QED BY <2>1, <3>1, <3>2, QuietConvert DEF NoFault
  <2>3. CASE ~ history.written
    <3> DEFINE board == OnBoard(job.entries)
               stage == IF board = {} THEN "ack"
                        ELSE IF Cardinality(board) = 1 THEN "refer" ELSE "rate"
    <3>1. history' = Document
      BY <2>1, <2>3 DEF Inserted
    <3>2. history'.score = job.entries /\ board \subseteq history'.players
      BY <3>1 DEF Document
    <3>3. BoardInHistory'
      BY <3>2 DEF BoardInHistory, OnBoard
    <3>4. /\ job' = [job EXCEPT !.todo = board, !.stage = stage]
          /\ board # {} => stage \in {"refer", "rate"}
      BY <2>1 DEF AfterUpsert
    <3> HIDE DEF stage
    <3>5. /\ job'.todo = board /\ job'.stage = stage
          /\ job'.entries = job.entries
      <4> HIDE DEF board
      <4> QED BY <3>4, CountTypes DEF JobType
    <3>6. ConversionDue'
      <4> SUFFICES ASSUME NEW p \in Players, p \in board PROVE Due(p)'
        BY <3>2, ReferredAssumption DEF ConversionDue, OnBoard
      <4>1. p \in OnBoard(job'.entries)
        BY <3>5
      <4>2. Due(p)' <=> \/ job'.stage = "rate" /\ p \in OnBoard(job'.entries)
                        \/ job'.stage = "refer" /\ p \in job'.todo
        BY DEF Due, OnBoard
      <4> QED BY <3>4, <3>5, <4>1, <4>2
    <3> QED BY <3>3, <3>6 DEF ConvertInv
  <2> QED BY <2>2, <2>3
<1> QED BY <1>1, <1>2

(* PersistRate: they stay due until the loop over referrals.               *)
LEMMA RateConvert ==
    ASSUME ConvertInv, CountInv, AnswerTypeOK, PersistRate
    PROVE  ConvertInv'
<1>1. /\ UNCHANGED <<history, conversions>>
      /\ job.stage = "rate" /\ Tick("refer") /\ (NoFault \/ Fault)
  BY DEF PersistRate, RateTurn
<1>2. ASSUME NEW p \in Players, Due(p) PROVE Due(p)'
  <2>1. p \in OnBoard(job.entries)
    BY <1>1, <1>2 DEF Due
  <2>2. /\ job'.entries = job.entries
        /\ \/ job'.stage = "rate"
           \/ job'.stage = "refer" /\ job'.todo = OnBoard(job.entries)
    BY <1>1, TickDoes
  <2>3. Due(p)' <=> \/ job'.stage = "rate" /\ p \in OnBoard(job'.entries)
                    \/ job'.stage = "refer" /\ p \in job'.todo
    BY DEF Due, OnBoard
  <2> QED BY <2>1, <2>2, <2>3
<1> QED BY <1>1, <1>2, QuietConvert

(* The player whose turn it is is converted, unless that fails.            *)
LEMMA ReferConvert ==
    ASSUME ConvertInv, CountInv, AnswerTypeOK, PersistRefer
    PROVE  ConvertInv'
<1>1. CASE Fault
  BY <1>1, FaultConvert
<1>2. CASE ~ Fault
  <2>1. /\ UNCHANGED <<faults, history>>
        /\ job.stage = "refer" /\ Tick("ack")
        /\ IF Turn \in Referred /\ MatchCount(Turn) = 1
             THEN conversions' = [conversions EXCEPT ![Turn] = @ + 1]
             ELSE UNCHANGED conversions
    BY <1>2 DEF PersistRefer, ReferAt, NoFault
  <2>2. /\ Turn \in job.todo /\ Turn \in Players
        /\ \/ job'.stage = "refer" /\ job'.todo = job.todo \ {Turn}
           \/ job'.stage = "ack" /\ job.todo = {Turn}
    BY <2>1, TickDoes
  <2>3. BoardInHistory'
    BY <2>1 DEF ConvertInv, BoardInHistory, OnBoard
  <2>4. ConversionDue'
    <3> SUFFICES ASSUME faults = 0, history.written,
                        NEW p \in Referred \cap Newcomers,
                        p \in OnBoard(history.score)
                 PROVE  conversions'[p] > 0 \/ Due(p)'
      BY <2>1 DEF ConversionDue, OnBoard
    <3>1. p \in Players /\ p \in history.players
      BY ReferredAssumption DEF ConvertInv, BoardInHistory
    <3>2. conversions \in [Players -> Nat]
      BY CountTypes
    <3>3. CASE p = Turn
      <4>1. MatchCount(Turn) = 1
        BY <3>1, <3>3 DEF MatchCount
      <4>2. conversions'[p] = conversions[p] + 1
        BY <2>1, <3>1, <3>2, <3>3, <4>1
      <4> QED BY <3>1, <3>2, <4>2
    <3>4. CASE p # Turn
      <4>1. conversions'[p] = conversions[p]
        BY <2>1, <2>2, <3>1, <3>2, <3>4
      <4>2. conversions[p] > 0 \/ Due(p)
        BY DEF ConvertInv, ConversionDue
      <4>3. Due(p) => Due(p)'
        BY <2>1, <2>2, <3>4 DEF Due
      <4> QED BY <4>1, <4>2, <4>3
    <3> QED BY <3>3, <3>4
  <2> QED BY <2>3, <2>4 DEF ConvertInv
<1> QED BY <1>1, <1>2

(* Every step keeps the invariant.                                         *)
LEMMA NextConvert ==
    ConvertInv /\ CountInv /\ AnswerInv /\ [Next]_vars => ConvertInv'
<1> SUFFICES ASSUME ConvertInv, CountInv, AnswerTypeOK, [Next]_vars
             PROVE  ConvertInv'
  BY DEF AnswerInv
<1>1. CASE ScoreStep \/ FinishMatch
  <2>1. UNCHANGED <<job, history, conversions>>
    BY <1>1 DEF ScoreStep, FinishMatch, storeVars
  <2>2. NoFault \/ Fault
    BY <1>1 DEF FinishMatch, ScoreStep, AnswerNext, Process, AskQuestion,
       SubmitAnswer, TakeAnswer, RecordAnswer, UpdateLeaderboard, AckAnswer, Requeue
  <2>3. \A p \in Players : Due(p) => Due(p)'
    BY <2>1 DEF Due, OnBoard
  <2> QED BY <2>1, <2>2, <2>3, QuietConvert
<1>2. CASE Persist
  BY <1>2, EarlyConvert, UpsertConvert, RateConvert, ReferConvert DEF Persist
<1>3. CASE Crash
  BY <1>3, FaultConvert DEF Crash
<1>4. CASE UNCHANGED vars
  <2>1. UNCHANGED <<faults, job, history, conversions>>
    BY <1>4 DEF vars, storeVars
  <2>2. \A p \in Players : Due(p) => Due(p)'
    BY <2>1 DEF Due, OnBoard
  <2> QED BY <2>1, <2>2, QuietConvert DEF NoFault
<1> QED BY <1>1, <1>2, <1>3, <1>4 DEF Next

(* While nothing failed, the first match of a referred player who answered *)
(* anything converts its referral by the time persistMatch is done: the    *)
(* match is in the history when it is counted.                             *)
THEOREM ReferralsConvert == Spec => []FirstMatchConverts
<1>1. Init => CountInv /\ ConvertInv
  BY InitCount, InitConvert
<1>2. ConvertInv => FirstMatchConverts
  BY DEF ConvertInv, ConversionDue, FirstMatchConverts, Due
<1>3. AnswerInv => AnswerTypeOK
  BY DEF AnswerInv
<1> QED BY <1>1, <1>2, <1>3, AnswersTyped, NextCount, NextConvert, PTL DEF Spec

-----------------------------------------------------------------------------
(* The points of the history and the answers that explain them.            *)

RoundsAgree == faults = 0 => roundNow = asked

AnswersAsked ==
    \A i \in 1..Len(answer) : answer[i].early \/ answer[i].round <= asked

Right(p) == Correct(p, 1..Rounds)

(* The leaderboard never runs ahead of the answers that are kept.          *)
Explained ==
    faults = 0 =>
      \A p \in Players :
         ScoreNow(p) + Pending(p) <= 150 * Cardinality(Right(p))

(* The correct answers persistMatch will find, or has found, and those it  *)
(* need not find.                                                          *)
Untold(p) == Cardinality(EarlyCorrect(p))

Found(p) == IF job.stage = "tally" /\ p \in job.todo
              THEN Cardinality(Correct(p, 1..job.rounds))
              ELSE job.correct[p]

Worth(p) == IF job.stage = "rounds" THEN Cardinality(Right(p))
            ELSE Found(p) + Untold(p)

JobExplained ==
    faults = 0 /\ job.stage \in {"rounds", "tally", "upsert"} =>
      \A p \in OnBoard(job.entries) : job.entries[p] <= 150 * Worth(p)

ExplainInv == /\ RoundsAgree /\ AnswersAsked
              /\ Explained /\ JobExplained /\ HistoryExplainsScore

(* What a step does to the answers: they are added to, and what is kept of *)
(* them stays.                                                             *)
Grows ==
    /\ \A i \in 1..Len(answer) : i \in 1..Len(answer') /\ answer'[i] = answer[i]
    /\ \A r \in 1..Rounds, p \in Players :
          answers[r][p] # 0 => answers'[r][p] = answers[r][p]

(* A step that leaves the answers alone.                                   *)
LEMMA SameGrows == AnswerTypeOK /\ UNCHANGED <<answer, answers>> => Grows
BY DEF Grows

(* Every step.                                                             *)
LEMMA NextGrows == AnswerInv /\ [Next]_vars => Grows
<1> SUFFICES ASSUME AnswerInv, AnswerTypeOK, [Next]_vars PROVE Grows
  BY DEF AnswerInv
<1>1. CASE SubmitAnswer
  <2>1. PICK m \in Message : answer' = Append(answer, m)
    BY <1>1 DEF SubmitAnswer
  <2>2. /\ Len(answer') = Len(answer) + 1 /\ Len(answer) \in Nat
        /\ \A i \in 1..Len(answer) : answer'[i] = answer[i]
    BY <2>1 DEF AnswerTypeOK
  <2>3. \A i \in 1..Len(answer) : i \in 1..Len(answer')
    BY <2>2
  <2> QED BY <1>1, <2>2, <2>3 DEF Grows, SubmitAnswer
<1>2. CASE RecordAnswer
  <2>1. CASE UNCHANGED answers
    BY <1>2, <2>1, SameGrows DEF RecordAnswer
  <2>2. CASE Kept = 0 /\ Keep
    <3>1. step # "idle" /\ answer' = answer
      BY <1>2 DEF RecordAnswer
    <3>2. ASSUME NEW r \in 1..Rounds, NEW p \in Players, answers[r][p] # 0
          PROVE  answers'[r][p] = answers[r][p]
      <4>1. r # answer[current].round \/ p # answer[current].player
        BY <2>2, <3>2 DEF Kept
      <4> QED BY <2>2, <3>1, <4>1, KeepAnswers
    <3> QED BY <3>1, <3>2 DEF Grows
  <2> QED BY <1>2, <2>1, <2>2 DEF RecordAnswer
<1>3. CASE AskQuestion
  BY <1>3, SameGrows DEF AskQuestion
<1>4. CASE TakeAnswer \/ UpdateLeaderboard \/ AckAnswer
  BY <1>4, SameGrows DEF TakeAnswer, UpdateLeaderboard, AckAnswer
<1>5. CASE FinishMatch \/ Persist
  BY <1>5, OtherStep, SameGrows DEF answerVars
<1>6. CASE Crash
  BY <1>6, SameGrows DEF Crash, AnswerCrash
<1>7. CASE UNCHANGED vars
  BY <1>7, SameGrows DEF vars, answerVars
<1> QED BY <1>1, <1>2, <1>3, <1>4, <1>5, <1>6, <1>7
        DEF Next, ScoreStep, AnswerNext, Process

(* So a player's correct answers only become more.                         *)
LEMMA MoreCorrect ==
    ASSUME AnswerTypeOK, Grows,
           NEW p \in Players, NEW rounds \in SUBSET (1..Rounds)
    PROVE  /\ Correct(p, rounds) \subseteq Correct(p, rounds)'
           /\ Cardinality(Correct(p, rounds)) \in Nat
           /\ Cardinality(Correct(p, rounds)') \in Nat
           /\ Cardinality(Correct(p, rounds)) <= Cardinality(Correct(p, rounds)')
<1> DEFINE before == Correct(p, rounds)
           after == {r \in rounds : /\ answers'[r][p] # 0
                                    /\ answer'[answers'[r][p]].correct}
<1>1. Correct(p, rounds)' = after
  BY DEF Correct, Answered
<1>2. before \subseteq after
  <2> SUFFICES ASSUME NEW r \in rounds, answers[r][p] # 0,
                      answer[answers[r][p]].correct
               PROVE  answers'[r][p] # 0 /\ answer'[answers'[r][p]].correct
    BY DEF Correct, Answered
  <2>1. answers[r][p] \in 0..Len(answer)
    BY DEF AnswerTypeOK
  <2>2. answers[r][p] \in 1..Len(answer)
    BY <2>1 DEF AnswerTypeOK
  <2> QED BY <2>2 DEF Grows
<1>3. before \in SUBSET (1..Rounds) /\ after \in SUBSET (1..Rounds)
  BY DEF Correct, Answered
<1> HIDE DEF before, after
<1>4. /\ IsFiniteSet(after) /\ Cardinality(before) \in Nat
      /\ Cardinality(after) \in Nat
  BY <1>3, CountOfRounds
<1>5. Cardinality(before) <= Cardinality(after)
  BY <1>2, <1>4, FS_Subset
<1> QED BY <1>1, <1>2, <1>4, <1>5 DEF before

(* So do those that were given before their question was asked.            *)
LEMMA MoreEarly ==
    ASSUME AnswerTypeOK, Grows, NEW p \in Players
    PROVE  Untold(p) \in Nat /\ Untold(p)' \in Nat /\ Untold(p) <= Untold(p)'
<1> DEFINE before == EarlyCorrect(p)
           after == {r \in 1..Rounds : /\ answers'[r][p] # 0
                                       /\ answer'[answers'[r][p]].correct
                                       /\ answer'[answers'[r][p]].early}
<1>1. EarlyCorrect(p)' = after
  BY DEF EarlyCorrect, Correct, Answered
<1>2. before \subseteq after
  <2> SUFFICES ASSUME NEW r \in 1..Rounds, answers[r][p] # 0,
                      answer[answers[r][p]].correct, answer[answers[r][p]].early
               PROVE  /\ answers'[r][p] # 0 /\ answer'[answers'[r][p]].correct
                      /\ answer'[answers'[r][p]].early
    BY DEF EarlyCorrect, Correct, Answered
  <2>1. answers[r][p] \in 0..Len(answer)
    BY DEF AnswerTypeOK
  <2>2. answers[r][p] \in 1..Len(answer)
    BY <2>1 DEF AnswerTypeOK
  <2> QED BY <2>2 DEF Grows
<1>3. before \in SUBSET (1..Rounds) /\ after \in SUBSET (1..Rounds)
  BY DEF EarlyCorrect, Correct, Answered
<1> HIDE DEF before, after
<1>4. /\ IsFiniteSet(after) /\ Cardinality(before) \in Nat
      /\ Cardinality(after) \in Nat
  BY <1>3, CountOfRounds
<1>5. Cardinality(before) <= Cardinality(after)
  BY <1>2, <1>4, FS_Subset
<1> QED BY <1>1, <1>4, <1>5 DEF before, Untold

(* A correct answer is to a round that was asked, or was early.            *)
LEMMA CorrectAsked ==
    ASSUME AnswerInv, AnswersAsked, NEW p \in Players
    PROVE  /\ Cardinality(Right(p))
                <= Cardinality(Correct(p, 1..asked)) + Untold(p)
           /\ Cardinality(Right(p)) \in Nat /\ Untold(p) \in Nat
           /\ Cardinality(Correct(p, 1..asked)) \in Nat
<1>1. asked \in 0..Rounds /\ 1..asked \subseteq 1..Rounds
  BY RoundsAssumption DEF AnswerInv, AnswerTypeOK
<1>2. ASSUME NEW r \in 1..Rounds, answers[r][p] # 0,
             ~ answer[answers[r][p]].early
      PROVE  r \in 1..asked
  <2>1. answers[r][p] \in 0..Len(answer)
    BY DEF AnswerInv, AnswerTypeOK
  <2>2. answers[r][p] \in 1..Len(answer)
    BY <1>2, <2>1 DEF AnswerInv, AnswerTypeOK
  <2>3. answer[answers[r][p]].round = r /\ answer[answers[r][p]].round <= asked
    BY <1>2, <2>2 DEF AnswerInv, KeptOwn, AnswersAsked
  <2> QED BY <1>1, <2>3
<1> DEFINE all == Right(p)
           listed == Correct(p, 1..asked)
           early == EarlyCorrect(p)
<1>3. all \subseteq listed \cup early
  BY <1>2 DEF Right, EarlyCorrect, Correct, Answered
<1>4. /\ all \in SUBSET (1..Rounds) /\ listed \in SUBSET (1..Rounds)
      /\ early \in SUBSET (1..Rounds)
  BY <1>1 DEF Right, EarlyCorrect, Correct, Answered
<1> HIDE DEF all, listed, early
<1>5. /\ IsFiniteSet(all) /\ IsFiniteSet(listed) /\ IsFiniteSet(early)
      /\ Cardinality(all) \in Nat /\ Cardinality(listed) \in Nat
      /\ Cardinality(early) \in Nat
  BY <1>4, CountOfRounds
<1>6. /\ IsFiniteSet(listed \cup early)
      /\ Cardinality(listed \cup early)
           = Cardinality(listed) + Cardinality(early) - Cardinality(listed \cap early)
  BY <1>5, FS_Union
<1>7. /\ Cardinality(listed \cap early) \in Nat
      /\ Cardinality(listed \cup early) \in Nat
  BY <1>5, <1>6, FS_Intersection, FS_CardinalityType
<1>8. Cardinality(all) <= Cardinality(listed \cup early)
  BY <1>3, <1>6, FS_Subset
<1>9. Cardinality(all) <= Cardinality(listed) + Cardinality(early)
  BY <1>5, <1>6, <1>7, <1>8
<1> QED BY <1>5, <1>9 DEF all, listed, early, Untold

(* What the history gives stays explained while it stays what it is.       *)
LEMMA HistoryStays ==
    ASSUME AnswerTypeOK, CountInv, Grows, HistoryExplainsScore, faults = 0,
           UNCHANGED history
    PROVE  HistoryExplainsScore'
<1> SUFFICES ASSUME NEW p \in Players, history.score[p] # Absent
             PROVE  history.score[p] <= 150 * (history.correct[p] + Untold(p)')
  BY DEF HistoryExplainsScore, OnBoard, Untold
<1> DEFINE s == history.score[p]
           c == history.correct[p]
           u == Untold(p)
           uu == Untold(p)'
<1>1. s \in Int /\ c \in Nat
  BY CountTypes, RoundsAssumption DEF HistoryType, Entries, Tally
<1>2. u \in Nat /\ uu \in Nat /\ u <= uu
  BY MoreEarly
<1>3. s <= 150 * (c + u)
  BY DEF HistoryExplainsScore, OnBoard, Untold
<1> HIDE DEF s, c, u, uu
<1>4. s <= 150 * (c + uu)
  BY <1>1, <1>2, <1>3
<1> QED BY <1>4 DEF s, c, uu

(* An answer earns at most 150 points, and none if it is wrong.            *)
LEMMA PointsBound ==
    ASSUME NEW m \in Message
    PROVE  /\ ScoreOf(m) \in Nat /\ ScoreOf(m) <= 150
           /\ ~ m.correct => ScoreOf(m) = 0
BY ElapsedAssumption DEF ScoreOf, SpeedTenths, Clamped, Message

(* Scores and points that are about to be added are numbers.               *)
LEMMA ScoreTypes ==
    ASSUME AnswerTypeOK, NEW p \in Players
    PROVE  ScoreNow(p) \in Nat /\ Pending(p) \in Nat
<1>1. leaderboard[p] \in Nat \cup {Absent}
  BY DEF AnswerTypeOK
<1>2. ScoreNow(p) \in Nat
  BY <1>1 DEF ScoreNow
<1>3. Pending(p) \in Nat
  <2>1. CASE step = "update"
    <3>1. answer[current] \in Message
      BY <2>1, CurrentMessage
    <3> QED BY <3>1, PointsBound DEF Pending, Points
  <2>2. CASE step # "update"
    BY <2>2 DEF Pending
  <2> QED BY <2>1, <2>2
<1> QED BY <1>2, <1>3

(* The leaderboard and what is about to be added stay explained if they    *)
(* do not grow.                                                            *)
LEMMA StillExplained ==
    ASSUME AnswerInv, AnswerTypeOK, Explained, Grows, faults = 0,
           NEW p \in Players,
           ScoreNow(p)' + Pending(p)' <= ScoreNow(p) + Pending(p),
           ScoreNow(p)' \in Nat, Pending(p)' \in Nat
    PROVE  ScoreNow(p)' + Pending(p)' <= 150 * Cardinality(Right(p)')
<1> DEFINE c == Cardinality(Right(p))
           cc == Cardinality(Right(p)')
<1>1. c \in Nat /\ cc \in Nat /\ c <= cc
  BY MoreCorrect DEF Right
<1>2. ScoreNow(p) + Pending(p) <= 150 * c
  BY DEF Explained
<1>3. ScoreNow(p) \in Nat /\ Pending(p) \in Nat
  BY ScoreTypes
<1> HIDE DEF c, cc
<1>4. ScoreNow(p)' + Pending(p)' <= 150 * cc
  BY <1>1, <1>2, <1>3
<1> QED BY <1>4 DEF cc

(* Recording an answer: its points are about to be added, and if there are *)
(* any it is one more correct answer.                                      *)
LEMMA RecordExplained ==
    ASSUME AnswerInv, AnswerTypeOK, AnswerTypeOK', Explained, Grows, faults = 0,
           step = "record", Kept = 0, Keep, step' = "update",
           UNCHANGED <<current, answer, leaderboard>>
    PROVE  Explained'
<1> SUFFICES ASSUME NEW p \in Players
             PROVE  ScoreNow(p)' + Pending(p)' <= 150 * Cardinality(Right(p)')
  BY DEF Explained
<1> DEFINE m == answer[current]
<1>1. /\ m \in Message /\ m.round \in 1..Rounds /\ current # 0
  BY CurrentMessage DEF AnswerTypeOK
<1>2. ScoreNow(p)' = ScoreNow(p)
  BY DEF ScoreNow
<1>3. Pending(p) = 0 /\ ScoreNow(p) \in Nat
  BY ScoreTypes DEF Pending
<1>4. Pending(p)' = IF m.player = p THEN ScoreOf(m) ELSE 0
  BY <1>1 DEF Pending, Points
<1>5. CASE ~ (m.player = p /\ m.correct)
  <2>1. Pending(p)' = 0
    BY <1>1, <1>4, <1>5, PointsBound
  <2>2. /\ ScoreNow(p)' + Pending(p)' <= ScoreNow(p) + Pending(p)
        /\ ScoreNow(p)' \in Nat /\ Pending(p)' \in Nat
    BY <1>2, <1>3, <2>1
  <2> QED BY <2>2, StillExplained
<1>6. CASE m.player = p /\ m.correct
  <2> DEFINE before == Right(p)
             after == Right(p)'
  <2>1. before \subseteq after
    BY MoreCorrect DEF Right
  <2>2. m.round \in after
    <3>1. answers'[m.round][p] = current
      BY <1>6, KeepAnswers
    <3>2. after = {r \in {r \in 1..Rounds : answers'[r][p] # 0} :
                      answer'[answers'[r][p]].correct}
      BY DEF Right, Correct, Answered
    <3> QED BY <1>1, <1>6, <3>1, <3>2
  <2>3. m.round \notin before
    <3>1. answers[m.round][p] = 0
      BY <1>6 DEF Kept
    <3> QED BY <3>1 DEF Right, Correct, Answered
  <2>4. before \in SUBSET (1..Rounds) /\ after \in SUBSET (1..Rounds)
    BY DEF Right, Correct, Answered
  <2>5. ScoreNow(p) + Pending(p) <= 150 * Cardinality(before)
    BY DEF Explained
  <2> DEFINE r0 == m.round
             n == ScoreOf(m)
  <2>6. n \in Nat /\ n <= 150 /\ Pending(p)' = n
    BY <1>1, <1>4, <1>6, PointsBound
  <2> HIDE DEF before, after, r0, n
  <2>7. /\ IsFiniteSet(before) /\ IsFiniteSet(after)
        /\ Cardinality(before) \in Nat /\ Cardinality(after) \in Nat
    BY <2>4, CountOfRounds
  <2>8. Cardinality(before \cup {r0}) = Cardinality(before) + 1
    BY <2>3, <2>7, FS_AddElement DEF r0
  <2>9. Cardinality(before \cup {r0}) <= Cardinality(after)
    <3>1. before \cup {r0} \in SUBSET after
      BY <2>1, <2>2 DEF r0
    <3> QED BY <2>7, <3>1, FS_Subset
  <2> DEFINE c == Cardinality(before)
             cc == Cardinality(after)
  <2>10. /\ c \in Nat /\ cc \in Nat /\ c + 1 <= cc
         /\ ScoreNow(p) + Pending(p) <= 150 * c
    BY <2>5, <2>7, <2>8, <2>9
  <2> HIDE DEF c, cc
  <2>11. ScoreNow(p)' + Pending(p)' <= 150 * cc
    BY <1>2, <1>3, <2>6, <2>10
  <2> QED BY <2>11 DEF cc, after
<1> QED BY <1>5, <1>6

(* Adding the points: what was about to be added is added.                 *)
LEMMA UpdateExplained ==
    ASSUME AnswerInv, AnswerTypeOK, Explained, Grows, faults = 0,
           step = "update", Scored, step' # "update"
    PROVE  Explained'
<1> SUFFICES ASSUME NEW p \in Players
             PROVE  ScoreNow(p)' + Pending(p)' <= 150 * Cardinality(Right(p)')
  BY DEF Explained
<1> DEFINE m == answer[current]
<1>1. m \in Message /\ current # 0
  BY CurrentMessage DEF AnswerTypeOK
<1>2. ScoreNow(p)' = IF p = m.player THEN ScoreNow(p) + ScoreOf(m)
                                     ELSE ScoreNow(p)
  BY ScoredBoard
<1>3. Pending(p)' = 0
  BY DEF Pending
<1>4. Pending(p) = IF m.player = p THEN ScoreOf(m) ELSE 0
  BY <1>1 DEF Pending, Points
<1>5. ScoreNow(p) \in Nat /\ ScoreOf(m) \in Nat
  BY <1>1, ScoreTypes, PointsBound
<1> HIDE DEF m
<1>6. /\ ScoreNow(p)' + Pending(p)' <= ScoreNow(p) + Pending(p)
      /\ ScoreNow(p)' \in Nat /\ Pending(p)' \in Nat
  BY <1>2, <1>3, <1>4, <1>5
<1> QED BY <1>6, StillExplained

(* Steps that change no score, and have nothing to add.                    *)
LEMMA SameExplained ==
    ASSUME AnswerInv, AnswerTypeOK, Explained, Grows, faults = 0,
           UNCHANGED leaderboard,
           \/ UNCHANGED <<step, current>>
           \/ step # "update" /\ step' # "update"
    PROVE  Explained'
<1> SUFFICES ASSUME NEW p \in Players
             PROVE  ScoreNow(p)' + Pending(p)' <= 150 * Cardinality(Right(p)')
  BY DEF Explained
<1>1. ScoreNow(p)' = ScoreNow(p)
  BY DEF ScoreNow
<1>2. Pending(p)' = Pending(p)
  <2>1. CASE step = "update"
    <3>1. answer'[current] = answer[current] /\ current' = current
      BY <2>1, CurrentMessage DEF Grows
    <3> QED BY <2>1, <3>1 DEF Pending, Points
  <2>2. CASE step # "update"
    BY <2>2 DEF Pending
  <2> QED BY <2>1, <2>2
<1>3. ScoreNow(p) \in Nat /\ Pending(p) \in Nat
  BY ScoreTypes
<1> QED BY <1>1, <1>2, <1>3, StillExplained

(* Every step keeps the leaderboard explained.                             *)
LEMMA NextExplained ==
    ASSUME AnswerInv, AnswerInv', [Next]_vars, Explained
    PROVE  Explained'
<1> SUFFICES ASSUME faults' = 0 PROVE Explained'
  BY DEF Explained
<1>0. /\ AnswerTypeOK /\ AnswerTypeOK' /\ Grows
      /\ ~ Fault
  BY NextGrows DEF AnswerInv, AnswerTypeOK, Fault
<1>1. CASE AskQuestion \/ SubmitAnswer
  <2>1. faults = 0
    BY <1>0, <1>1 DEF AskQuestion, SubmitAnswer, NoFault
  <2> QED BY <1>0, <1>1, <2>1, SameExplained DEF AskQuestion, SubmitAnswer
<1>2. CASE TakeAnswer
  BY <1>0, <1>2, SameExplained DEF TakeAnswer, NoFault
<1>3. CASE AckAnswer
  BY <1>0, <1>3, SameExplained DEF AckAnswer, Ack, NoFault
<1>4. CASE RecordAnswer
  <2>1. /\ step = "record" /\ faults = 0 /\ UNCHANGED <<answer, leaderboard>>
        /\ \/ Kept = 0 /\ Keep /\ step' = "update" /\ UNCHANGED current
           \/ Ack
    BY <1>0, <1>4 DEF RecordAnswer, Requeue, NoFault
  <2>2. CASE Ack
    BY <1>0, <2>1, <2>2, SameExplained DEF Ack
  <2>3. CASE Kept = 0 /\ Keep /\ step' = "update" /\ UNCHANGED current
    BY <1>0, <2>1, <2>3, RecordExplained
  <2> QED BY <2>1, <2>2, <2>3
<1>5. CASE UpdateLeaderboard
  <2>1. step = "update" /\ Scored /\ step' # "update" /\ faults = 0
    BY <1>0, <1>5 DEF UpdateLeaderboard, Requeue, NoFault
  <2> QED BY <1>0, <2>1, UpdateExplained
<1>6. CASE FinishMatch \/ Persist \/ UNCHANGED vars
  <2>1. UNCHANGED <<step, current, leaderboard>>
    BY <1>6, OtherStep DEF answerVars, vars
  <2>2. faults = 0
    <3>1. faults' = faults \/ Fault
      BY <1>6 DEF FinishMatch, Persist, PersistRead, PersistRounds, PersistTally,
         PersistUpsert, PersistRate, RateTurn, PersistRefer, ReferAt, PersistAck,
         NoFault, vars
    <3> QED BY <1>0, <3>1
  <2> QED BY <1>0, <2>1, <2>2, SameExplained
<1>7. CASE Crash
  BY <1>0, <1>7 DEF Crash
<1> QED BY <1>1, <1>2, <1>3, <1>4, <1>5, <1>6, <1>7
        DEF Next, ScoreStep, AnswerNext, Process

(* No step without a failure but AskQuestion concerns the rounds asked.    *)
LEMMA NextRounds ==
    ASSUME AnswerInv, [Next]_vars, RoundsAgree, AnswersAsked
    PROVE  RoundsAgree' /\ AnswersAsked'
<1>0. AnswerTypeOK
  BY DEF AnswerInv
<1>1. CASE AskQuestion
  <2>1. asked' = asked + 1 /\ asked \in Nat /\ UNCHANGED answer
    BY <1>0, <1>1, RoundsAssumption DEF AskQuestion, AnswerTypeOK
  <2>2. RoundsAgree'
    <3>1. CASE Fault
      BY <1>0, <3>1 DEF Fault, RoundsAgree, AnswerTypeOK
    <3>2. CASE ~ Fault
      BY <1>1, <2>1, <3>2 DEF AskQuestion, RoundsAgree
    <3> QED BY <3>1, <3>2
  <2>3. AnswersAsked'
    <3> SUFFICES ASSUME NEW i \in 1..Len(answer)
                 PROVE  answer[i].early \/ answer[i].round <= asked'
      BY <2>1 DEF AnswersAsked
    <3>1. answer[i].early \/ answer[i].round <= asked
      BY DEF AnswersAsked
    <3>2. answer[i] \in Message
      BY <1>0 DEF AnswerTypeOK
    <3>3. answer[i].round \in Nat
      BY <3>2, RoundsAssumption DEF Message
    <3> QED BY <2>1, <3>1, <3>3
  <2> QED BY <2>2, <2>3
<1>2. CASE SubmitAnswer
  <2>1. PICK m \in Message : /\ m.early = (m.round > asked)
                             /\ answer' = Append(answer, m)
    BY <1>2 DEF SubmitAnswer
  <2>2. /\ Len(answer') = Len(answer) + 1 /\ Len(answer) \in Nat
        /\ \A i \in 1..Len(answer) : answer'[i] = answer[i]
        /\ answer'[Len(answer) + 1] = m
    BY <1>0, <2>1 DEF AnswerTypeOK
  <2>3. UNCHANGED <<asked, roundNow, faults>>
    BY <1>2 DEF SubmitAnswer, NoFault
  <2>4. RoundsAgree'
    BY <2>3 DEF RoundsAgree
  <2>5. m.early \/ m.round <= asked
    <3>1. m.round \in Int /\ asked \in Int
      BY <1>0, RoundsAssumption DEF Message, AnswerTypeOK
    <3>2. CASE m.round > asked
      <4>1. m.early = TRUE
        BY <2>1, <3>2
      <4> QED BY <4>1
    <3>3. CASE ~ (m.round > asked)
      BY <3>1, <3>3
    <3> QED BY <3>2, <3>3
  <2>6. AnswersAsked'
    <3> SUFFICES ASSUME NEW i \in 1..Len(answer')
                 PROVE  answer'[i].early \/ answer'[i].round <= asked
      BY <2>3 DEF AnswersAsked
    <3>1. i \in 1..Len(answer) \/ i = Len(answer) + 1
      BY <2>2
    <3> QED BY <2>2, <2>5, <3>1 DEF AnswersAsked
  <2> QED BY <2>4, <2>6
<1>3. ASSUME UNCHANGED <<asked, roundNow, answer>>,
             faults' = faults \/ faults' # 0
      PROVE  RoundsAgree' /\ AnswersAsked'
  BY <1>3 DEF RoundsAgree, AnswersAsked
<1>4. CASE Process
  BY <1>0, <1>3, <1>4 DEF Process, TakeAnswer, RecordAnswer, UpdateLeaderboard,
     AckAnswer, Requeue, Ack, Fault, NoFault, AnswerTypeOK
<1>5. CASE FinishMatch \/ Persist
  <2>1. UNCHANGED <<asked, roundNow, answer>>
    BY <1>5, OtherStep DEF answerVars
  <2>2. faults' = faults \/ Fault
    BY <1>5 DEF FinishMatch, Persist, PersistRead, PersistRounds, PersistTally,
       PersistUpsert, PersistRate, RateTurn, PersistRefer, ReferAt, PersistAck,
       NoFault
  <2> QED BY <1>0, <1>3, <2>1, <2>2 DEF Fault, AnswerTypeOK
<1>6. CASE Crash
  BY <1>0, <1>3, <1>6 DEF Crash, AnswerCrash, Fault, AnswerTypeOK
<1>7. CASE UNCHANGED vars
  BY <1>3, <1>7 DEF vars, answerVars
<1> QED BY <1>1, <1>2, <1>4, <1>5, <1>6, <1>7 DEF Next, ScoreStep, AnswerNext

(* What persistMatch has read stays explained while answers come in.       *)
LEMMA WaitExplained ==
    ASSUME AnswerTypeOK, CountInv, Grows, JobExplained, HistoryExplainsScore,
           UNCHANGED <<job, history>>, faults' = faults \/ faults' # 0
    PROVE  JobExplained' /\ HistoryExplainsScore'
<1>1. HistoryExplainsScore'
  BY HistoryStays DEF HistoryExplainsScore
<1>2. JobExplained'
  <2> SUFFICES ASSUME faults = 0, job.stage \in {"rounds", "tally", "upsert"},
                      NEW p \in Players, p \in OnBoard(job.entries)
               PROVE  job.entries[p] <= 150 * Worth(p)'
    BY DEF JobExplained, OnBoard
  <2>1. Worth(p) \in Nat /\ Worth(p)' \in Nat /\ Worth(p) <= Worth(p)'
    <3>1. /\ job.rounds \in 0..Rounds /\ job.correct[p] \in Nat
      BY CountTypes, RoundsAssumption DEF JobType, Tally
    <3>2. PICK seen \in SUBSET (1..Rounds) : seen = 1..job.rounds
      BY <3>1, RoundsAssumption
    <3>3. /\ Cardinality(Right(p)) \in Nat /\ Cardinality(Right(p)') \in Nat
          /\ Cardinality(Right(p)) <= Cardinality(Right(p)')
      <4>1. 1..Rounds \in SUBSET (1..Rounds)
        OBVIOUS
      <4> QED BY <4>1, MoreCorrect DEF Right
    <3>4. /\ Cardinality(Correct(p, seen)) \in Nat
          /\ Cardinality(Correct(p, seen)') \in Nat
          /\ Cardinality(Correct(p, seen)) <= Cardinality(Correct(p, seen)')
      BY MoreCorrect
    <3>5. Correct(p, 1..job.rounds)' = Correct(p, seen)'
      <4>1. 1..job'.rounds = seen
        BY <3>2
      <4> QED BY <4>1 DEF Correct, Answered
    <3>6. Correct(p, 1..job.rounds) = Correct(p, seen)
      BY <3>2
    <3> DEFINE a == Cardinality(Right(p))
               aa == Cardinality(Right(p)')
               b == Cardinality(Correct(p, seen))
               bb == Cardinality(Correct(p, seen)')
               u == Untold(p)
               uu == Untold(p)'
    <3>7. /\ Worth(p) = IF job.stage = "rounds" THEN a
                        ELSE (IF job.stage = "tally" /\ p \in job.todo THEN b
                              ELSE job.correct[p]) + u
          /\ Worth(p)' = IF job.stage = "rounds" THEN aa
                         ELSE (IF job.stage = "tally" /\ p \in job.todo THEN bb
                               ELSE job.correct[p]) + uu
      BY <3>5, <3>6 DEF Worth, Found
    <3>8. a \in Nat /\ aa \in Nat /\ a <= aa /\ b \in Nat /\ bb \in Nat /\ b <= bb
      BY <3>3, <3>4
    <3>9. u \in Nat /\ uu \in Nat /\ u <= uu
      BY MoreEarly
    <3> HIDE DEF a, aa, b, bb, u, uu
    <3> QED BY <3>1, <3>7, <3>8, <3>9
  <2>2. job.entries[p] <= 150 * Worth(p)
    BY DEF JobExplained
  <2>3. job.entries[p] \in Int
    <3>1. job.entries \in Entries
      BY CountTypes DEF JobType
    <3> QED BY <3>1 DEF Entries, Absent
  <2> QED BY <2>1, <2>2, <2>3
<1> QED BY <1>1, <1>2

(* The leaderboard is read when it is explained.                           *)
LEMMA ReadExplains ==
    ASSUME AnswerInv, AnswerTypeOK, CountInv, Grows, Explained, faults = 0,
           job' = [IdleJob EXCEPT !.stage = "rounds", !.winner = Head(ends),
                                  !.entries = leaderboard]
    PROVE  JobExplained'
<1>1. job'.entries = leaderboard /\ job'.stage = "rounds"
  BY DEF IdleJob
<1> SUFFICES ASSUME NEW p \in Players, leaderboard[p] # Absent
             PROVE  leaderboard[p] <= 150 * Worth(p)'
  BY <1>1 DEF JobExplained, OnBoard
<1>2. Worth(p)' = Cardinality(Right(p)')
  BY <1>1 DEF Worth
<1>3. /\ Cardinality(Right(p)) \in Nat /\ Cardinality(Right(p)') \in Nat
      /\ Cardinality(Right(p)) <= Cardinality(Right(p)')
  <2>1. 1..Rounds \in SUBSET (1..Rounds)
    OBVIOUS
  <2> QED BY <2>1, MoreCorrect DEF Right
<1>4. ScoreNow(p) + Pending(p) <= 150 * Cardinality(Right(p))
  BY DEF Explained
<1>5. /\ ScoreNow(p) \in Nat /\ Pending(p) \in Nat
      /\ ScoreNow(p) = leaderboard[p]
  BY ScoreTypes DEF ScoreNow
<1> DEFINE c == Cardinality(Right(p))
           cc == Cardinality(Right(p)')
           s == ScoreNow(p)
<1>6. c \in Nat /\ cc \in Nat /\ c <= cc /\ s + Pending(p) <= 150 * c /\ s \in Nat
  BY <1>3, <1>4, <1>5
<1> HIDE DEF c, cc, s
<1>7. s <= 150 * cc
  BY <1>5, <1>6
<1> QED BY <1>2, <1>5, <1>7 DEF s, cc

(* The rounds that are read are those the kept answers are to.             *)
LEMMA RoundsExplain ==
    ASSUME AnswerInv, AnswerTypeOK, CountInv, RoundsAgree, AnswersAsked,
           JobExplained, faults = 0, job.stage = "rounds",
           UNCHANGED <<answer, answers>>, ReadRounds(Players, roundNow)
    PROVE  JobExplained'
<1> DEFINE todo == OnBoard(job.entries) \cup Players
           stage == IF todo = {} THEN "upsert" ELSE "tally"
<1>1. job' = [job EXCEPT !.stage = stage, !.roster = Players,
                         !.rounds = roundNow, !.todo = todo]
  BY DEF ReadRounds
<1>2. todo = Players
  BY DEF OnBoard
<1>3. stage = "upsert" \/ stage = "tally"
  OBVIOUS
<1>4. stage = "upsert" => Players = {}
  BY <1>2
<1> HIDE DEF todo, stage
<1>5. /\ job'.stage = stage /\ job'.todo = todo /\ job'.rounds = roundNow
      /\ job'.entries = job.entries
  BY <1>1, CountTypes DEF JobType
<1> SUFFICES ASSUME NEW p \in Players, job.entries[p] # Absent
             PROVE  job.entries[p] <= 150 * Worth(p)'
  BY <1>5 DEF JobExplained, OnBoard
<1>6. Worth(p)' = Cardinality(Correct(p, 1..job.rounds)') + Untold(p)'
  BY <1>2, <1>3, <1>4, <1>5 DEF Worth, Found
<1>7. /\ Correct(p, 1..job.rounds)' = Correct(p, 1..asked)
      /\ Untold(p)' = Untold(p)
  BY <1>5 DEF Correct, Answered, RoundsAgree, Untold, EarlyCorrect
<1>8. job.entries[p] <= 150 * Worth(p) /\ Worth(p) = Cardinality(Right(p))
  BY DEF JobExplained, OnBoard, Worth
<1> DEFINE all == Cardinality(Right(p))
           listed == Cardinality(Correct(p, 1..asked))
           u == Untold(p)
           s == job.entries[p]
<1>9. /\ all <= listed + u /\ all \in Nat /\ listed \in Nat /\ u \in Nat
      /\ s <= 150 * all
  BY <1>8, CorrectAsked
<1>10. s \in Int
  <2>1. job.entries \in Entries
    BY CountTypes DEF JobType
  <2> QED BY <2>1 DEF Entries
<1>11. Worth(p)' = listed + u
  BY <1>6, <1>7
<1> HIDE DEF all, listed, u, s
<1>12. s <= 150 * (listed + u)
  BY <1>9, <1>10
<1> QED BY <1>11, <1>12 DEF s

(* What is found of a player is what was to be found.                      *)
LEMMA TallyExplains ==
    ASSUME AnswerTypeOK, CountInv, JobExplained, faults = 0,
           PersistTally, ~ Fault
    PROVE  JobExplained'
<1>1. /\ job.stage = "tally" /\ UNCHANGED <<answer, answers>>
  BY DEF PersistTally, answerVars
<1> DEFINE right == Cardinality(Correct(Turn, 1..job.rounds))
           given == Cardinality(Answered(Turn, 1..job.rounds))
           rest == job.todo \ {Turn}
           stage == Then("tally", rest, "upsert")
           correct == [job.correct EXCEPT ![Turn] = right]
           total == [job.total EXCEPT ![Turn] = given]
<1>2. job' = [job EXCEPT !.correct = correct, !.total = total, !.todo = rest,
                         !.stage = stage]
  <2>1. PICK missed \in SUBSET (1..job.rounds) :
           LET p == Turn
               seen == (1..job.rounds) \ missed
               left == job.todo \ {p} IN
           /\ job' = [job EXCEPT !.correct[p] = Cardinality(Correct(p, seen)),
                                 !.total[p] = Cardinality(Answered(p, seen)),
                                 !.todo = left,
                                 !.stage = Then("tally", left, "upsert")]
           /\ IF missed = {} THEN NoFault ELSE Cardinality(missed) = 1 /\ Fault
    BY DEF PersistTally
  <2>2. missed = {} /\ (1..job.rounds) \ missed = 1..job.rounds
    BY <2>1
  <2> QED BY <2>1, <2>2, CountTypes DEF JobType
<1>3. /\ job \in JobType /\ job.correct \in Tally
      /\ Turn \in job.todo /\ Turn \in Players
  <2>1. /\ job \in JobType /\ job.correct \in Tally /\ job.entries \in Entries
        /\ job.todo \in SUBSET Players /\ job.todo # {}
    BY <1>1, CountTypes DEF JobType, CountInv, LoopsEnd
  <2> QED BY <2>1, TurnIsLeft
<1>4. /\ correct[Turn] = right
      /\ \A p \in Players : p # Turn => correct[p] = job.correct[p]
  BY <1>3 DEF Tally
<1>5. stage = "tally" \/ (stage = "upsert" /\ rest = {})
  BY DEF Then
<1> HIDE DEF correct, total, stage
<1>6. /\ job'.stage = stage /\ job'.todo = rest /\ job'.correct = correct
      /\ job'.entries = job.entries /\ job'.rounds = job.rounds
  <2> HIDE DEF rest
  <2> QED BY <1>2, <1>3 DEF JobType
<1> SUFFICES ASSUME NEW p \in Players, job.entries[p] # Absent
             PROVE  job.entries[p] <= 150 * Worth(p)'
  BY <1>6 DEF JobExplained, OnBoard
<1>7. job.entries[p] <= 150 * Worth(p)
  BY <1>1 DEF JobExplained, OnBoard
<1>8. Worth(p)' = Worth(p)
  <2>1. Correct(p, 1..job.rounds)' = Correct(p, 1..job.rounds)
    BY <1>1, <1>6 DEF Correct, Answered
  <2>2. Worth(p)' = IF stage = "tally" /\ p \in rest
                      THEN Cardinality(Correct(p, 1..job.rounds)) + Untold(p)
                      ELSE correct[p] + Untold(p)
    <3>1. stage # "rounds"
      BY <1>5
    <3>2. Worth(p)' = IF job'.stage = "rounds" THEN Cardinality(Right(p)')
                      ELSE (IF job'.stage = "tally" /\ p \in job'.todo
                              THEN Cardinality(Correct(p, 1..job.rounds)')
                              ELSE job'.correct[p]) + Untold(p)'
      BY DEF Worth, Found
    <3>3. Untold(p)' = Untold(p)
      BY <1>1 DEF Untold, EarlyCorrect, Correct, Answered
    <3> QED BY <1>6, <2>1, <3>1, <3>2, <3>3
  <2>3. Worth(p) = IF p \in job.todo
                     THEN Cardinality(Correct(p, 1..job.rounds)) + Untold(p)
                     ELSE job.correct[p] + Untold(p)
    BY <1>1 DEF Worth, Found
  <2>4. CASE p = Turn
    BY <1>3, <1>4, <2>2, <2>3, <2>4
  <2>5. CASE p # Turn
    <3>1. p \in rest <=> p \in job.todo
      BY <2>5
    <3>2. stage = "upsert" => p \notin rest
      BY <1>5
    <3> HIDE DEF rest
    <3> QED BY <1>4, <1>5, <2>2, <2>3, <2>5, <3>1, <3>2
  <2> QED BY <2>4, <2>5
<1> QED BY <1>7, <1>8

(* The history is written with what was read and found.                    *)
LEMMA UpsertExplains ==
    ASSUME AnswerTypeOK, CountInv, Grows, JobExplained, HistoryExplainsScore,
           faults = 0, PersistUpsert, ~ Fault
    PROVE  JobExplained' /\ HistoryExplainsScore'
<1>1. job.stage = "upsert" /\ Inserted /\ AfterUpsert
  BY DEF PersistUpsert
<1>2. job'.stage \in {"ack", "refer", "rate"}
  <2> DEFINE board == OnBoard(job.entries)
             stage == IF board = {} THEN "ack"
                      ELSE IF Cardinality(board) = 1 THEN "refer" ELSE "rate"
  <2>1. job' = [job EXCEPT !.todo = board, !.stage = stage]
    BY <1>1 DEF AfterUpsert
  <2>2. stage \in {"ack", "refer", "rate"}
    OBVIOUS
  <2> HIDE DEF board, stage
  <2> QED BY <2>1, <2>2, CountTypes DEF JobType
<1>3. JobExplained'
  BY <1>2 DEF JobExplained
<1>4. HistoryExplainsScore'
  <2>1. CASE history.written
    BY <1>1, <2>1, HistoryStays DEF Inserted
  <2>2. CASE ~ history.written
    <3>1. history'.score = job.entries /\ history'.correct = job.correct
      BY <1>1, <2>2 DEF Inserted, Document
    <3>2. \A p \in OnBoard(job.entries) :
             job.entries[p] <= 150 * (job.correct[p] + Untold(p))
      BY <1>1 DEF JobExplained, Worth, Found
    <3>3. \A p \in Players : Untold(p)' = Untold(p)
      BY DEF PersistUpsert, answerVars, Untold, EarlyCorrect, Correct, Answered
    <3> QED BY <3>1, <3>2, <3>3 DEF HistoryExplainsScore, OnBoard, Untold
  <2> QED BY <2>1, <2>2
<1> QED BY <1>3, <1>4

(* At first there are no points to explain.                                *)
LEMMA InitExplain == Init => ExplainInv
<1> SUFFICES ASSUME Init PROVE ExplainInv
  OBVIOUS
<1>1. RoundsAgree /\ AnswersAsked
  BY DEF Init, AnswerInit, RoundsAgree, AnswersAsked
<1>2. Explained
  <2> SUFFICES ASSUME NEW p \in Players
               PROVE  ScoreNow(p) + Pending(p) <= 150 * Cardinality(Right(p))
    BY DEF Explained
  <2>1. ScoreNow(p) = 0 /\ Pending(p) = 0
    BY DEF Init, AnswerInit, ScoreNow, Pending
  <2>2. Right(p) \in SUBSET (1..Rounds)
    BY DEF Right, Correct, Answered
  <2>3. Cardinality(Right(p)) \in Nat
    BY <2>2, CountOfRounds
  <2> QED BY <2>1, <2>3
<1>3. JobExplained /\ HistoryExplainsScore
  BY DEF Init, JobExplained, HistoryExplainsScore, IdleJob, NoHistory, NoEntries,
         OnBoard
<1> QED BY <1>1, <1>2, <1>3 DEF ExplainInv

(* A failure excuses what persistMatch reads.                              *)
LEMMA FaultExplain ==
    ASSUME faults' # 0 PROVE JobExplained' /\ HistoryExplainsScore'
BY DEF JobExplained, HistoryExplainsScore

(* Every step keeps what persistMatch holds and writes explained.          *)
LEMMA NextJobExplained ==
    ASSUME AnswerInv, AnswerTypeOK, CountInv, Grows, ExplainInv, [Next]_vars
    PROVE  JobExplained' /\ HistoryExplainsScore'
<1> USE DEF ExplainInv
<1>1. CASE Fault
  <2>1. faults' # 0
    BY <1>1 DEF Fault, AnswerTypeOK
  <2> QED BY <2>1, FaultExplain
<1>2. CASE ~ Fault /\ faults # 0
  <2>1. faults' # 0
    BY <1>2 DEF Next, ScoreStep, AnswerNext, Process, AskQuestion, SubmitAnswer,
       TakeAnswer, RecordAnswer, UpdateLeaderboard, AckAnswer, Requeue, FinishMatch,
       Persist, PersistRead, PersistRounds, PersistTally, PersistUpsert,
       PersistRate, RateTurn, PersistRefer, ReferAt, PersistAck, Crash, NoFault,
       vars
  <2> QED BY <2>1, FaultExplain
<1>3. CASE ~ Fault /\ faults = 0
  <2>1. CASE ScoreStep \/ FinishMatch \/ UNCHANGED vars
    <3>1. UNCHANGED <<job, history>>
      BY <2>1 DEF ScoreStep, FinishMatch, storeVars, vars
    <3> QED BY <1>3, <3>1, WaitExplained
  <2>2. CASE PersistRead
    <3>1. /\ job' = [IdleJob EXCEPT !.stage = "rounds", !.winner = Head(ends),
                                    !.entries = leaderboard]
          /\ UNCHANGED history
      BY <1>3, <2>2 DEF PersistRead, storeVars
    <3>2. JobExplained'
      BY <1>3, <3>1, ReadExplains
    <3>3. HistoryExplainsScore'
      BY <1>3, <3>1, HistoryStays
    <3> QED BY <3>2, <3>3
  <2>3. CASE PersistRounds
    <3>1. /\ ReadRounds(Players, roundNow) /\ job.stage = "rounds"
          /\ UNCHANGED <<answer, answers, history>>
      BY <1>3, <2>3 DEF PersistRounds, answerVars, storeVars
    <3>2. JobExplained'
      BY <1>3, <3>1, RoundsExplain
    <3>3. HistoryExplainsScore'
      BY <1>3, <3>1, HistoryStays
    <3> QED BY <3>2, <3>3
  <2>4. CASE PersistTally
    <3>1. JobExplained'
      BY <1>3, <2>4, TallyExplains
    <3>2. HistoryExplainsScore'
      BY <1>3, <2>4, HistoryStays DEF PersistTally, storeVars
    <3> QED BY <3>1, <3>2
  <2>5. CASE PersistUpsert
    BY <1>3, <2>5, UpsertExplains
  <2>6. ASSUME job'.stage \in {"rate", "refer", "ack", "idle"}, UNCHANGED history
        PROVE  JobExplained' /\ HistoryExplainsScore'
    BY <1>3, <2>6, HistoryStays DEF JobExplained
  <2>7. CASE PersistRate
    BY <2>6, <2>7, TickDoes DEF PersistRate, RateTurn
  <2>8. CASE PersistRefer
    BY <2>6, <2>8, TickDoes DEF PersistRefer, ReferAt
  <2>9. CASE PersistAck
    BY <2>6, <2>9 DEF PersistAck, IdleJob, storeVars
  <2>10. ~ Crash
    BY <1>3 DEF Crash
  <2> QED BY <2>1, <2>2, <2>3, <2>4, <2>5, <2>7, <2>8, <2>9, <2>10
          DEF Next, Persist
<1> QED BY <1>1, <1>2, <1>3

(* Every step keeps the invariant.                                         *)
LEMMA NextExplain ==
    AnswerInv /\ AnswerInv' /\ CountInv /\ ExplainInv /\ [Next]_vars
      => ExplainInv'
<1> SUFFICES ASSUME AnswerInv, AnswerInv', CountInv, ExplainInv, [Next]_vars
             PROVE  ExplainInv'
  OBVIOUS
<1>1. AnswerTypeOK /\ Grows
  BY NextGrows DEF AnswerInv
<1>2. RoundsAgree' /\ AnswersAsked'
  BY NextRounds DEF ExplainInv
<1>3. Explained'
  BY NextExplained DEF ExplainInv
<1>4. JobExplained' /\ HistoryExplainsScore'
  BY <1>1, NextJobExplained
<1> QED BY <1>2, <1>3, <1>4 DEF ExplainInv

(* Whatever answers arrive while persistMatch reads, and however often the *)
(* match is ended: while nothing failed, the points that the history gives *)
(* a player are explained by the correct answers it lists and those given  *)
(* before their question was asked.                                        *)
THEOREM HistoryExplained == Spec => []HistoryExplainsScore
<1>1. Init => CountInv /\ ExplainInv
  BY InitCount, InitExplain
<1>2. ExplainInv => HistoryExplainsScore
  BY DEF ExplainInv
<1>3. AnswerInv => AnswerTypeOK
  BY DEF AnswerInv
<1> QED BY <1>1, <1>2, <1>3, AnswersTyped, NextCount, NextExplain, PTL DEF Spec

-----------------------------------------------------------------------------
(* Sums over finite sets, by minimal counterexamples.                      *)

(* Numbers have a least one.                                               *)
LEMMA SmallestNumber ==
    ASSUME NEW T \in SUBSET Nat, T # {}
    PROVE  \E n \in T : \A k \in T : n <= k
<1>1. PICK n \in T : \A k \in T : <<k, n>> \notin OpToRel(<, Nat)
  BY NatLessThanWellFounded, WFMin
<1>2. \A k \in T : ~ (k < n)
  BY <1>1 DEF OpToRel
<1> QED BY <1>2

(* Sets of finite sets have one that cannot lose an element.               *)
LEMMA SmallestSubset ==
    ASSUME NEW S, IsFiniteSet(S), NEW T \in SUBSET (SUBSET S), T # {}
    PROVE  \E s \in T : \A x \in s : s \ {x} \notin T
<1>1. IsWellFoundedOn(StrictSubsetOrdering(S), SUBSET S)
  BY FS_StrictSubsetOrderingWellFounded, FS_FiniteSubsetsOfFinite
<1>2. PICK s \in T : \A t \in T : <<t, s>> \notin StrictSubsetOrdering(S)
  BY <1>1, WFMin
<1>3. ASSUME NEW x \in s PROVE s \ {x} \notin T
  <2>1. s \ {x} \subseteq s /\ s \ {x} # s /\ s \in SUBSET S
    OBVIOUS
  <2>2. s \ {x} \in T => <<s \ {x}, s>> \in StrictSubsetOrdering(S)
    BY <2>1 DEF StrictSubsetOrdering
  <2> QED BY <1>2, <2>2
<1> QED BY <1>3

Some(s) == CHOOSE x \in s : TRUE

(* g adds up f over each of the sets.                                      *)
AddsUp(g, f, sets) ==
    g = [s \in sets |-> IF s = {} THEN 0 ELSE f[Some(s)] + g[s \ {Some(s)}]]

(* There is such a function for the subsets of a finite set.               *)
LEMMA SumExists ==
    ASSUME NEW S, IsFiniteSet(S), NEW f
    PROVE  \E g : AddsUp(g, f, SUBSET S)
<1> DEFINE UpTo(n) == {s \in SUBSET S : Cardinality(s) <= n}
           bad == {n \in Nat : ~ \E g : AddsUp(g, f, UpTo(n))}
<1>1. \A s \in SUBSET S :
         IsFiniteSet(s) /\ Cardinality(s) \in Nat /\ Cardinality(s) <= Cardinality(S)
  BY FS_Subset, FS_CardinalityType
<1>2. ASSUME NEW n \in Nat, NEW s \in UpTo(n), s # {}
      PROVE  /\ Some(s) \in s /\ Cardinality(s \ {Some(s)}) = Cardinality(s) - 1
             /\ n # 0 /\ s \ {Some(s)} \in UpTo(n - 1)
  <2>1. Some(s) \in s
    BY <1>2 DEF Some
  <2>2. Cardinality(s \ {Some(s)}) = Cardinality(s) - 1
    BY <1>1, <2>1, FS_RemoveElement
  <2>3. Cardinality(s \ {Some(s)}) \in Nat /\ Cardinality(s) <= n
        /\ Cardinality(s) \in Nat
    BY <1>1
  <2> QED BY <2>1, <2>2, <2>3
<1>3. bad = {}
  <2> SUFFICES ASSUME bad # {} PROVE FALSE
    OBVIOUS
  <2>1. PICK n \in bad : \A k \in bad : n <= k
    <3>1. bad \in SUBSET Nat
      OBVIOUS
    <3> HIDE DEF bad
    <3> QED BY <3>1, SmallestNumber
  <2>2. n \in Nat
    OBVIOUS
  <2>3. CASE n = 0
    <3> DEFINE g == [s \in UpTo(0) |-> 0]
    <3>1. \A s \in UpTo(0) : s = {}
      BY <1>2
    <3>2. AddsUp(g, f, UpTo(0))
      BY <3>1 DEF AddsUp
    <3> QED BY <2>3, <3>2
  <2>4. CASE n # 0
    <3>1. n - 1 \in Nat /\ n - 1 \notin bad
      <4>1. n - 1 \in Nat /\ ~ (n <= n - 1)
        BY <2>2, <2>4
      <4> HIDE DEF bad
      <4> QED BY <2>1, <4>1
    <3>2. PICK g : AddsUp(g, f, UpTo(n - 1))
      BY <3>1
    <3> DEFINE h == [s \in UpTo(n) |-> IF s = {} THEN 0
                                       ELSE f[Some(s)] + g[s \ {Some(s)}]]
    <3>3. ASSUME NEW s \in UpTo(n), s # {}
          PROVE  h[s \ {Some(s)}] = g[s \ {Some(s)}]
      <4> DEFINE t == s \ {Some(s)}
      <4>1. t \in UpTo(n - 1)
        BY <1>2, <3>3
      <4>2. t \in UpTo(n)
        <5>1. Cardinality(t) <= n - 1 /\ Cardinality(t) \in Nat
          BY <1>1, <4>1
        <5> QED BY <2>2, <4>1, <5>1
      <4>3. g[t] = IF t = {} THEN 0 ELSE f[Some(t)] + g[t \ {Some(t)}]
        <5> HIDE DEF t, UpTo
        <5> QED BY <3>2, <4>1 DEF AddsUp
      <4>4. h[t] = IF t = {} THEN 0 ELSE f[Some(t)] + g[t \ {Some(t)}]
        <5> HIDE DEF t, UpTo
        <5> QED BY <4>2
      <4> QED BY <4>3, <4>4
    <3>4. h = [s \in UpTo(n) |-> IF s = {} THEN 0
                                 ELSE f[Some(s)] + h[s \ {Some(s)}]]
      <4> DEFINE k == [s \in UpTo(n) |-> IF s = {} THEN 0
                                 ELSE f[Some(s)] + h[s \ {Some(s)}]]
      <4>1. \A s \in UpTo(n) : h[s] = k[s]
        <5> TAKE s \in UpTo(n)
        <5>1. h[s] = IF s = {} THEN 0 ELSE f[Some(s)] + g[s \ {Some(s)}]
          OBVIOUS
        <5>2. k[s] = IF s = {} THEN 0 ELSE f[Some(s)] + h[s \ {Some(s)}]
          <6> HIDE DEF h
          <6> QED OBVIOUS
        <5> HIDE DEF h, k, UpTo
        <5> QED BY <3>3, <5>1, <5>2
      <4>2. h = [s \in UpTo(n) |-> h[s]] /\ k = [s \in UpTo(n) |-> k[s]]
        OBVIOUS
      <4> HIDE DEF h, k, UpTo
      <4>3. h = k
        BY <4>1, <4>2
      <4> QED BY <4>3 DEF k
    <3> HIDE DEF h
    <3>5. AddsUp(h, f, UpTo(n))
      BY <3>4 DEF AddsUp
    <3> QED BY <3>5
  <2> QED BY <2>3, <2>4
<1>4. Cardinality(S) \in Nat /\ UpTo(Cardinality(S)) = SUBSET S
  BY <1>1, FS_CardinalityType
<1> QED BY <1>3, <1>4

(* g[S] is the sum of f, whose values are numbers.                         *)
IsSum(g, f, S) ==
    IsFiniteSet(S) /\ f \in [S -> Nat] /\ AddsUp(g, f, SUBSET S)

(* A sum of numbers is a number, 0 if they all are; and changing one of    *)
(* them changes the sum by as much.                                        *)
LEMMA SumOfNumbers ==
    ASSUME NEW S, NEW f, NEW a, IsSum(a, f, S)
    PROVE  /\ a[S] \in Nat
           /\ (\A y \in S : f[y] = 0) => a[S] = 0
<1> USE DEF IsSum
<1> DEFINE good(s) == /\ a[s] \in Nat
                      /\ (\A y \in S : f[y] = 0) => a[s] = 0
           bad == {s \in SUBSET S : ~ good(s)}
<1>1. bad = {}
  <2> SUFFICES ASSUME bad # {} PROVE FALSE
    OBVIOUS
  <2>1. PICK s \in bad : \A x \in s : s \ {x} \notin bad
    <3>1. bad \in SUBSET (SUBSET S)
      OBVIOUS
    <3> HIDE DEF bad
    <3> QED BY <3>1, SmallestSubset
  <2>2. a[s] = IF s = {} THEN 0 ELSE f[Some(s)] + a[s \ {Some(s)}]
    BY DEF AddsUp
  <2>3. s # {}
    BY <2>2
  <2>4. Some(s) \in s /\ f[Some(s)] \in Nat
    BY <2>3 DEF Some
  <2>5. good(s \ {Some(s)})
    BY <2>1, <2>4
  <2>6. good(s)
    BY <2>2, <2>3, <2>4, <2>5
  <2> QED BY <2>6
<1> QED BY <1>1

(* f and g differ at x at most, and the sums a and b of theirs by as much. *)
DifferAt(f, g, S, x) == x \in S /\ \A y \in S : y # x => f[y] = g[y]
SumsDiffer(a, b, f, g, S, x) == a[S] + g[x] = b[S] + f[x]

(* By induction on the set: a least counterexample loses an element.       *)
LEMMA SumChanges ==
    ASSUME NEW S, NEW f, NEW g, NEW a, NEW b,
           IsSum(a, f, S), IsSum(b, g, S), NEW x, DifferAt(f, g, S, x)
    PROVE  SumsDiffer(a, b, f, g, S, x)
<1> USE DEF IsSum, DifferAt, SumsDiffer
<1> DEFINE good(s) == /\ a[s] \in Nat /\ b[s] \in Nat
                      /\ x \in s => a[s] + g[x] = b[s] + f[x]
                      /\ x \notin s => a[s] = b[s]
           bad == {s \in SUBSET S : ~ good(s)}
<1>1. bad = {}
  <2> SUFFICES ASSUME bad # {} PROVE FALSE
    OBVIOUS
  <2>1. PICK s \in bad : \A y \in s : s \ {y} \notin bad
    <3>1. bad \in SUBSET (SUBSET S)
      OBVIOUS
    <3> HIDE DEF bad
    <3> QED BY <3>1, SmallestSubset
  <2>2. /\ a[s] = IF s = {} THEN 0 ELSE f[Some(s)] + a[s \ {Some(s)}]
        /\ b[s] = IF s = {} THEN 0 ELSE g[Some(s)] + b[s \ {Some(s)}]
    BY DEF AddsUp
  <2>3. s # {}
    BY <2>2
  <2> DEFINE y == Some(s)
             t == s \ {y}
  <2>4. y \in s /\ y \in S /\ f[y] \in Nat /\ g[y] \in Nat
    BY <2>3 DEF Some
  <2>5. good(t)
    BY <2>1, <2>4
  <2>6. a[s] = f[y] + a[t] /\ b[s] = g[y] + b[t]
    BY <2>2, <2>3
  <2>7. f[x] \in Nat /\ g[x] \in Nat
    OBVIOUS
  <2>8. CASE y = x
    <3>1. x \in s /\ x \notin t
      BY <2>4, <2>8
    <3> HIDE DEF y, t
    <3>2. a[t] \in Nat /\ b[t] \in Nat /\ a[t] = b[t]
      BY <2>5, <3>1
    <3>3. a[s] \in Nat /\ b[s] \in Nat /\ a[s] + g[x] = b[s] + f[x]
      BY <2>4, <2>6, <2>7, <2>8, <3>2
    <3> QED BY <3>1, <3>3
  <2>9. CASE y # x
    <3>1. x \in s <=> x \in t
      BY <2>9
    <3>2. f[y] = g[y]
      BY <2>4, <2>9
    <3> HIDE DEF y, t
    <3>3. /\ a[t] \in Nat /\ b[t] \in Nat
          /\ x \in t => a[t] + g[x] = b[t] + f[x]
          /\ x \notin t => a[t] = b[t]
      BY <2>5
    <3>4. /\ a[s] \in Nat /\ b[s] \in Nat
          /\ x \in t => a[s] + g[x] = b[s] + f[x]
          /\ x \notin t => a[s] = b[s]
      BY <2>4, <2>6, <2>7, <3>2, <3>3
    <3> QED BY <3>1, <3>4
  <2> QED BY <2>8, <2>9
<1>2. S \in SUBSET S /\ x \in S
  OBVIOUS
<1> QED BY <1>1, <1>2

-----------------------------------------------------------------------------
(* A player's score and the points of the answers kept for it.             *)

PointsOf(p) == [r \in 1..Rounds |-> Points(answers[r][p])]

(* KeptPoints is the sum it is meant to be.                                *)
LEMMA KeptAddsUp ==
    \A p \in Players :
       \E a : AddsUp(a, PointsOf(p), SUBSET (1..Rounds)) /\ KeptPoints(p) = a[1..Rounds]
<1> SUFFICES ASSUME NEW p \in Players
             PROVE  \E a : /\ AddsUp(a, PointsOf(p), SUBSET (1..Rounds))
                           /\ KeptPoints(p) = a[1..Rounds]
  OBVIOUS
<1> DEFINE Solves(g) ==
             g = [s \in SUBSET (1..Rounds) |->
                   IF s = {} THEN 0
                   ELSE Points(answers[CHOOSE x \in s : TRUE][p])
                          + g[s \ {CHOOSE x \in s : TRUE}]]
           a == CHOOSE g : Solves(g)
<1>1. KeptPoints(p) = a[1..Rounds]
  BY DEF KeptPoints, MapThenSumSet, MapThenFoldSet
<1>2. ASSUME NEW g PROVE Solves(g) <=> AddsUp(g, PointsOf(p), SUBSET (1..Rounds))
  <2>1. \A s \in SUBSET (1..Rounds) :
           s # {} => PointsOf(p)[Some(s)] = Points(answers[Some(s)][p])
    <3> SUFFICES ASSUME NEW s \in SUBSET (1..Rounds), s # {}
                 PROVE  PointsOf(p)[Some(s)] = Points(answers[Some(s)][p])
      OBVIOUS
    <3>1. Some(s) \in s
      BY DEF Some
    <3>2. Some(s) \in 1..Rounds
      BY <3>1
    <3> QED BY <3>2 DEF PointsOf
  <2>2. [s \in SUBSET (1..Rounds) |->
           IF s = {} THEN 0
           ELSE Points(answers[Some(s)][p]) + g[s \ {Some(s)}]]
        = [s \in SUBSET (1..Rounds) |->
             IF s = {} THEN 0 ELSE PointsOf(p)[Some(s)] + g[s \ {Some(s)}]]
    BY <2>1
  <2>3. Solves(g) <=>
          g = [s \in SUBSET (1..Rounds) |->
                IF s = {} THEN 0
                ELSE Points(answers[Some(s)][p]) + g[s \ {Some(s)}]]
    BY DEF Some
  <2> QED BY <2>2, <2>3 DEF AddsUp
<1>3. \E g : Solves(g)
  <2>1. IsFiniteSet(1..Rounds)
    BY RoundsAssumption, FS_Interval
  <2>2. \E g : AddsUp(g, PointsOf(p), SUBSET (1..Rounds))
    BY <2>1, SumExists
  <2> HIDE DEF Solves
  <2> QED BY <1>2, <2>2
<1>4. Solves(a)
  <2> HIDE DEF Solves
  <2> QED BY <1>3
<1> HIDE DEF Solves, a
<1> QED BY <1>1, <1>2, <1>4

(* The same after a step.                                                  *)
LEMMA KeptAddsUpNext ==
    (\A p \in Players :
        \E a : AddsUp(a, PointsOf(p), SUBSET (1..Rounds))
                 /\ KeptPoints(p) = a[1..Rounds])'
BY KeptAddsUp, PTL

(* The points of a round are a number.                                     *)
LEMMA PointsType ==
    AnswerTypeOK => \A p \in Players : PointsOf(p) \in [1..Rounds -> Nat]
<1> SUFFICES ASSUME AnswerTypeOK, NEW p \in Players, NEW r \in 1..Rounds
             PROVE  Points(answers[r][p]) \in Nat
  BY DEF PointsOf
<1>1. answers[r][p] \in 0..Len(answer) /\ Len(answer) \in Nat
  BY DEF AnswerTypeOK
<1>2. CASE answers[r][p] = 0
  BY <1>2 DEF Points
<1>3. CASE answers[r][p] # 0
  <2>1. answer[answers[r][p]] \in Message
    BY <1>1, <1>3 DEF AnswerTypeOK
  <2> QED BY <1>3, <2>1, PointsBound DEF Points
<1> QED BY <1>2, <1>3

(* The same after a step.                                                  *)
LEMMA PointsTypeNext ==
    AnswerTypeOK' => (\A p \in Players : PointsOf(p) \in [1..Rounds -> Nat])'
BY PointsType, PTL

(* So are the points kept for a player.                                    *)
LEMMA KeptIsNat ==
    AnswerTypeOK => \A p \in Players : KeptPoints(p) \in Nat
<1> SUFFICES ASSUME AnswerTypeOK, NEW p \in Players PROVE KeptPoints(p) \in Nat
  OBVIOUS
<1>1. PICK a : AddsUp(a, PointsOf(p), SUBSET (1..Rounds)) /\ KeptPoints(p) = a[1..Rounds]
  BY KeptAddsUp
<1>2. IsFiniteSet(1..Rounds)
  BY RoundsAssumption, FS_Interval
<1> QED BY <1>1, <1>2, PointsType, SumOfNumbers DEF IsSum

(* The same after a step.                                                  *)
LEMMA KeptIsNatNext ==
    AnswerTypeOK' => (\A p \in Players : KeptPoints(p) \in Nat)'
BY KeptIsNat, PTL

(* The kept points change with the points of one round.                    *)
LEMMA KeptChanges ==
    ASSUME AnswerTypeOK, AnswerTypeOK', NEW p \in Players, NEW r0 \in 1..Rounds,
           \A r \in 1..Rounds :
              r # r0 => PointsOf(p)[r] = PointsOf(p)'[r]
    PROVE  KeptPoints(p) + PointsOf(p)'[r0] = KeptPoints(p)' + PointsOf(p)[r0]
<1>1. PICK a : AddsUp(a, PointsOf(p), SUBSET (1..Rounds)) /\ KeptPoints(p) = a[1..Rounds]
  BY KeptAddsUp
<1>2. PICK b : /\ AddsUp(b, PointsOf(p)', SUBSET (1..Rounds))
               /\ KeptPoints(p)' = b[1..Rounds]
  <2>1. \E b : (AddsUp(b, PointsOf(p), SUBSET (1..Rounds))
                 /\ KeptPoints(p) = b[1..Rounds])'
    BY KeptAddsUpNext
  <2> QED BY <2>1 DEF AddsUp
<1>3. IsFiniteSet(1..Rounds)
  BY RoundsAssumption, FS_Interval
<1>4. PointsOf(p) \in [1..Rounds -> Nat] /\ PointsOf(p)' \in [1..Rounds -> Nat]
  BY PointsType, PointsTypeNext
<1>5. a[1..Rounds] + PointsOf(p)'[r0] = b[1..Rounds] + PointsOf(p)[r0]
  <2> DEFINE f == PointsOf(p)
             g == PointsOf(p)'
             S == 1..Rounds
  <2>1. IsSum(a, f, S) /\ IsSum(b, g, S)
    BY <1>1, <1>2, <1>3, <1>4 DEF IsSum
  <2>2. DifferAt(f, g, S, r0)
    BY DEF DifferAt
  <2> HIDE DEF f, g, S
  <2>3. SumsDiffer(a, b, f, g, S, r0)
    BY <2>1, <2>2, SumChanges
  <2> QED BY <2>3 DEF f, g, S, SumsDiffer
<1> QED BY <1>1, <1>2, <1>5

(* While no answer is kept, the kept points stay.                          *)
LEMMA KeptStays ==
    ASSUME AnswerTypeOK, AnswerTypeOK', Grows, UNCHANGED answers,
           NEW p \in Players
    PROVE  KeptPoints(p)' = KeptPoints(p)
<1>1. ASSUME NEW r \in 1..Rounds
      PROVE  PointsOf(p)'[r] = PointsOf(p)[r]
  <2>1. answers[r][p] \in 0..Len(answer)
    BY DEF AnswerTypeOK
  <2>2. CASE answers[r][p] = 0
    BY <2>2 DEF PointsOf, Points
  <2>3. CASE answers[r][p] # 0
    <3>1. answers[r][p] \in 1..Len(answer)
      BY <2>1, <2>3 DEF AnswerTypeOK
    <3>2. answer'[answers[r][p]] = answer[answers[r][p]]
      BY <3>1 DEF Grows
    <3> QED BY <2>3, <3>2 DEF PointsOf, Points
  <2> QED BY <2>2, <2>3
<1>2. 1 \in 1..Rounds
  BY RoundsAssumption
<1>3. KeptPoints(p) + PointsOf(p)'[1] = KeptPoints(p)' + PointsOf(p)[1]
  BY <1>1, <1>2, KeptChanges
<1>4. /\ PointsOf(p)[1] \in Nat /\ PointsOf(p)'[1] \in Nat
      /\ KeptPoints(p) \in Nat /\ KeptPoints(p)' \in Nat
  BY <1>2, PointsType, PointsTypeNext, KeptIsNat, KeptIsNatNext
<1> DEFINE k == KeptPoints(p)
           kk == KeptPoints(p)'
           n == PointsOf(p)[1]
           nn == PointsOf(p)'[1]
<1>5. n = nn
  BY <1>1, <1>2
<1> HIDE DEF k, kk, n, nn
<1>6. k + nn = kk + n /\ k \in Nat /\ kk \in Nat /\ n \in Nat /\ nn \in Nat
  BY <1>3, <1>4 DEF k, kk, n, nn
<1>7. kk = k
  BY <1>5, <1>6
<1> QED BY <1>7 DEF k, kk

(* Keeping an answer adds its points to those kept for its player.         *)
LEMMA KeptGrows ==
    ASSUME AnswerInv, AnswerTypeOK, AnswerTypeOK', step = "record", Kept = 0,
           Keep, UNCHANGED answer, NEW p \in Players
    PROVE  KeptPoints(p)' = KeptPoints(p) + IF answer[current].player = p
                                              THEN Points(current) ELSE 0
<1> DEFINE m == answer[current]
<1>1. m \in Message /\ m.round \in 1..Rounds /\ m.player \in Players /\ current # 0
  BY CurrentMessage DEF AnswerTypeOK, Message
<1>2. CASE m.player # p
  <2>1. ASSUME NEW r \in 1..Rounds PROVE PointsOf(p)'[r] = PointsOf(p)[r]
    <3>1. answers'[r][p] = answers[r][p]
      BY <1>2, KeepAnswers
    <3> QED BY <3>1 DEF PointsOf, Points
  <2>2. 1 \in 1..Rounds
    BY RoundsAssumption
  <2>3. KeptPoints(p) + PointsOf(p)'[1] = KeptPoints(p)' + PointsOf(p)[1]
    BY <2>1, <2>2, KeptChanges
  <2>4. /\ PointsOf(p)[1] \in Nat /\ PointsOf(p)'[1] = PointsOf(p)[1]
        /\ KeptPoints(p) \in Nat /\ KeptPoints(p)' \in Nat
    BY <2>1, <2>2, PointsType, KeptIsNat, KeptIsNatNext
  <2> DEFINE k == KeptPoints(p)
             kk == KeptPoints(p)'
             n == PointsOf(p)[1]
  <2>5. k + n = kk + n /\ k \in Nat /\ kk \in Nat /\ n \in Nat
    BY <2>3, <2>4
  <2> HIDE DEF k, kk, n
  <2>6. kk = k + 0
    BY <2>5
  <2> QED BY <1>2, <2>6 DEF k, kk
<1>3. CASE m.player = p
  <2>1. ASSUME NEW r \in 1..Rounds, r # m.round
        PROVE  PointsOf(p)[r] = PointsOf(p)'[r]
    <3>1. answers'[r][p] = answers[r][p]
      BY <2>1, KeepAnswers
    <3> QED BY <3>1 DEF PointsOf, Points
  <2>2. /\ PointsOf(p)[m.round] = 0
        /\ PointsOf(p)'[m.round] = Points(current)
    <3>1. answers[m.round][p] = 0
      BY <1>3 DEF Kept
    <3>2. answers'[m.round][p] = current
      BY <1>1, <1>3, KeepAnswers
    <3> QED BY <1>1, <3>1, <3>2 DEF PointsOf, Points
  <2>3. KeptPoints(p) + PointsOf(p)'[m.round]
          = KeptPoints(p)' + PointsOf(p)[m.round]
    BY <1>1, <2>1, KeptChanges
  <2>4. KeptPoints(p) \in Nat /\ KeptPoints(p)' \in Nat
    BY KeptIsNat, KeptIsNatNext
  <2> DEFINE k == KeptPoints(p)
             kk == KeptPoints(p)'
             n == Points(current)
  <2>5. k + n = kk + 0 /\ k \in Nat /\ kk \in Nat
    BY <2>2, <2>3, <2>4
  <2> HIDE DEF k, kk, n
  <2>6. kk = k + n
    BY <2>5
  <2> QED BY <1>3, <2>6 DEF k, kk, n
<1> QED BY <1>2, <1>3

(* What a score and the points about to be added gain, n at most and n if  *)
(* nothing failed, the kept points gain too.                               *)
LEMMA BackedStep ==
    ASSUME AnswerTypeOK, AnswerTypeOK', ScoreIsBacked,
           NEW p \in Players, NEW n \in Nat,
           KeptPoints(p)' = KeptPoints(p) + n,
           ScoreNow(p)' + Pending(p)' <= ScoreNow(p) + Pending(p) + n,
           faults' = 0 => /\ faults = 0
                          /\ ScoreNow(p)' + Pending(p)'
                               = ScoreNow(p) + Pending(p) + n,
           ScoreNow(p)' \in Nat, Pending(p)' \in Nat
    PROVE  /\ ScoreNow(p)' + Pending(p)' <= KeptPoints(p)'
           /\ faults' = 0 =>
                ScoreNow(p)' + Pending(p)' = KeptPoints(p)'
<1> DEFINE x == ScoreNow(p) + Pending(p)
           xx == ScoreNow(p)' + Pending(p)'
           k == KeptPoints(p)
           kk == KeptPoints(p)'
<1>1. x \in Nat /\ xx \in Nat /\ k \in Nat
  BY ScoreTypes, KeptIsNat
<1>2. x <= k /\ (faults = 0 => x = k)
  BY DEF ScoreIsBacked
<1>3. /\ kk = k + n /\ xx <= x + n
      /\ faults' = 0 => faults = 0 /\ xx = x + n
  OBVIOUS
<1> HIDE DEF x, xx, k, kk
<1>4. xx <= kk /\ (faults' = 0 => xx = kk)
  BY <1>1, <1>2, <1>3
<1> QED BY <1>4 DEF xx, kk

(* Steps that change no score; points about to be added may be put back,   *)
(* if the step fails.                                                      *)
LEMMA SameBacked ==
    ASSUME AnswerTypeOK, AnswerTypeOK', ScoreIsBacked, Grows,
           UNCHANGED <<leaderboard, answers>>,
           faults' = 0 => faults = 0,
           \/ UNCHANGED <<step, current>>
           \/ step # "update" /\ step' # "update"
           \/ step' # "update" /\ faults' # 0
    PROVE  ScoreIsBacked'
<1> SUFFICES ASSUME NEW p \in Players
             PROVE  /\ ScoreNow(p)' + Pending(p)' <= KeptPoints(p)'
                    /\ faults' = 0 =>
                         ScoreNow(p)' + Pending(p)' = KeptPoints(p)'
  BY DEF ScoreIsBacked
<1>1. ScoreNow(p)' = ScoreNow(p)
  BY DEF ScoreNow
<1>2. ScoreNow(p) \in Nat /\ Pending(p) \in Nat
  BY ScoreTypes
<1>3. Pending(p)' = Pending(p) \/ (Pending(p)' = 0 /\ faults' # 0)
  <2>1. CASE UNCHANGED <<step, current>>
    <3>1. CASE step = "update"
      <4>1. answer'[current] = answer[current] /\ current' = current
        BY <2>1, <3>1, CurrentMessage DEF Grows
      <4> QED BY <2>1, <3>1, <4>1 DEF Pending, Points
    <3>2. CASE step # "update"
      BY <2>1, <3>2 DEF Pending
    <3> QED BY <3>1, <3>2
  <2>2. CASE step' # "update"
    BY <2>2 DEF Pending
  <2> QED BY <2>1, <2>2 DEF Pending
<1>4. KeptPoints(p)' = KeptPoints(p) + 0
  <2>1. KeptPoints(p)' = KeptPoints(p) /\ KeptPoints(p) \in Nat
    BY KeptStays, KeptIsNat
  <2> QED BY <2>1
<1>5. /\ ScoreNow(p)' + Pending(p)' <= ScoreNow(p) + Pending(p) + 0
      /\ faults' = 0 => /\ faults = 0
                        /\ ScoreNow(p)' + Pending(p)'
                             = ScoreNow(p) + Pending(p) + 0
      /\ ScoreNow(p)' \in Nat /\ Pending(p)' \in Nat
  BY <1>1, <1>2, <1>3
<1> QED BY <1>4, <1>5, BackedStep

(* Keeping an answer: its points are about to be added, unless it failed.  *)
LEMMA RecordBacked ==
    ASSUME AnswerInv, AnswerTypeOK', ScoreIsBacked,
           step = "record", Kept = 0, Keep, UNCHANGED <<answer, leaderboard>>,
           faults' = 0 => faults = 0,
           \/ step' = "update" /\ UNCHANGED current
           \/ step' = "idle" /\ faults' # 0
    PROVE  ScoreIsBacked'
<1> SUFFICES ASSUME NEW p \in Players
             PROVE  /\ ScoreNow(p)' + Pending(p)' <= KeptPoints(p)'
                    /\ faults' = 0 =>
                         ScoreNow(p)' + Pending(p)' = KeptPoints(p)'
  BY DEF ScoreIsBacked
<1>0. AnswerTypeOK
  BY DEF AnswerInv
<1> DEFINE n == IF answer[current].player = p THEN Points(current) ELSE 0
<1>1. n \in Nat /\ current # 0
  BY <1>0, CurrentMessage, PointsBound DEF Points, AnswerTypeOK
<1>2. KeptPoints(p)' = KeptPoints(p) + n
  BY <1>0, KeptGrows
<1>3. ScoreNow(p)' = ScoreNow(p) /\ ScoreNow(p) \in Nat
  BY <1>0, ScoreTypes DEF ScoreNow
<1>4. Pending(p) = 0
  BY DEF Pending
<1>5. Pending(p)' = n \/ (Pending(p)' = 0 /\ faults' # 0)
  BY DEF Pending, Points
<1> HIDE DEF n
<1>6. /\ ScoreNow(p)' + Pending(p)' <= ScoreNow(p) + Pending(p) + n
      /\ faults' = 0 => /\ faults = 0
                        /\ ScoreNow(p)' + Pending(p)'
                             = ScoreNow(p) + Pending(p) + n
      /\ ScoreNow(p)' \in Nat /\ Pending(p)' \in Nat
  BY <1>1, <1>3, <1>4, <1>5
<1> QED BY <1>0, <1>1, <1>2, <1>6, BackedStep

(* Adding the points: what was about to be added is added.                 *)
LEMMA UpdateBacked ==
    ASSUME AnswerTypeOK, AnswerTypeOK', ScoreIsBacked, Grows,
           step = "update", Scored, step' # "update",
           UNCHANGED answers, faults' = 0 => faults = 0
    PROVE  ScoreIsBacked'
<1> SUFFICES ASSUME NEW p \in Players
             PROVE  /\ ScoreNow(p)' + Pending(p)' <= KeptPoints(p)'
                    /\ faults' = 0 =>
                         ScoreNow(p)' + Pending(p)' = KeptPoints(p)'
  BY DEF ScoreIsBacked
<1> DEFINE m == answer[current]
<1>1. m \in Message /\ current # 0
  BY CurrentMessage DEF AnswerTypeOK
<1>2. ScoreNow(p)' = IF p = m.player THEN ScoreNow(p) + ScoreOf(m)
                                     ELSE ScoreNow(p)
  BY ScoredBoard
<1>3. Pending(p)' = 0
  BY DEF Pending
<1>4. Pending(p) = IF m.player = p THEN ScoreOf(m) ELSE 0
  BY <1>1 DEF Pending, Points
<1>5. ScoreNow(p) \in Nat /\ ScoreOf(m) \in Nat
  BY <1>1, ScoreTypes, PointsBound
<1>6. KeptPoints(p)' = KeptPoints(p) + 0
  <2>1. KeptPoints(p)' = KeptPoints(p) /\ KeptPoints(p) \in Nat
    BY KeptStays, KeptIsNat
  <2> QED BY <2>1
<1> HIDE DEF m
<1>7. /\ ScoreNow(p)' + Pending(p)' <= ScoreNow(p) + Pending(p) + 0
      /\ faults' = 0 => /\ faults = 0
                        /\ ScoreNow(p)' + Pending(p)'
                             = ScoreNow(p) + Pending(p) + 0
      /\ ScoreNow(p)' \in Nat /\ Pending(p)' \in Nat
  BY <1>2, <1>3, <1>4, <1>5
<1> QED BY <1>6, <1>7, BackedStep

(* Every step keeps the scores backed.                                     *)
LEMMA NextBacked == AnswerInv /\ AnswerInv' /\ [Next]_vars /\ ScoreIsBacked
                      => ScoreIsBacked'
<1> SUFFICES ASSUME AnswerInv, AnswerInv', [Next]_vars, ScoreIsBacked
             PROVE  ScoreIsBacked'
  OBVIOUS
<1>0. AnswerTypeOK /\ AnswerTypeOK' /\ Grows /\ faults \in Nat
  BY NextGrows, BoundsAssumption DEF AnswerInv, AnswerTypeOK
<1>1. Fault => faults' # 0 /\ (faults' = 0 => faults = 0)
  BY <1>0 DEF Fault
<1>2. CASE AskQuestion \/ SubmitAnswer
  <2>1. UNCHANGED <<leaderboard, answers, step, current>>
    BY <1>2 DEF AskQuestion, SubmitAnswer
  <2>2. faults' = 0 => faults = 0
    BY <1>1, <1>2 DEF AskQuestion, SubmitAnswer, NoFault
  <2> QED BY <1>0, <2>1, <2>2, SameBacked
<1>3. CASE TakeAnswer
  <2>1. /\ UNCHANGED <<leaderboard, answers>>
        /\ \/ UNCHANGED <<step, current>>
           \/ step # "update" /\ step' # "update"
        /\ faults' = 0 => faults = 0
    BY <1>1, <1>3 DEF TakeAnswer, NoFault
  <2> QED BY <1>0, <2>1, SameBacked
<1>4. CASE AckAnswer
  <2>1. /\ UNCHANGED <<leaderboard, answers>>
        /\ step # "update" /\ step' # "update"
        /\ faults' = 0 => faults = 0
    BY <1>4 DEF AckAnswer, Ack, NoFault
  <2> QED BY <1>0, <2>1, SameBacked
<1>5. CASE RecordAnswer
  <2>1. step = "record" /\ UNCHANGED <<answer, leaderboard>>
    BY <1>5 DEF RecordAnswer
  <2>2. CASE Kept = 0 /\ Keep /\ step' = "update" /\ UNCHANGED current /\ NoFault
    BY <1>0, <2>1, <2>2, RecordBacked DEF NoFault
  <2>3. CASE Kept = 0 /\ Keep /\ Requeue
    BY <1>0, <1>1, <2>1, <2>3, RecordBacked DEF Requeue
  <2>4. CASE ((Ack /\ NoFault) \/ Requeue) /\ UNCHANGED answers
    <3>1. step' # "update" /\ (faults' = 0 => faults = 0)
      BY <1>1, <2>4 DEF Ack, Requeue, NoFault
    <3> QED BY <1>0, <2>1, <2>4, <3>1, SameBacked
  <2> QED BY <1>5, <2>2, <2>3, <2>4 DEF RecordAnswer
<1>6. CASE UpdateLeaderboard
  <2>1. step = "update" /\ step' # "update" /\ UNCHANGED answers
    BY <1>6 DEF UpdateLeaderboard, Requeue
  <2>2. CASE Scored
    <3>1. faults' = 0 => faults = 0
      BY <1>1, <1>6 DEF UpdateLeaderboard, Requeue, NoFault
    <3> QED BY <1>0, <2>1, <2>2, <3>1, UpdateBacked
  <2>3. CASE Requeue /\ UNCHANGED leaderboard
    <3>1. faults' # 0
      BY <1>1, <2>3 DEF Requeue
    <3> QED BY <1>0, <2>1, <2>3, <3>1, SameBacked
  <2> QED BY <1>6, <2>2, <2>3 DEF UpdateLeaderboard
<1>7. CASE FinishMatch \/ Persist \/ UNCHANGED vars
  <2>1. UNCHANGED <<step, current, leaderboard, answers>>
    BY <1>7, OtherStep DEF answerVars, vars
  <2>2. faults' = 0 => faults = 0
    <3>1. faults' = faults \/ Fault
      BY <1>7 DEF FinishMatch, Persist, PersistRead, PersistRounds, PersistTally,
         PersistUpsert, PersistRate, RateTurn, PersistRefer, ReferAt, PersistAck,
         NoFault, vars
    <3> QED BY <1>1, <3>1
  <2> QED BY <1>0, <2>1, <2>2, SameBacked
<1>8. CASE Crash
  <2>1. /\ UNCHANGED <<leaderboard, answers>> /\ step' = "idle" /\ faults' # 0
    BY <1>1, <1>8 DEF Crash, AnswerCrash
  <2> QED BY <1>0, <2>1, SameBacked
<1> QED BY <1>2, <1>3, <1>4, <1>5, <1>6, <1>7, <1>8
        DEF Next, ScoreStep, AnswerNext, Process

(* At first nothing is scored or kept.                                     *)
LEMMA InitBacked == Init => ScoreIsBacked
<1> SUFFICES ASSUME Init, NEW p \in Players
             PROVE  ScoreNow(p) + Pending(p) = 0 /\ KeptPoints(p) = 0
  BY DEF ScoreIsBacked
<1>1. AnswerTypeOK
  BY InitAnswer DEF AnswerInv
<1>2. PICK a : AddsUp(a, PointsOf(p), SUBSET (1..Rounds)) /\ KeptPoints(p) = a[1..Rounds]
  BY KeptAddsUp
<1>3. IsSum(a, PointsOf(p), 1..Rounds)
  <2>1. IsFiniteSet(1..Rounds)
    BY RoundsAssumption, FS_Interval
  <2>2. PointsOf(p) \in [1..Rounds -> Nat]
    BY <1>1, PointsType
  <2> QED BY <1>2, <2>1, <2>2 DEF IsSum
<1>4. \A r \in 1..Rounds : PointsOf(p)[r] = 0
  BY DEF Init, AnswerInit, PointsOf, Points
<1>5. KeptPoints(p) = 0
  BY <1>2, <1>3, <1>4, SumOfNumbers
<1>6. ScoreNow(p) = 0 /\ Pending(p) = 0
  BY DEF Init, AnswerInit, ScoreNow, Pending
<1> QED BY <1>5, <1>6

(* However answers are repeated, retried and redelivered, a player's score *)
(* never exceeds the points of the answers kept for it, and is exactly     *)
(* that when nothing failed.                                               *)
THEOREM ScoresBacked == Spec => []ScoreIsBacked
<1>1. AnswerInv /\ AnswerInv' /\ [Next]_vars /\ ScoreIsBacked => ScoreIsBacked'
  BY NextBacked
<1> QED BY <1>1, InitBacked, AnswersTyped, PTL DEF Spec
=============================================================================

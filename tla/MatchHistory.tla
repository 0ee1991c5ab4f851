---------------------------- MODULE MatchHistory ----------------------------
(***************************************************************************)
(* The end of a room's match: the quiz service announces a winner and      *)
(* publishes match.finished, possibly more than once (see QuizRoom), while *)
(* answers are still being scored; the persistence worker of the scoring   *)
(* service (persistMatch, services/scoring/main.go) reads the room back    *)
(* from Redis, writes match_history, and updates the players' statistics   *)
(* and referrals one document at a time, before it acks.                   *)
(*                                                                         *)
(* Composed with Scoring: both consumers run in one process on the same    *)
(* keys.  Ratings are left out: they move with the counted wins and losses.*)
(***************************************************************************)
EXTENDS Scoring

CONSTANTS
    Referred,  \* players with a referrer
    Newcomers, \* players with no earlier match in match_history
    MaxEnds    \* bound: match.finished published in a behaviour

ASSUME ReferredAssumption == Referred \subseteq Players
ASSUME NewcomersAssumption == Newcomers \subseteq Players
ASSUME MaxEndsAssumption == MaxEnds \in Nat

VARIABLES
    ends,        \* match-finished-queue: the winner each message names
    published,   \* match.finished published so far
    announced,   \* history: the winner first published, 0 for none
    settled,     \* history: the list's answers were in when the match ended
    job,         \* persistMatch: where it stands and what it has read
    history,     \* the room's document in match_history
    stats,       \* users: counters of each player, from 0
    conversions  \* referral.first_quiz_completed published for each player

quizVars == <<ends, published, announced, settled>>
storeVars == <<history, stats, conversions>>
vars == <<answerVars, faults, quizVars, job, storeVars>>

Winners == Players \cup {0}
Entries == [Players -> Nat \cup {Absent}]
NoEntries == [p \in Players |-> Absent]
Tally == [Players -> 0..Rounds]
NoTally == [p \in Players |-> 0]

NoHistory == [written |-> FALSE, winner |-> 0, players |-> {},
              score |-> NoEntries, correct |-> NoTally]
IdleJob == [stage |-> "idle", winner |-> 0, entries |-> NoEntries, rounds |-> 0,
            roster |-> {}, correct |-> NoTally, total |-> NoTally, todo |-> {}]

HistoryTypeOK ==
    /\ ends \in Seq(Winners)
    /\ published \in 0..MaxEnds
    /\ announced \in Winners
    /\ settled \in BOOLEAN
    /\ job \in [stage : {"idle", "rounds", "tally", "upsert", "rate", "refer",
                         "ack"},
                winner : Winners, entries : Entries, rounds : 0..Rounds,
                roster : SUBSET Players, correct : Tally, total : Tally,
                todo : SUBSET Players]
    /\ history \in [written : BOOLEAN, winner : Winners,
                    players : SUBSET Players, score : Entries, correct : Tally]
    /\ stats \in [Players -> [matches : Nat, wins : Nat, streak : Nat,
                              longest : Nat, correct : Nat, total : Nat]]
    /\ conversions \in [Players -> Nat]

TypeOK == AnswerTypeOK /\ HistoryTypeOK

NewStats == [matches |-> 0, wins |-> 0, streak |-> 0, longest |-> 0,
             correct |-> 0, total |-> 0]

Init ==
    /\ AnswerInit
    /\ ends = <<>> /\ published = 0 /\ announced = 0 /\ settled = FALSE
    /\ job = IdleJob
    /\ history = NoHistory
    /\ stats = [p \in Players |-> NewStats]
    /\ conversions = [p \in Players |-> 0]

-----------------------------------------------------------------------------
(* The leaderboard, ZREVRANGE: the highest score comes first, and the      *)
(* greater identifier of equal ones.                                       *)
OnBoard(entries) == {p \in Players : entries[p] # Absent}

Ahead(entries, p, q) == \/ entries[p] > entries[q]
                        \/ entries[p] = entries[q] /\ p >= q

Leader(entries, among) ==
    CHOOSE p \in among : \A q \in among : Ahead(entries, p, q)

First(entries) == IF OnBoard(entries) = {} THEN 0
                  ELSE Leader(entries, OnBoard(entries))

(* Answers in the queue that will be scored.                               *)
Awaited == {a \in queue : InList(a)}

(* finishMatch, in any of the places it is called from: the winner of the  *)
(* moment is announced and published.  A failed read of the leaderboard    *)
(* names nobody; a failed publication is only logged.  The message may be  *)
(* delivered late, so reading and publishing are one step.                 *)
FinishMatch ==
    /\ published < MaxEnds
    /\ \E winner \in {First(leaderboard), 0}, sent \in BOOLEAN :
         /\ ends' = IF sent THEN Append(ends, winner) ELSE ends
         /\ published' = IF sent THEN published + 1 ELSE published
         /\ announced' = IF published = 0 THEN winner ELSE announced
         /\ IF sent /\ winner = First(leaderboard) THEN NoFault ELSE Fault
    /\ settled' = (Awaited = {} /\ step = "idle" /\ (published > 0 => settled))
    /\ UNCHANGED <<answerVars, job, storeVars>>

-----------------------------------------------------------------------------
(* persistMatch.                                                           *)

(* A message is delivered and the leaderboard read.                        *)
PersistRead ==
    /\ job.stage = "idle" /\ ends # <<>>
    /\ ends' = Tail(ends)
    /\ \E read \in {leaderboard, NoEntries} :
         /\ job' = [IdleJob EXCEPT !.stage = "rounds", !.winner = Head(ends),
                                   !.entries = read]
         /\ IF read = leaderboard THEN NoFault ELSE Fault
    /\ UNCHANGED <<answerVars, published, announced, settled, storeVars>>

(* The room's players and the round it is in are read; errors count as no  *)
(* players and round 0.                                                    *)
ReadRounds(roster, rounds) ==
    LET todo == OnBoard(job.entries) \cup roster IN
    job' = [job EXCEPT !.stage = IF todo = {} THEN "upsert" ELSE "tally",
                       !.roster = roster, !.rounds = rounds, !.todo = todo]

PersistRounds_OffByOne ==
    /\ job.stage = "rounds" /\ roundNow > 0
    /\ ReadRounds(Players, roundNow - 1) /\ NoFault
    /\ UNCHANGED <<answerVars, quizVars, storeVars>>

PersistRounds ==
    /\ job.stage = "rounds"
    /\ \/ ReadRounds(Players, roundNow) /\ NoFault
       \/ ReadRounds({}, roundNow) /\ Fault
       \/ ReadRounds(Players, 0) /\ Fault
    /\ UNCHANGED <<answerVars, quizVars, storeVars>>

(* The loops over players go by rank, those who never answered last.       *)
Turn == Leader(job.entries, job.todo)

(* tallyStats of one player: HGET round by round, and what fails is left   *)
(* out.  One step: what a late answer adds to a round already read is what *)
(* it adds after the step.                                                 *)
Answered(p, rounds) == {r \in rounds : answers[r][p] # 0}
Correct(p, rounds) ==
    {r \in Answered(p, rounds) : answer[answers[r][p]].correct}

Then(stage, rest, next) == IF rest = {} THEN next ELSE stage

PersistTally ==
    /\ job.stage = "tally"
    /\ \E missed \in SUBSET (1..job.rounds) :
         LET p == Turn
             seen == (1..job.rounds) \ missed
             rest == job.todo \ {p} IN
         /\ job' = [job EXCEPT !.correct[p] = Cardinality(Correct(p, seen)),
                               !.total[p] = Cardinality(Answered(p, seen)),
                               !.todo = rest,
                               !.stage = Then("tally", rest, "upsert")]
         /\ IF missed = {} THEN NoFault ELSE Cardinality(missed) = 1 /\ Fault
    /\ UNCHANGED <<answerVars, quizVars, storeVars>>

(* The upsert of match_history with $setOnInsert.  The winner is the       *)
(* leaderboard's first, or the one the message names.                      *)
Document ==
    [written |-> TRUE,
     winner |-> IF OnBoard(job.entries) = {} THEN job.winner
                ELSE First(job.entries),
     players |-> OnBoard(job.entries) \cup job.roster,
     score |-> job.entries, correct |-> job.correct]

Inserted == history' = IF history.written THEN history ELSE Document

(* Ratings follow for those on the leaderboard, if they had an opponent.   *)
AfterUpsert ==
    LET board == OnBoard(job.entries) IN
    job' = [job EXCEPT !.todo = board,
                       !.stage = IF board = {} THEN "ack"
                                 ELSE IF Cardinality(board) = 1 THEN "refer"
                                 ELSE "rate"]

(* The message goes back to the head of the queue.                         *)
PutBack == ends' = <<job.winner>> \o ends /\ job' = IdleJob

(* A failed upsert that is not retried.                                    *)
PersistUpsert_Discards ==
    /\ job.stage = "upsert"
    /\ \/ Inserted /\ AfterUpsert /\ NoFault
       \/ UNCHANGED history /\ job' = IdleJob /\ Fault
    /\ UNCHANGED <<answerVars, quizVars, stats, conversions>>

PersistUpsert ==
    /\ job.stage = "upsert"
    /\ \/ Inserted /\ AfterUpsert /\ NoFault /\ UNCHANGED ends
       \/ (Inserted \/ UNCHANGED history) /\ PutBack /\ Fault
    /\ UNCHANGED <<answerVars, published, announced, settled, stats, conversions>>

(* One player's document: counters, and the win streak computed from what  *)
(* was read just before (a failed read reads as zeros).                    *)
Rated(s, p, first, seen) ==
    LET won == p = first
        streak == IF won THEN seen.streak + 1 ELSE 0 IN
    [matches |-> s.matches + 1,
     wins |-> IF won THEN s.wins + 1 ELSE s.wins,
     streak |-> streak,
     longest |-> IF streak > seen.longest THEN streak ELSE s.longest,
     correct |-> s.correct + job.correct[p],
     total |-> s.total + job.total[p]]

Tick(next) ==
    LET rest == job.todo \ {Turn} IN
    job' = [job EXCEPT !.todo = IF rest = {} /\ next = "refer"
                                  THEN OnBoard(job.entries) ELSE rest,
                       !.stage = Then(job.stage, rest, next)]

RateTurn(first) ==
    /\ job.stage = "rate"
    /\ Tick("refer")
    /\ \/ stats' = [stats EXCEPT ![Turn] = Rated(@, Turn, first, @)] /\ NoFault
       \/ stats' = [stats EXCEPT ![Turn] = Rated(@, Turn, first, NewStats)]
          /\ Fault
       \/ UNCHANGED stats /\ Fault
    /\ UNCHANGED <<answerVars, quizVars, history, conversions>>

(* The last of the board taken for the winner.                             *)
PersistRate_LastWins ==
    RateTurn(CHOOSE q \in OnBoard(job.entries) :
                \A o \in OnBoard(job.entries) : Ahead(job.entries, o, q))

PersistRate == RateTurn(First(job.entries))

(* A referred player whose only match this is converts its referral.       *)
MatchCount(p) == (IF p \in Newcomers THEN 0 ELSE 1)
                   + (IF p \in history.players THEN 1 ELSE 0)

ReferAt(count) ==
    /\ job.stage = "refer"
    /\ Tick("ack")
    /\ \/ /\ IF Turn \in Referred /\ MatchCount(Turn) = count
               THEN conversions' = [conversions EXCEPT ![Turn] = @ + 1]
               ELSE UNCHANGED conversions
          /\ NoFault
       \/ UNCHANGED conversions /\ Fault
    /\ UNCHANGED <<answerVars, quizVars, history, stats>>

PersistRefer_BeforeInsert == ReferAt(0)
PersistRefer == ReferAt(1)

PersistAck ==
    /\ job.stage = "ack"
    /\ job' = IdleJob
    /\ UNCHANGED <<answerVars, faults, quizVars, storeVars>>

Persist ==
    \/ PersistRead \/ PersistRounds \/ PersistTally \/ PersistUpsert
    \/ PersistRate \/ PersistRefer \/ PersistAck

-----------------------------------------------------------------------------
(* A scoring or quiz step; a new answer to be scored unsettles an ended    *)
(* match.                                                                  *)
ScoreStep ==
    /\ AnswerNext
    /\ settled' = (settled /\ Awaited' = {})
    /\ UNCHANGED <<ends, published, announced, job, storeVars>>

(* The scoring service restarts: both consumers lose what they held.       *)
Crash ==
    /\ Fault
    /\ AnswerCrash
    /\ IF job.stage = "idle" THEN UNCHANGED <<ends, job>> ELSE PutBack
    /\ UNCHANGED <<published, announced, settled, storeVars>>

Next == ScoreStep \/ FinishMatch \/ Persist \/ Crash

Spec == Init /\ [][Next]_vars

(* The consumers keep consuming; nothing is assumed of players and quiz.   *)
Fairness ==
    /\ WF_vars(Process /\ ScoreStep)
    /\ WF_vars(Persist)

FairSpec == Spec /\ Fairness

-----------------------------------------------------------------------------
(* Correct answers of a player to questions it had not been asked yet.     *)
EarlyCorrect(p) ==
    {r \in Correct(p, 1..Rounds) : answer[answers[r][p]].early}

(* The points the history gives a player are explained by the correct      *)
(* answers it lists (none is worth more than 150), and by those that were  *)
(* given before their question was asked, which the service scores but     *)
(* persistMatch need not reach: whatever answers arrive while it reads,    *)
(* the leaderboard is read before the answers behind it.                   *)
HistoryExplainsScore ==
    faults = 0 =>
      \A p \in OnBoard(history.score) :
         history.score[p] <=
            150 * (history.correct[p] + Cardinality(EarlyCorrect(p)))

(* When every answer was scored before the match ended, the winner the     *)
(* players were told is the winner of the history and of the statistics,   *)
(* even if the match is ended twice.                                       *)
WinnersAgree ==
    settled /\ faults = 0 =>
      /\ history.written => history.winner = announced
      /\ \A p \in Players : stats[p].wins > 0 => p = announced

(* A match is counted once for a player, and once more at most for each    *)
(* further match.finished or failure.                                      *)
RatedOncePerEnd ==
    \A p \in Players : stats[p].matches <= published + faults

(* What persistMatch leaves in history and statistics.                     *)
PersistSafety == TypeOK /\ WinnersAgree /\ RatedOncePerEnd

(* A referred player's first match converts the referral, if the player    *)
(* answered anything: the match is in the history before it is counted.    *)
FirstMatchConverts ==
    faults = 0 /\ history.written /\ job.stage = "idle" =>
      \A p \in Referred \cap Newcomers :
         p \in OnBoard(history.score) => conversions[p] > 0

(* A match that was finished is persisted, and its messages dealt with,    *)
(* failures and restarts notwithstanding.                                  *)
FinishedIsPersisted ==
    published > 0 ~> (history.written /\ ends = <<>> /\ job.stage = "idle")
=============================================================================

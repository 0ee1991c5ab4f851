---------------------------- MODULE AnswerLedger ----------------------------
(***************************************************************************)
(* What the scoring of answers promises the players of a room, whatever    *)
(* the queue, the retries and the restarts do: an answer to a round enters *)
(* the player's score at most once, with the points of one answer, and     *)
(* nothing else changes a score.  Points may be lost.                      *)
(***************************************************************************)
EXTENDS Integers

CONSTANTS
    Players,
    Rounds

VARIABLES
    score,  \* points of each player
    open    \* rounds whose answer may still enter the player's score

ledgerVars == <<score, open>>

(* 100 points for a correct answer, times 1.5, 1.0 or 0.8.                 *)
Points == {0, 80, 100, 150}

LedgerInit ==
    /\ score = [p \in Players |-> 0]
    /\ open = [p \in Players |-> 1..Rounds]

Settle(p, r) ==
    /\ r \in open[p]
    /\ open' = [open EXCEPT ![p] = @ \ {r}]

Count(p, r) ==
    /\ Settle(p, r)
    /\ \E n \in Points : score' = [score EXCEPT ![p] = @ + n]

Lose(p, r) == Settle(p, r) /\ UNCHANGED score

LedgerNext == \E p \in Players, r \in 1..Rounds : Count(p, r) \/ Lose(p, r)

LedgerSpec == LedgerInit /\ [][LedgerNext]_ledgerVars
=============================================================================

---------------------------- MODULE Tournaments ----------------------------
(***************************************************************************)
(* Tournaments in services/quiz/main.go: JoinTournament, and               *)
(* tournamentReminderTicker, which every five minutes looks for            *)
(* tournaments that start in 25 to 35 minutes, publishes a reminder for    *)
(* each participant it has read, and marks the tournament.                 *)
(*                                                                         *)
(* Time is counted in units of two and a half minutes, so that starts may  *)
(* lie between two ticks.  Which plan JoinTournament takes a user to have  *)
(* (its cache) is a matter of Payment; here plans are given.               *)
(*                                                                         *)
(* JoinTournament looks for the text of its request in _id.  The seed, the *)
(* only program that makes tournaments, leaves _id to MongoDB, which makes *)
(* an ObjectID, and no text equals one: nobody can join the seed's         *)
(* tournaments.  Only what somebody put into the collection with a text as *)
(* its _id, as the type Tournament has it, can be joined (TextIds).        *)
(***************************************************************************)
EXTENDS Integers, FiniteSets, Sequences, SequencesExt

CONSTANTS
    Tourneys,       \* tournaments
    TextIds,        \* those that have a text as their _id, not an ObjectID
    PremiumTourneys, \* those that require the premium plan
    Entrants,       \* users
    PremiumUsers,   \* those with the premium plan
    Joins,          \* JoinTournament requests at the same time
    Starts,         \* when tournaments may start
    TickEvery,      \* time between two ticks
    WindowStart,    \* how long before its start a tournament is found at
    WindowEnd,      \* the latest, and at the earliest
    TickerFaults    \* whether quiz restarts and its calls fail

ASSUME TourneysAssumption ==
    /\ IsFiniteSet(Tourneys)
    /\ TextIds \subseteq Tourneys
    /\ PremiumTourneys \subseteq Tourneys /\ PremiumUsers \subseteq Entrants
    /\ Starts \subseteq Nat /\ IsFiniteSet(Starts) /\ Starts # {}
    /\ TickEvery \in Nat \ {0}
    /\ WindowStart \in Nat /\ WindowEnd \in Nat
    /\ \A s \in Starts : WindowStart < WindowEnd /\ WindowEnd < s
    /\ TickerFaults \in BOOLEAN

(* Ten minutes, of which two ticks take as much.                           *)
ASSUME WindowAssumption == 2 * TickEvery <= WindowEnd - WindowStart

VARIABLES
    clock,        \* the time
    start,        \* startTime of the tournaments
    participants, \* their participants
    reminderSent, \* whether they are marked
    joining,      \* JoinTournament requests that have passed their checks
    phase,        \* when the ticker was made
    tick,         \* a tick waits in the ticker's channel
    pass,         \* the ticker's pass over the tournaments
    reminded,     \* history: users a reminder was published for
    unpublished,  \* history: users whose reminder failed to be published
    early,        \* history: participants when the window opened
    misses        \* history: ticks that were late or failed, and restarts

tourneyVars == <<clock, start, participants, reminderSent, joining, phase,
                 tick, pass, reminded, unpublished, early, misses>>

(* A tournament that a pass has still to deal with: it is read with its    *)
(* participants, of whom those in todo are still to be reminded.           *)
Docs == [tourney : Tourneys, todo : SUBSET Entrants]

TourneyTypeOK ==
    /\ clock \in Nat
    /\ start \in [Tourneys -> Starts]
    /\ participants \in [Tourneys -> SUBSET Entrants]
    /\ reminderSent \in [Tourneys -> BOOLEAN]
    /\ joining \in [Joins -> (Entrants \X TextIds) \cup {<<>>}]
    /\ phase \in Nat
    /\ tick \in BOOLEAN
    /\ pass \in Seq(Docs)
    /\ reminded \in [Tourneys -> SUBSET Entrants]
    /\ unpublished \in [Tourneys -> SUBSET Entrants]
    /\ early \in [Tourneys -> SUBSET Entrants]
    /\ misses \in Nat

TourneyInit ==
    /\ clock = 0
    /\ start \in [Tourneys -> Starts]
    /\ participants = [t \in Tourneys |-> {}]
    /\ reminderSent = [t \in Tourneys |-> FALSE]
    /\ joining = [j \in Joins |-> <<>>]
    /\ phase = 0
    /\ tick = FALSE
    /\ pass = <<>>
    /\ reminded = [t \in Tourneys |-> {}]
    /\ unpublished = [t \in Tourneys |-> {}]
    /\ early = [t \in Tourneys |-> {}]
    /\ misses = 0

-----------------------------------------------------------------------------
(* JoinTournament: the plan and the tournament are read, if the text of    *)
(* the request is found ...                                                *)
JoinTournament(j, u, t) ==
    /\ joining[j] = <<>>
    /\ t \in TextIds
    /\ t \in PremiumTourneys => u \in PremiumUsers
    /\ joining' = [joining EXCEPT ![j] = <<u, t>>]
    /\ UNCHANGED <<clock, start, participants, reminderSent, phase, tick, pass,
                   reminded, unpublished, early, misses>>

(* ... and the user is added, or an error ignored.                         *)
AddParticipant(j) ==
    /\ joining[j] # <<>>
    /\ LET t == joining[j][2] IN
         \/ participants' = [participants EXCEPT ![t] = @ \cup {joining[j][1]}]
         \/ TickerFaults /\ UNCHANGED participants
    /\ joining' = [joining EXCEPT ![j] = <<>>]
    /\ UNCHANGED <<clock, start, reminderSent, phase, tick, pass, reminded,
                   unpublished, early, misses>>

-----------------------------------------------------------------------------
(* tournamentReminderTicker.                                               *)

Due(t) ==
    /\ clock + WindowStart <= start[t] /\ start[t] <= clock + WindowEnd
    /\ ~ reminderSent[t]

(* The query of a tick, which reads the documents, whatever their _id.  An *)
(* error ends the pass.                                                    *)
FindTournaments ==
    /\ tick /\ pass = <<>>
    /\ tick' = FALSE
    /\ \/ /\ LET found == SetToSeq({t \in Tourneys : Due(t)})
             IN pass' = [n \in DOMAIN found |->
                           [tourney |-> found[n], todo |-> participants[found[n]]]]
          /\ UNCHANGED misses
       \/ /\ TickerFaults
          /\ misses' = misses + 1
          /\ UNCHANGED pass
    /\ UNCHANGED <<clock, start, participants, reminderSent, joining, phase,
                   reminded, unpublished, early>>

(* One reminder, whose error is ignored.                                   *)
PublishReminder ==
    /\ pass # <<>>
    /\ \E u \in Head(pass).todo :
         LET t == Head(pass).tourney IN
         /\ pass' = [pass EXCEPT ![1].todo = @ \ {u}]
         /\ \/ /\ reminded' = [reminded EXCEPT ![t] = @ \cup {u}]
               /\ UNCHANGED unpublished
            \/ /\ TickerFaults
               /\ unpublished' = [unpublished EXCEPT ![t] = @ \cup {u}]
               /\ UNCHANGED reminded
    /\ UNCHANGED <<clock, start, participants, reminderSent, joining, phase,
                   tick, early, misses>>

Mark ==
    LET t == Head(pass).tourney IN
    /\ \/ /\ reminderSent' = [reminderSent EXCEPT ![t] = TRUE]
          /\ UNCHANGED misses
       \/ /\ TickerFaults
          /\ misses' = misses + 1
          /\ UNCHANGED reminderSent
    /\ UNCHANGED <<clock, start, participants, joining, phase, tick, reminded,
                   unpublished, early>>

MarkTournament_First ==
    /\ pass # <<>>
    /\ ~ reminderSent[Head(pass).tourney] \/ Head(pass).todo = {}
    /\ Mark
    /\ pass' = IF Head(pass).todo = {} THEN Tail(pass) ELSE pass

(* reminderSent is set when every reminder was published.                  *)
MarkTournament ==
    /\ pass # <<>> /\ Head(pass).todo = {}
    /\ Mark
    /\ pass' = Tail(pass)

(* quiz restarts and makes a new ticker.                                   *)
RestartQuiz ==
    /\ TickerFaults
    /\ <<pass, tick>> # <<<<>>, FALSE>> \/ phase # clock
    /\ pass' = <<>>
    /\ tick' = FALSE
    /\ phase' = clock
    /\ misses' = misses + 1
    /\ UNCHANGED <<clock, start, participants, reminderSent, joining, reminded,
                   unpublished, early>>

(* Time passes until the last start.  A tick is dropped when one waits; a  *)
(* tick that waits, or a pass that is not over, is late.                   *)
Wait ==
    /\ \E t \in Tourneys : clock < start[t]
    /\ clock' = clock + 1
    /\ tick' = (tick \/ (clock' - phase) % TickEvery = 0)
    /\ misses' = IF tick \/ pass # <<>> THEN misses + 1 ELSE misses
    /\ early' = [t \in Tourneys |->
                   IF clock' + WindowEnd = start[t] THEN participants[t]
                                                    ELSE early[t]]
    /\ UNCHANGED <<start, participants, reminderSent, joining, phase, pass,
                   reminded, unpublished>>

TourneyNext ==
    \/ \E j \in Joins :
         \/ \E u \in Entrants, t \in Tourneys : JoinTournament(j, u, t)
         \/ AddParticipant(j)
    \/ FindTournaments \/ PublishReminder \/ MarkTournament
    \/ RestartQuiz
    \/ Wait

TourneySpec == TourneyInit /\ [][TourneyNext]_tourneyVars

-----------------------------------------------------------------------------
(* A marked tournament has reminded everyone who had joined when its       *)
(* window opened, but for reminders that failed to be published: a pass    *)
(* that ends in the middle is made again by the next tick.                 *)
RemindedWhenMarked ==
    \A t \in Tourneys :
        reminderSent[t] => early[t] \subseteq reminded[t] \cup unpublished[t]

(* The window is as long as two ticks, so that one late or failed tick, or *)
(* one restart, is made up for: after the window the tournament is marked  *)
(* or about to be.                                                         *)
RemindedDespiteOneMiss ==
    \A t \in Tourneys :
        clock + WindowStart > start[t] /\ misses <= 1
          => \/ reminderSent[t]
             \/ \E n \in DOMAIN pass : pass[n].tourney = t

(* Whoever a reminder was published for, or failed to be, had joined.  The *)
(* tournaments of the seed never have a participant: they are marked in    *)
(* their window, as the others, and nobody is reminded.                    *)
OnlyParticipantsReminded ==
    \A t \in Tourneys :
        /\ reminded[t] \cup unpublished[t] \subseteq participants[t]
        /\ t \notin TextIds => participants[t] = {}

(* Participants are reminded, of tournaments that anybody can join.        *)
ReminderSafety ==
    TourneyTypeOK /\ RemindedWhenMarked /\ RemindedDespiteOneMiss
    /\ OnlyParticipantsReminded
=============================================================================

------------------------------ MODULE MCEvents ------------------------------
(***************************************************************************)
(* Model-checking instance of what is sent between the services and to the *)
(* players, and of what a room is asked.  The parts share no state that    *)
(* their modules read, so a behaviour is one part's, chosen initially; the *)
(* other parts stay as they are.                                           *)
(*                                                                         *)
(*   "streams"     - the streams of a room                                 *)
(*   "tournaments" - joining and reminders                                 *)
(*   "pushes"      - push notifications                                    *)
(*   "invites"     - match invites                                         *)
(*   "questions"   - the questions of a match                              *)
(*   "match", "payment", "notices" - the services start, and their events  *)
(*                   are those of a match, those of a payment, or notices  *)
(***************************************************************************)
EXTENDS GameStreams, Tournaments, Notifications, MatchInvites,
        QuestionSelection, EventBus, TLC

CONSTANTS
    MaxDropped, \* bound: streams that miss an event or a snapshot
    MaxMisses   \* bound: ticks that are late or fail, and restarts

VARIABLE scenario

vars == <<gameVars, tourneyVars, pushVars, inviteVars, selectVars, busVars,
          scenario>>

BusScenarios == {"match", "payment", "notices"}
Scenarios ==
    {"streams", "tournaments", "pushes", "invites", "questions"} \cup BusScenarios

(* Banks: plenty of every topic, one question each of two topics, plenty   *)
(* of one topic, and of two.                                               *)
BankOf(topics, n) ==
    [d \in ToSet(Difficulty) |-> [t \in Topics |-> IF t \in topics THEN n ELSE 0]]

MatchBanks ==
    {BankOf(Topics, 3), BankOf({"science", "sports"}, 1), BankOf({"science"}, 3),
     BankOf({"science", "history"}, 3)}

(* Users are equal, and so are messages: the first message is for one user *)
(* or for both, and the second for one of them at most.                    *)
TargetsInTurn ==
    LET u == CHOOSE r \in Recipients : TRUE
    IN /\ target[1] \in {{u}, Recipients}
       /\ target[2] \in {{}, {u}}
            \cup (IF target[1] = {u} THEN {Recipients \ {u}} ELSE {})

(* The seed's tournament starts with one of the two that can be joined.    *)
SomeStart == CHOOSE s \in Starts : TRUE

EventsInit ==
    /\ scenario \in Scenarios
    /\ GameInit /\ TourneyInit /\ PushInit /\ InviteInit
    /\ SelectInit /\ BusInit
    /\ scenario # "questions" => premium = {} /\ bank = BankOf(Topics, 3)
    /\ IF scenario = "tournaments" THEN IsInjective([t \in TextIds |-> start[t]])
       ELSE start = [t \in Tourneys |-> SomeStart]
    /\ \A t \in Tourneys \ TextIds : start[t] = SomeStart
    /\ IF scenario = "pushes" THEN TargetsInTurn
       ELSE \A n \in Notices : target[n] = {}

(* A stream that can relay does so before anything else happens: what it   *)
(* has relayed is seen by nothing but its player.                          *)
Lagging == {s \in Calls : stream[s].at = "relay" /\ stream[s].channel # <<>>}

RelayFirst ==
    IF Lagging = {} THEN GameNext ELSE \E s \in Lagging : Relay(s)

(* No more than two broadcasts at a time, one once a round was not set or  *)
(* not read, and one stream that misses something, for one reason.         *)
FewCasts ==
    /\ Cardinality({c \in Casters : casting'[c] # {}})
         <= IF unset' \/ misread' # [s \in Calls |-> 0] THEN 1 ELSE 2
    /\ Cardinality(dropped' \cup {s \in Calls : misread'[s] # 0}) <= MaxDropped
    /\ unset' => dropped' = {}

(* FCM refuses the device of one user.                                     *)
OneRefused == Cardinality(refused') <= 1

(* Messages are published in the order of their numbers.                   *)
PublishedInTurn ==
    \A m, n \in Notices :
        m < n /\ place'[n] # "unpublished" => place'[m] # "unpublished"

(* The services that the events of a scenario concern start, no others.    *)
Concerned ==
    {"quiz", "scoring", "notification"} \cup
        (CASE scenario = "match" -> {"matchmaking"}
           [] scenario = "payment" -> {"payment"}
           [] OTHER -> {"auth", "matchmaking", "payment"})

(* Failures make no difference to notices that nobody waits for.           *)
OneStory ==
    /\ \A s \in Services \ Concerned : service'[s] = "down"
    /\ published' \cap EarlyNotices # {} => scenario = "notices"
    /\ scenario = "payment" => published' \cap SentBy["quiz"] = {}
    /\ scenario = "notices" => published' \subseteq EarlyNotices /\ failures' = 0

EventsNext ==
    /\ UNCHANGED scenario
    /\ \/ /\ scenario = "streams" /\ RelayFirst /\ FewCasts
          /\ UNCHANGED <<tourneyVars, pushVars, inviteVars, selectVars, busVars>>
       \/ /\ scenario = "tournaments" /\ TourneyNext /\ misses' <= MaxMisses
          /\ UNCHANGED <<gameVars, pushVars, inviteVars, selectVars, busVars>>
       \/ /\ scenario = "pushes" /\ PushNext /\ PublishedInTurn /\ OneRefused
          /\ UNCHANGED <<gameVars, tourneyVars, inviteVars, selectVars, busVars>>
       \/ /\ scenario = "invites" /\ InviteNext
          /\ UNCHANGED <<gameVars, tourneyVars, pushVars, selectVars, busVars>>
       \/ /\ scenario = "questions" /\ SelectNext
          /\ UNCHANGED <<gameVars, tourneyVars, pushVars, inviteVars, busVars>>
       \/ /\ scenario \in BusScenarios /\ BusNext /\ OneStory
          /\ UNCHANGED <<gameVars, tourneyVars, pushVars, inviteVars, selectVars>>

EventsSpec == EventsInit /\ [][EventsNext]_vars

(* Streams and players are interchangeable.                                *)
EventsSymmetry == Permutations(GamePlayers) \cup Permutations(Calls)
=============================================================================

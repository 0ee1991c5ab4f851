--------------------------- MODULE MCMatchmaking ---------------------------
(***************************************************************************)
(* Model-checking instance of Matchmaking.  A behaviour has one of the     *)
(* following surroundings, chosen initially: each has hazards of its own,  *)
(* and the product of all is out of reach.                                 *)
(*                                                                         *)
(*   "live"    - the module as it is (the run for liveness, on a quiet day *)
(*               without faults)                                           *)
(*   "faults"  - lost commands and answers, crashes                        *)
(*   "nights"  - midnights, nothing fails                                  *)
(*   a user    - the plan of this user changes and caches lag, midnights;  *)
(*               one handler at a time and one room                        *)
(*   "streams" - a player subscribes again and again while its room is     *)
(*               announced; one handler at a time and one room             *)
(***************************************************************************)
EXTENDS Matchmaking, TLC

VARIABLE scenario

NoFaults == INSTANCE Matchmaking WITH Faults <- FALSE, PlanChangers <- {}
Quiet == INSTANCE Matchmaking
           WITH Faults <- FALSE, Midnights <- FALSE, PlanChangers <- {}

LiveInit == scenario = "live" /\ Init

LiveNext == Next /\ UNCHANGED scenario

LiveSpec == LiveInit /\ [][LiveNext]_<<vars, scenario>> /\ Fairness

SafetyInit ==
    \/ scenario \in {"faults", "nights", "streams"} /\ Quiet!Init
    \/ /\ scenario \in PlanChangers
       /\ Init
       /\ \A u \in Users \ {scenario} : mongoPlan[u] = "free"

OneHandler == Cardinality({c \in Calls : call'[c].at # "idle"}) <= 1
OneRoom == Cardinality({r \in Rooms : rooms'[r] # {}}) <= 1

(* The streams are one user's and open in the order of their numbers.      *)
OneSubscriber ==
    \A s, t \in Streams :
        s < t /\ stream'[t].at # "unused"
            => stream'[s].at # "unused" /\ stream'[s].user = stream'[t].user

(* A new room has the least number that is left.                           *)
LeastRoom == \A r \in Rooms : room' # None /\ r < room' => rooms'[r] # {}

(* Bound: a day that began with something held is the last one.            *)
LastDay == carried = [u \in Users |-> 0]

SafetyNext ==
    /\ UNCHANGED scenario
    /\ \/ /\ scenario = "faults"
          /\ (\E c \in Calls : HandlerNext(c)) \/ PollNext \/ Crash
          /\ UNCHANGED subVars
       \/ /\ scenario = "nights"
          /\ \/ \E c \in Calls : NoFaults!HandlerNext(c)
             \/ NoFaults!PollNext
             \/ LastDay /\ Midnight
          /\ UNCHANGED subVars
       \/ /\ scenario \in PlanChangers
          /\ \/ \E c \in Calls : NoFaults!HandlerNext(c)
             \/ NoFaults!PollNext
             \/ LastDay /\ Midnight
             \/ PlanNext(scenario)
          /\ UNCHANGED subVars /\ OneHandler /\ OneRoom
       \/ /\ scenario = "streams"
          /\ Quiet!Next /\ OneHandler /\ OneRoom /\ OneSubscriber
    /\ LeastRoom

SafetySpec == SafetyInit /\ [][SafetyNext]_<<vars, scenario>>

(* Users and handlers are interchangeable.                                 *)
SafetySymmetry == Permutations(Users) \cup Permutations(Calls)
=============================================================================

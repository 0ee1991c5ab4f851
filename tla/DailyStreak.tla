---------------------------- MODULE DailyStreak ----------------------------
(***************************************************************************)
(* The login streak of one user and its daily reward                       *)
(* (services/auth/main.go): processStreak, which every login with          *)
(* credentials, registration and Google sign-in ends with, and             *)
(* ClaimDailyReward.  Both read the user's document, compute with the      *)
(* clock, and write under a filter; other requests of the user and         *)
(* midnight in Kolkata may come between any two of these.                  *)
(*                                                                         *)
(* Users have a document each, so one user is enough.  Days are numbers.   *)
(***************************************************************************)
EXTENDS Integers, FiniteSets, Sequences

CONSTANTS
    Visits,     \* requests of the user that are handled at the same time
    MaxDay,     \* bound: days of a behaviour
    MongoFails  \* whether a write to MongoDB may fail

ASSUME VisitsAssumption == IsFiniteSet(Visits)
ASSUME MaxDayAssumption == MaxDay \in Nat \ {0}
ASSUME MongoFailsAssumption == MongoFails \in BOOLEAN

VARIABLES
    day,       \* the date in Kolkata
    streak,    \* users.streak
    visit,     \* the requests in progress
    loginDays, \* history: days whose login was written
    granted,   \* the coins given ($inc of users.coins), per claimed day
    late       \* history: a request was in progress at midnight

streakVars == <<day, streak, visit, loginDays, granted, late>>

Days == 1..MaxDay
Never == -1
DayOrNever == Days \cup {Never}

Streak == [current : Nat, longest : Nat, last : DayOrNever,
           claimed : DayOrNever]

NewStreak == [current |-> 0, longest |-> 0, last |-> Never, claimed |-> Never]

(* A request: its next step, the streak it has read (and, for a login that *)
(* is about to write, computed), and the date it took for today.           *)
VisitAt == {"idle", "date", "compute", "write", "claimDate", "grant"}
Visit == [at : VisitAt, seen : Streak, today : DayOrNever]
NoVisit == [at |-> "idle", seen |-> NewStreak, today |-> Never]

StreakTypeOK ==
    /\ day \in Days
    /\ streak \in Streak
    /\ visit \in [Visits -> Visit]
    /\ loginDays \subseteq Days
    /\ granted \in [Days -> Seq(Nat)]
    /\ late \in BOOLEAN

StreakInit ==
    /\ day = 1
    /\ streak = NewStreak
    /\ visit = [v \in Visits |-> NoVisit]
    /\ loginDays = {}
    /\ granted = [d \in Days |-> <<>>]
    /\ late = FALSE

Leave(v) == visit' = [visit EXCEPT ![v] = NoVisit]

-----------------------------------------------------------------------------
(* processStreak.                                                          *)

(* The handler has found the user's document.                              *)
LoginRead(v) ==
    /\ visit[v].at = "idle"
    /\ visit' = [visit EXCEPT ![v] =
                   [at |-> "date", seen |-> streak, today |-> Never]]
    /\ UNCHANGED <<day, streak, loginDays, granted, late>>

(* The first time.Now(), for today.                                        *)
LoginDate(v) ==
    /\ visit[v].at = "date"
    /\ visit' = [visit EXCEPT ![v].at = "compute", ![v].today = day]
    /\ UNCHANGED <<day, streak, loginDays, granted, late>>

(* The streak of a login today: one more after yesterday's, one otherwise. *)
(* The longest streak is only looked at when the streak grows.             *)
Later(m, n) == IF m > n THEN m ELSE n

Continued(s, today, yesterday) ==
    IF s.last = yesterday
      THEN [s EXCEPT !.current = @ + 1, !.longest = Later(@, s.current + 1),
                     !.last = today]
      ELSE [s EXCEPT !.current = 1, !.last = today]

(* The second time.Now(), for yesterday, and the switch.  A login that was *)
(* counted today is answered.                                              *)
LoginCompute(v) ==
    /\ visit[v].at = "compute"
    /\ LET s == visit[v].seen
           today == visit[v].today
       IN IF s.last = today
            THEN Leave(v)
            ELSE visit' = [visit EXCEPT ![v].at = "write",
                             ![v].seen = Continued(s, today, day - 1)]
    /\ UNCHANGED <<day, streak, loginDays, granted, late>>

WriteStreak(v, matches) ==
    /\ visit[v].at = "write"
    /\ \/ /\ matches
          /\ streak' = visit[v].seen
          /\ loginDays' = loginDays \cup {visit[v].today}
       \/ /\ ~ matches \/ MongoFails
          /\ UNCHANGED <<streak, loginDays>>
    /\ Leave(v)
    /\ UNCHANGED <<day, granted, late>>

LoginWrite_Unfiltered(v) == WriteStreak(v, TRUE)

(* UpdateOne: the whole streak is set, unless lastClaimedDate is today.    *)
LoginWrite(v) == WriteStreak(v, streak.last # visit[v].today)

-----------------------------------------------------------------------------
(* ClaimDailyReward.                                                       *)

RewardForDay(n) ==
    CASE n >= 14 -> 200
      [] n \in 7..13 -> 100
      [] n \in 5..6 -> 50
      [] n \in 3..4 -> 30
      [] n = 2 -> 20
      [] OTHER -> 10

ClaimRead(v) ==
    /\ visit[v].at = "idle"
    /\ visit' = [visit EXCEPT ![v] =
                   [at |-> "claimDate", seen |-> streak, today |-> Never]]
    /\ UNCHANGED <<day, streak, loginDays, granted, late>>

(* Only after today's login, and not when today's reward was claimed.      *)
ClaimDate(v) ==
    /\ visit[v].at = "claimDate"
    /\ IF visit[v].seen.last = day /\ visit[v].seen.claimed # day
         THEN visit' = [visit EXCEPT ![v].at = "grant", ![v].today = day]
         ELSE Leave(v)
    /\ UNCHANGED <<day, streak, loginDays, granted, late>>

(* UpdateOne: coins and the claimed date together, unless that is today.   *)
ClaimGrant(v) ==
    /\ visit[v].at = "grant"
    /\ LET today == visit[v].today
           matches == streak.claimed # today
       IN \/ /\ matches
             /\ streak' = [streak EXCEPT !.claimed = today]
             /\ granted' = [granted EXCEPT ![today] =
                              Append(@, RewardForDay(visit[v].seen.current))]
          \/ /\ ~ matches \/ MongoFails
             /\ UNCHANGED <<streak, granted>>
    /\ Leave(v)
    /\ UNCHANGED <<day, loginDays, late>>

-----------------------------------------------------------------------------
NextDay ==
    /\ day < MaxDay
    /\ day' = day + 1
    /\ late' = (late \/ \E v \in Visits : visit[v].at # "idle")
    /\ UNCHANGED <<streak, visit, loginDays, granted>>

StreakNext ==
    \/ \E v \in Visits :
         \/ LoginRead(v) \/ LoginDate(v) \/ LoginCompute(v) \/ LoginWrite(v)
         \/ ClaimRead(v) \/ ClaimDate(v) \/ ClaimGrant(v)
    \/ NextDay

StreakSpec == StreakInit /\ [][StreakNext]_streakVars

-----------------------------------------------------------------------------
(* The days in a row with a login that end with day d.                     *)
RunTo(d) == Cardinality({n \in 1..d : n..d \subseteq loginDays})

(* However requests of one day cross, the streak is the number of days in  *)
(* a row with a login, up to the last of them, and the longest streak is   *)
(* the longest such run.  (A run of one day does not count for it: the     *)
(* first login leaves it at 0.)  A request that is being handled at        *)
(* midnight may break this.                                                *)
StreakCountsDays ==
    ~ late =>
       /\ streak.current = IF loginDays = {} THEN 0 ELSE RunTo(streak.last)
       /\ \A d \in loginDays :
            d <= streak.last /\ (RunTo(d) >= 2 => RunTo(d) <= streak.longest)
       /\ streak.longest # 0
            => \E d \in loginDays : RunTo(d) = streak.longest

(* README "Atomic Streak and Reward Claiming": the reward of a day is      *)
(* granted at most once, however claims and logins cross.                  *)
RewardOncePerDay == \A d \in Days : Len(granted[d]) <= 1

(* The same where it holds: when no request was in progress at midnight a  *)
(* day is rewarded at most once, and with the coins of the days in a row   *)
(* that really end with it.  And, whatever happens at midnight, no day     *)
(* without a login is rewarded.                                            *)
RewardOnceAndDeserved ==
    \A d \in Days : granted[d] # <<>> =>
        /\ d \in loginDays
        /\ late \/ granted[d] = <<RewardForDay(RunTo(d))>>

(* The streak that the user is shown, and the coins given for it.          *)
StreakSafety == StreakTypeOK /\ StreakCountsDays /\ RewardOnceAndDeserved
=============================================================================

------------------------------- MODULE MCAuth -------------------------------
(***************************************************************************)
(* Model-checking instance of what is kept of a user: by the auth service, *)
(* and what it shares with scoring.  The parts share no state that         *)
(* their modules read, so a behaviour is one part's, chosen initially; the *)
(* other parts stay as they are.                                           *)
(*                                                                         *)
(*   "accounts" - sign-ups, links and deletions                            *)
(*   "streak"   - logins and claims of a user                              *)
(*   "code"     - an address' codes, requests that run one after the other *)
(*   "codes"    - the same, one code, requests at once, crashes            *)
(*   "referral" - one referee, with faults                                 *)
(*   "referees" - two referees, without faults                             *)
(*   "jobs"     - the daily streak warning and reward nudge                *)
(*   "plans"    - what is shown of a plan                                  *)
(***************************************************************************)
EXTENDS Accounts, DailyStreak, EmailCodes, Referral, StreakReminders,
        PlanScreens

VARIABLE scenario

vars == <<accountVars, streakVars, codeVars, referralVars, reminderVars,
          planVars, scenario>>

(* The accounts of Google have the same address, and so one name.          *)
SameAddress == [g \in GoogleIds |-> 1]

Scenarios ==
    {"accounts", "streak", "code", "codes", "referral", "referees", "jobs",
     "plans"}

(* Sign-ups are equal: they begin in the order of their numbers.           *)
InTurn ==
    \A s, t \in SignUps :
        s < t /\ signUp'[t].at # "new" => signUp'[s].at # "new"

(* While an address is linked, and with faults, there are no more than two. *)
TwoSignUps ==
    broken' \/ link' # [l \in Links |-> NoLink]
        => Cardinality({s \in SignUps : signUp'[s].at # "new"}) <= 2

(* A request at midnight in the first three days only.                     *)
LateThreeDays == late' => day' <= 3

(* The referee with faults is a fixed one; who refers only has an account, *)
(* or has none.                                                            *)
TheReferee == CHOOSE r \in Referees : TRUE

Starts(m) ==
    \/ scenario = "referees" /\ m \in Referees
    \/ scenario = "referees" /\ account[m] = "full"
    \/ scenario = "referral" /\ (m = TheReferee \/ account[m] # "guest")
    \/ scenario \notin {"referral", "referees"} /\ account[m] = "none"

OneReferee ==
    \A m \in Referees \ {TheReferee} :
        /\ matches'[m] = 0 /\ account'[m] = account[m]
        /\ \A a \in Applies : apply'[a].user # m

(* Commands fail in checks against one code only.                          *)
OneCodeFails == \A c, d \in Codes : errors'[c] > 0 /\ errors'[d] > 0 => c = d

(* Wrong tries of requests at once: enough for a code to be given up.      *)
FewTries == \A c \in Codes : wrong'[c] <= MaxAttempts

OneMatchEach == \A m \in Referees : matches'[m] <= 1

AuthInit ==
    /\ scenario \in Scenarios
    /\ AccountInit /\ StreakInit /\ EmailInit /\ ReferralInit
    /\ ReminderInit /\ PlanInit
    /\ scenario # "jobs" => slot = 0 /\ guests = {}
    /\ scenario # "plans" => stored = "free"
    /\ scenario \notin {"code", "codes"} => owned
    /\ \A m \in Members : Starts(m)

AuthNext ==
    /\ UNCHANGED scenario
    /\ \/ /\ scenario = "accounts" /\ AccountNext
          /\ InTurn /\ TwoSignUps
          /\ UNCHANGED <<streakVars, codeVars, referralVars, reminderVars, planVars>>
       \/ /\ scenario = "streak" /\ StreakNext /\ LateThreeDays
          /\ UNCHANGED <<accountVars, codeVars, referralVars, reminderVars, planVars>>
       \/ /\ EmailNext
          /\ \/ scenario = "code" /\ calm' /\ OneCodeFails
             \/ scenario = "codes" /\ sent' <= 1 /\ FewTries
          /\ UNCHANGED <<accountVars, streakVars, referralVars, reminderVars, planVars>>
       \/ /\ ReferralNext
          /\ \/ scenario = "referral" /\ OneReferee
             \/ scenario = "referees" /\ ~ failed' /\ OneMatchEach
          /\ UNCHANGED <<accountVars, streakVars, codeVars, reminderVars, planVars>>
       \/ /\ scenario = "jobs" /\ ReminderNext
          /\ UNCHANGED <<accountVars, streakVars, codeVars, referralVars, planVars>>
       \/ /\ scenario = "plans" /\ PlanNextStep
          /\ UNCHANGED <<accountVars, streakVars, codeVars, referralVars,
                         reminderVars>>

AuthSpec == AuthInit /\ [][AuthNext]_vars
=============================================================================

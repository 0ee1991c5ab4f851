-------------------------- MODULE StreakReminders --------------------------
(***************************************************************************)
(* The two daily jobs of the auth service (services/auth/main.go):         *)
(* streakWarningCron, at 20:00 in Kolkata, and dailyRewardNudgeCron, at    *)
(* 08:00.  Each is a loop: compute the next time, sleep, query the users,  *)
(* publish a notice for each.  Players log in meanwhile, and the service   *)
(* may be restarted at any step.                                           *)
(*                                                                         *)
(* A day is three slots: until 08:00, until 20:00, and until midnight.     *)
(* Assumed is that a job that is due wakes and is done in the slot it is   *)
(* due in.                                                                 *)
(***************************************************************************)
EXTENDS Integers, FiniteSets

CONSTANTS
    Learners,  \* users
    Guests,    \* those that may be guests at first
    LastDay,   \* bound: days of a behaviour
    JobsFail   \* whether queries and publishing may fail, and restarts happen

ASSUME GuestsAssumption == Guests \subseteq Learners
ASSUME LastDayAssumption == LastDay \in Nat \ {0}
ASSUME JobsFailAssumption == JobsFail \in BOOLEAN

VARIABLES
    slot,    \* slots passed since the first midnight
    guests,  \* users with isGuest
    logins,  \* the slots of each user's logins: streak.lastClaimedDate is the
             \* day of the last one, and streak.current > 0 after the first
    job,     \* the two jobs
    notices, \* notices published, per job, day and user
    faulty   \* history: a query or a publication failed, or a restart

reminderVars == <<slot, guests, logins, job, notices, faulty>>

Jobs == {"nudge", "warning"}
DueSlot(j) == IF j = "nudge" THEN 1 ELSE 2

Slots == 0..(3 * LastDay - 1)
DayOf(s) == s \div 3
CalendarDays == 0..(LastDay - 1)
LoggedInOn(u, d) == \E s \in logins[u] : DayOf(s) = d

JobAt == {"plan", "sleep", "publish"}
IdleJob == [at |-> "plan", target |-> 0, left |-> {}]

ReminderTypeOK ==
    /\ slot \in Slots
    /\ guests \subseteq Guests
    /\ logins \in [Learners -> SUBSET Slots]
    /\ job \in [Jobs -> [at : JobAt, target : Nat, left : SUBSET Learners]]
    /\ notices \in [Jobs -> [CalendarDays -> [Learners -> Nat]]]
    /\ faulty \in BOOLEAN

ReminderInit ==
    /\ slot \in {0, 2}
    /\ guests \in SUBSET Guests
    /\ logins = [u \in Learners |-> {}]
    /\ job = [j \in Jobs |-> IdleJob]
    /\ notices = [j \in Jobs |-> [d \in CalendarDays |-> [u \in Learners |-> 0]]]
    /\ faulty = FALSE

-----------------------------------------------------------------------------
(* processStreak, as far as the jobs see it.  A guest's login leaves the   *)
(* streak alone (GuestLogin, LinkEmail).                                   *)
LogIn(u) ==
    /\ u \notin guests
    /\ ~ LoggedInOn(u, DayOf(slot))
    /\ logins' = [logins EXCEPT ![u] = @ \cup {slot}]
    /\ UNCHANGED <<slot, guests, job, notices, faulty>>

LinkAddress(u) ==
    /\ u \in guests
    /\ guests' = guests \ {u}
    /\ UNCHANGED <<slot, logins, job, notices, faulty>>

-----------------------------------------------------------------------------
(* Today's time, or tomorrow's when it is later than that.                 *)
NextTarget_SameDay(j) == 3 * DayOf(slot) + DueSlot(j)

NextTarget(j) ==
    LET today == 3 * DayOf(slot) + DueSlot(j)
    IN IF slot >= today THEN today + 3 ELSE today

PlanJob(j) ==
    /\ job[j].at = "plan"
    /\ job' = [job EXCEPT ![j] =
                 [at |-> "sleep", target |-> NextTarget(j), left |-> {}]]
    /\ UNCHANGED <<slot, guests, logins, notices, faulty>>

Matches(j, u) ==
    /\ ~ LoggedInOn(u, DayOf(slot))
    /\ IF j = "warning" THEN logins[u] # {} ELSE u \notin guests

(* The query.  If it fails the job waits for the next day.                 *)
WakeJob(j) ==
    /\ job[j].at = "sleep" /\ slot >= job[j].target
    /\ \/ /\ job' = [job EXCEPT ![j].at = "publish",
                                ![j].left = {u \in Learners : Matches(j, u)}]
          /\ UNCHANGED faulty
       \/ /\ JobsFail /\ faulty' = TRUE
          /\ job' = [job EXCEPT ![j].at = "plan"]
    /\ UNCHANGED <<slot, guests, logins, notices>>

(* One user of the cursor.  An error of PublishWithContext is not seen.    *)
PublishNotice(j) ==
    /\ job[j].at = "publish"
    /\ \E u \in job[j].left :
         /\ job' = [job EXCEPT ![j].left = @ \ {u}]
         /\ \/ /\ notices' = [notices EXCEPT ![j][DayOf(slot)][u] = @ + 1]
               /\ UNCHANGED faulty
            \/ /\ JobsFail /\ faulty' = TRUE
               /\ UNCHANGED notices
    /\ UNCHANGED <<slot, guests, logins>>

FinishJob(j) ==
    /\ job[j].at = "publish" /\ job[j].left = {}
    /\ job' = [job EXCEPT ![j] = IdleJob]
    /\ UNCHANGED <<slot, guests, logins, notices, faulty>>

(* The service is restarted: nothing remembers what was published today.   *)
RestartJobs ==
    /\ JobsFail
    /\ job # [j \in Jobs |-> IdleJob]
    /\ job' = [j \in Jobs |-> IdleJob]
    /\ faulty' = TRUE
    /\ UNCHANGED <<slot, guests, logins, notices>>

PassSlot ==
    /\ slot + 1 \in Slots
    /\ \A j \in Jobs : job[j].at = "sleep" /\ slot < job[j].target
    /\ slot' = slot + 1
    /\ UNCHANGED <<guests, logins, job, notices, faulty>>

ReminderNext ==
    \/ \E u \in Learners : LogIn(u) \/ LinkAddress(u)
    \/ \E j \in Jobs : PlanJob(j) \/ WakeJob(j) \/ PublishNotice(j) \/ FinishJob(j)
    \/ RestartJobs
    \/ PassSlot

ReminderSpec == ReminderInit /\ [][ReminderNext]_reminderVars

-----------------------------------------------------------------------------
(* A day has at most one notice of each job for a user, whatever fails and *)
(* however often the service restarts; none for who had logged in before   *)
(* the job's slot of that day; warnings only for who has a streak.         *)
NoticesAreFew ==
    \A j \in Jobs, d \in CalendarDays, u \in Learners :
        notices[j][d][u] > 0 =>
            /\ notices[j][d][u] = 1
            /\ \A s \in logins[u] : DayOf(s) = d => s >= 3 * d + DueSlot(j)
            /\ j = "warning" => \E s \in logins[u] : s <= 3 * d + 2
            /\ j = "nudge" => u \notin guests

(* "for users who haven't logged in today but have an active streak": when *)
(* nothing fails and the service runs, no streak ends at a midnight that   *)
(* its owner was not warned of in the evening before.                      *)
LostStreaksWereWarned ==
    ~ faulty =>
        \A u \in Learners : \A d \in 1..(DayOf(slot) - 1) :
            LoggedInOn(u, d - 1) /\ ~ LoggedInOn(u, d)
                => notices["warning"][d][u] = 1

WarningSafety == ReminderTypeOK /\ NoticesAreFew /\ LostStreaksWereWarned
=============================================================================

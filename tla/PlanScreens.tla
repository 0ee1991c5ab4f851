---------------------------- MODULE PlanScreens ----------------------------
(***************************************************************************)
(* What a user is shown of their plan.  The plan is kept in MongoDB, and   *)
(* cached in Redis for five minutes by every request that misses it there  *)
(* (GetPlan, SetPlan, DelPlan in pkg/keys/redis.go).  It changes when a    *)
(* payment is captured (services/scoring/main.go) and when the plan has    *)
(* expired (services/payment/main.go): the user's document is written,     *)
(* then the cached copy deleted.                                           *)
(*                                                                         *)
(* GetMatchHistory, GetGlobalLeaderboard and the home screen's preview     *)
(* limit their rows by the cached plan; the home screen's profile and      *)
(* GetPlanStatus show the stored one.  One user and its requests.          *)
(***************************************************************************)
EXTENDS Naturals

CONSTANTS
    Screens,       \* requests that are handled at the same time
    MaxChanges,    \* bound: changes of the plan
    PlanFaults     \* whether reads and deletions fail, and services die

ASSUME MaxChangesAssumption == MaxChanges \in Nat
ASSUME PlanFaultsAssumption == PlanFaults \in BOOLEAN

VARIABLES
    stored,   \* users.plan
    copy,     \* the cached plan
    changing, \* the plan is written and its copy not deleted yet
    changes,  \* changes of the plan so far
    screen    \* the requests

planVars == <<stored, copy, changing, changes, screen>>

Plans == {"free", "premium"}
NoPlan == "none"
MaybePlan == Plans \cup {NoPlan}

(* stray (history): the copy was made by a request that failed to read the *)
(* plan, or had read it before its last change, or its deletion failed.    *)
NoCopy == [plan |-> NoPlan, stray |-> FALSE]

(* A request: its kind, its next step, the plan that limits its rows and   *)
(* the plan that its profile shows; whether (history) it still knows the   *)
(* plan that is stored, and whether nothing disturbed it.                  *)
Kinds == {"home", "rows", "status"}
ScreenAt == {"idle", "find", "fill", "profile", "shown"}
NoScreen == [kind |-> "home", at |-> "idle", rows |-> NoPlan,
             profile |-> NoPlan, fresh |-> TRUE, calm |-> TRUE]

PlanTypeOK ==
    /\ stored \in Plans
    /\ copy \in [plan : MaybePlan, stray : BOOLEAN]
    /\ changing \in BOOLEAN
    /\ changes \in 0..MaxChanges
    /\ screen \in [Screens -> [kind : Kinds, at : ScreenAt, rows : MaybePlan,
                       profile : MaybePlan, fresh : BOOLEAN, calm : BOOLEAN]]

PlanInit ==
    /\ stored \in Plans
    /\ copy = NoCopy
    /\ changing = FALSE
    /\ changes = 0
    /\ screen = [s \in Screens |-> NoScreen]

-----------------------------------------------------------------------------
(* A change of the plan, and the end of a copy's five minutes.             *)

(* An answer that was shown is of the past now, a request in progress is   *)
(* disturbed.                                                              *)
WritePlan ==
    /\ ~ changing /\ changes < MaxChanges
    /\ \E p \in Plans \ {stored} : stored' = p
    /\ changing' = TRUE
    /\ changes' = changes + 1
    /\ screen' = [s \in Screens |->
                    IF screen[s].at \in {"idle", "shown"} THEN NoScreen
                    ELSE [screen[s] EXCEPT !.fresh = FALSE, !.calm = FALSE]]
    /\ UNCHANGED copy

EndChange ==
    /\ changing
    /\ changing' = FALSE
    /\ UNCHANGED <<stored, changes, screen>>

DeletePlan_OnlyPremium ==
    EndChange /\ copy' = IF stored = "premium" THEN NoCopy ELSE copy

DeletePlan == EndChange /\ copy' = NoCopy

(* DelPlan's error is ignored; or the process dies before it: a payment is *)
(* captured again after that, an expired plan is not looked for again.     *)
DeletePlanFails ==
    /\ PlanFaults
    /\ EndChange
    /\ copy' = IF copy.plan \in {NoPlan, stored} THEN copy
               ELSE [copy EXCEPT !.stray = TRUE]

CopyExpires ==
    /\ copy # NoCopy
    /\ copy' = NoCopy
    /\ UNCHANGED <<stored, changing, changes, screen>>

-----------------------------------------------------------------------------
(* The requests.                                                           *)

Then(kind) == IF kind = "home" THEN "profile" ELSE "shown"

(* GetPlan, which GetPlanStatus does without.                              *)
OpenScreen(s) ==
    /\ screen[s].at \in {"idle", "shown"}
    /\ \E kind \in Kinds :
         screen' = [screen EXCEPT ![s] =
           IF kind = "status" THEN
             [NoScreen EXCEPT !.kind = kind, !.at = "profile",
                              !.calm = ~ changing]
           ELSE IF copy = NoCopy THEN
             [NoScreen EXCEPT !.kind = kind, !.at = "find",
                              !.calm = ~ changing]
           ELSE
             [NoScreen EXCEPT !.kind = kind, !.at = Then(kind),
                              !.rows = copy.plan,
                              !.calm = ~ changing /\ ~ copy.stray]]
    /\ UNCHANGED <<stored, copy, changing, changes>>

(* FindOne.  A user that cannot be read is a free one.                     *)
FindPlan(s) ==
    /\ screen[s].at = "find"
    /\ \/ screen' = [screen EXCEPT ![s].at = "fill", ![s].rows = stored,
                                   ![s].fresh = TRUE]
       \/ /\ PlanFaults
          /\ screen' = [screen EXCEPT ![s].at = "fill", ![s].rows = "free",
                                      ![s].fresh = FALSE, ![s].calm = FALSE]
    /\ UNCHANGED <<stored, copy, changing, changes>>

(* SetPlan.                                                                *)
FillPlan(s) ==
    /\ screen[s].at = "fill"
    /\ copy' = [plan |-> screen[s].rows, stray |-> ~ screen[s].fresh]
    /\ screen' = [screen EXCEPT ![s].at = Then(screen[s].kind)]
    /\ UNCHANGED <<stored, changing, changes>>

(* The profile is read; if it cannot be, the request fails.                *)
ReadProfile(s) ==
    /\ screen[s].at = "profile"
    /\ \/ screen' = [screen EXCEPT ![s].at = "shown", ![s].profile = stored]
       \/ /\ PlanFaults
          /\ screen' = [screen EXCEPT ![s] = NoScreen]
    /\ UNCHANGED <<stored, copy, changing, changes>>

PlanNextStep ==
    \/ WritePlan \/ DeletePlan \/ DeletePlanFails \/ CopyExpires
    \/ \E s \in Screens :
         OpenScreen(s) \/ FindPlan(s) \/ FillPlan(s) \/ ReadProfile(s)

PlanSpec == PlanInit /\ [][PlanNextStep]_planVars

-----------------------------------------------------------------------------
(* "Invalidate Redis plan cache": once a change is complete, the cached    *)
(* plan is the stored one.  The exceptions are a copy whose deletion       *)
(* failed, and copies that were made after the change by a request that    *)
(* had read the plan before it or could not read it; they live for five    *)
(* minutes.                                                                *)
CopyFollowsPlan ==
    ~ changing /\ ~ copy.stray => copy.plan \in {NoPlan, stored}

(* A request that neither a change of the plan, a failed read nor such a   *)
(* copy disturbed is limited by the plan that is stored, so the home       *)
(* screen's rows and profile agree.  GetPlanStatus is never disturbed.     *)
ScreensShowPlan ==
    \A s \in Screens : screen[s].at = "shown" =>
        /\ screen[s].calm => screen[s].rows \in {NoPlan, stored}
        /\ screen[s].profile \in {NoPlan, stored}

PlanShownSafety == PlanTypeOK /\ CopyFollowsPlan /\ ScreensShowPlan
=============================================================================

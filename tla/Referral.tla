------------------------------ MODULE Referral ------------------------------
(***************************************************************************)
(* Referrals, from the code a user applies to the coins both sides get:    *)
(*   - ApplyReferralCode (services/scoring/main.go) and applyReferral at   *)
(*     sign-up (services/auth/main.go) write users.referredBy and a        *)
(*     document of the referrals collection, whose refereeId is unique;    *)
(*   - the persistence of a match (scoring) publishes                      *)
(*     referral.first_quiz_completed after a referred user's first match;  *)
(*   - consumeReferralEvents (scoring) converts the document and pays.     *)
(*                                                                         *)
(* A code stands for its owner.  An event stays in the queue until it is   *)
(* acknowledged; as it is handled anew after a crash and published anew    *)
(* when match.ended is, the queue is a set.                                *)
(***************************************************************************)
EXTENDS Integers, FiniteSets, Sequences

CONSTANTS
    Members,       \* users
    Nobody,        \* no user
    Referees,      \* bound: the users that apply codes and play
    Applies,       \* requests that apply a code at the same time
    ReferralCap,   \* converted referrals a referrer may have when a code is applied
    MaxMatches,    \* bound: matches of a user
    ReferralFaults \* whether services crash and calls to MongoDB or the broker fail

ASSUME MembersAssumption == IsFiniteSet(Members) /\ Nobody \notin Members
ASSUME RefereesAssumption == Referees \subseteq Members
ASSUME ReferralCapAssumption == ReferralCap \in Nat
ASSUME MaxMatchesAssumption == MaxMatches \in Nat
ASSUME ReferralFaultsAssumption == ReferralFaults \in BOOLEAN

VARIABLES
    account,    \* no account yet, a guest's or a full one
    referredBy, \* users.referredBy
    referral,   \* the referrals collection, by refereeId
    apply,      \* requests in progress that apply a code
    matches,    \* documents of match_history with the user
    persist,    \* the consumer of match.ended at its last loop
    events,     \* referral-event-queue
    reward,     \* consumeReferralEvents
    toReferrer, \* who was paid 100 coins for a referee, in order
    toReferee,  \* how often a referee was paid 50 coins
    crossed,    \* history: two requests of one user have overlapped
    failed      \* history: a crash or a failed call

referralVars == <<account, referredBy, referral, apply, matches, persist,
                  events, reward, toReferrer, toReferee, crossed, failed>>

NoDocument == [referrer |-> Nobody, status |-> "none"]
Documents == [referrer : Members, status : {"pending", "converted"}]
                \cup {NoDocument}

ReferralEvents == [referrer : Members, referee : Members]

NoApply == [at |-> "idle", user |-> Nobody, referrer |-> Nobody]
NoPersist == [at |-> "idle", user |-> Nobody, seen |-> Nobody]
NoReward == [at |-> "idle", event |-> Nobody]

ReferralTypeOK ==
    /\ account \in [Members -> {"none", "guest", "full"}]
    /\ referredBy \in [Members -> Members \cup {Nobody}]
    /\ referral \in [Members -> Documents]
    /\ apply \in [Applies -> [at : {"count", "insert", "set"}, user : Members,
                              referrer : Members] \cup {NoApply}]
    /\ matches \in [Members -> Nat]
    /\ persist \in [at : {"read", "count", "ack"}, user : Members,
                    seen : Members \cup {Nobody}] \cup {NoPersist}
    /\ events \subseteq ReferralEvents
    /\ reward \in [at : {"payReferrer", "payReferee", "ack"},
                   event : ReferralEvents] \cup {NoReward}
    /\ toReferrer \in [Members -> Seq(Members)]
    /\ toReferee \in [Members -> Nat]
    /\ crossed \in BOOLEAN
    /\ failed \in BOOLEAN

ReferralInit ==
    /\ account \in [Members -> {"none", "guest", "full"}]
    /\ referredBy = [m \in Members |-> Nobody]
    /\ referral = [m \in Members |-> NoDocument]
    /\ apply = [a \in Applies |-> NoApply]
    /\ matches = [m \in Members |-> 0]
    /\ persist = NoPersist
    /\ events = {}
    /\ reward = NoReward
    /\ toReferrer = [m \in Members |-> <<>>]
    /\ toReferee = [m \in Members |-> 0]
    /\ crossed = FALSE
    /\ failed = FALSE

Converted(m) == {r \in Members : referral[r] = [referrer |-> m,
                                                status |-> "converted"]}

-----------------------------------------------------------------------------
(* Applying a code.                                                        *)

StartApply(a, u, owner) ==
    /\ apply[a] = NoApply
    /\ apply' = [apply EXCEPT ![a] =
                   [at |-> "count", user |-> u, referrer |-> owner]]
    /\ crossed' = (crossed \/ \E b \in Applies : apply[b].user = u)

(* Register and Google sign-in: a new account is written and the code it   *)
(* came with is applied.  Nobody refers itself.                            *)
SignUpWith(a, u, owner) ==
    /\ account[u] = "none" /\ account[owner] # "none"
    /\ account' = [account EXCEPT ![u] = "full"]
    /\ StartApply(a, u, owner)
    /\ UNCHANGED <<referredBy, referral, matches, persist, events, reward,
                   toReferrer, toReferee, failed>>

(* ApplyReferralCode: the user has read as not referred and no guest.      *)
ApplyCode(a, u, owner) ==
    /\ referredBy[u] = Nobody
    /\ account[u] = "full" /\ account[owner] # "none" /\ owner # u
    /\ StartApply(a, u, owner)
    /\ UNCHANGED <<account, referredBy, referral, matches, persist, events,
                   reward, toReferrer, toReferee, failed>>

(* The referrer is counted to have converted less than the cap; a code     *)
(* over it is refused.                                                     *)
CountConverted(a) ==
    /\ apply[a].at = "count"
    /\ apply' = [apply EXCEPT ![a] =
                   IF Cardinality(Converted(apply[a].referrer)) < ReferralCap
                     THEN [apply[a] EXCEPT !.at = "insert"]
                     ELSE NoApply]
    /\ UNCHANGED <<account, referredBy, referral, matches, persist, events,
                   reward, toReferrer, toReferee, crossed, failed>>

(* InsertOne, whose error is ignored: refereeId is unique.                 *)
InsertReferral(a) ==
    /\ apply[a].at = "insert"
    /\ LET u == apply[a].user IN
         \/ /\ referral' = IF referral[u] # NoDocument THEN referral
                           ELSE [referral EXCEPT ![u] =
                                   [referrer |-> apply[a].referrer,
                                    status |-> "pending"]]
            /\ UNCHANGED failed
         \/ /\ ReferralFaults /\ failed' = TRUE
            /\ UNCHANGED referral
    /\ apply' = [apply EXCEPT ![a].at = "set"]
    /\ UNCHANGED <<account, referredBy, matches, persist, events, reward,
                   toReferrer, toReferee, crossed>>

(* UpdateOne of referredBy, whatever became of the insertion.              *)
SetReferredBy(a) ==
    /\ apply[a].at = "set"
    /\ \/ /\ referredBy' = [referredBy EXCEPT
                              ![apply[a].user] = apply[a].referrer]
          /\ UNCHANGED failed
       \/ /\ ReferralFaults /\ failed' = TRUE
          /\ UNCHANGED referredBy
    /\ apply' = [apply EXCEPT ![a] = NoApply]
    /\ UNCHANGED <<account, referral, matches, persist, events, reward,
                   toReferrer, toReferee, crossed>>

(* LinkEmail turns a guest into a full account.                            *)
LinkGuest(u) ==
    /\ account[u] = "guest"
    /\ account' = [account EXCEPT ![u] = "full"]
    /\ UNCHANGED <<referredBy, referral, apply, matches, persist, events,
                   reward, toReferrer, toReferee, crossed, failed>>

-----------------------------------------------------------------------------
(* The end of the persistence of match.ended, one player at a time.        *)

MatchPersisted(u) ==
    /\ persist = NoPersist
    /\ account[u] # "none" /\ matches[u] < MaxMatches
    /\ matches' = [matches EXCEPT ![u] = @ + 1]
    /\ persist' = [at |-> "read", user |-> u, seen |-> Nobody]
    /\ UNCHANGED <<account, referredBy, referral, apply, events, reward,
                   toReferrer, toReferee, crossed, failed>>

ReadReferredBy ==
    /\ persist.at = "read"
    /\ persist' = IF referredBy[persist.user] = Nobody THEN NoPersist
                  ELSE [persist EXCEPT !.at = "count",
                                       !.seen = referredBy[persist.user]]
    /\ UNCHANGED <<account, referredBy, referral, apply, matches, events,
                   reward, toReferrer, toReferee, crossed, failed>>

(* CountDocuments and, for the first match, the event.                     *)
PublishFirstMatch ==
    /\ persist.at = "count"
    /\ \/ /\ events' = IF matches[persist.user] # 1 THEN events
                       ELSE events \cup {[referrer |-> persist.seen,
                                          referee |-> persist.user]}
          /\ UNCHANGED failed
       \/ /\ ReferralFaults /\ failed' = TRUE
          /\ UNCHANGED events
    /\ persist' = [persist EXCEPT !.at = "ack"]
    /\ UNCHANGED <<account, referredBy, referral, apply, matches, reward,
                   toReferrer, toReferee, crossed>>

AckMatchEnded ==
    /\ persist.at = "ack"
    /\ persist' = NoPersist
    /\ UNCHANGED <<account, referredBy, referral, apply, matches, events,
                   reward, toReferrer, toReferee, crossed, failed>>

-----------------------------------------------------------------------------
(* consumeReferralEvents.                                                  *)

ConvertFrom(statuses) ==
    /\ reward = NoReward
    /\ \E event \in events :
         LET r == event.referee IN
           \/ /\ referral[r].status \in statuses
              /\ referral' = [referral EXCEPT ![r].status = "converted"]
              /\ reward' = [at |-> "payReferrer", event |-> event]
              /\ UNCHANGED <<events, failed>>
           \/ /\ referral[r].status \notin statuses
              /\ events' = events \ {event}
              /\ UNCHANGED <<referral, reward, failed>>
           \/ /\ ReferralFaults /\ failed' = TRUE
              /\ events' = events \ {event}
              /\ UNCHANGED <<referral, reward>>
    /\ UNCHANGED <<account, referredBy, apply, matches, persist, toReferrer,
                   toReferee, crossed>>

ConvertReferral_Regranted == ConvertFrom({"pending", "converted"})

(* FindOneAndUpdate of the document that was not rewarded yet; after any   *)
(* error the event is acknowledged.                                        *)
ConvertReferral == ConvertFrom({"pending"})

PayReferrer ==
    /\ reward.at = "payReferrer"
    /\ \/ /\ toReferrer' = [toReferrer EXCEPT ![reward.event.referee] =
                              Append(@, reward.event.referrer)]
          /\ UNCHANGED failed
       \/ /\ ReferralFaults /\ failed' = TRUE
          /\ UNCHANGED toReferrer
    /\ reward' = [reward EXCEPT !.at = "payReferee"]
    /\ UNCHANGED <<account, referredBy, referral, apply, matches, persist,
                   events, toReferee, crossed>>

PayReferee ==
    /\ reward.at = "payReferee"
    /\ \/ /\ toReferee' = [toReferee EXCEPT ![reward.event.referee] = @ + 1]
          /\ UNCHANGED failed
       \/ /\ ReferralFaults /\ failed' = TRUE
          /\ UNCHANGED toReferee
    /\ reward' = [reward EXCEPT !.at = "ack"]
    /\ UNCHANGED <<account, referredBy, referral, apply, matches, persist,
                   events, toReferrer, crossed>>

(* The notification is published and the event acknowledged.               *)
AckReferralEvent ==
    /\ reward.at = "ack"
    /\ events' = events \ {reward.event}
    /\ reward' = NoReward
    /\ UNCHANGED <<account, referredBy, referral, apply, matches, persist,
                   toReferrer, toReferee, crossed, failed>>

(* scoring restarts: match.ended and the event are delivered again.        *)
RestartScoring ==
    /\ ReferralFaults
    /\ persist # NoPersist \/ reward # NoReward
    /\ persist' = IF persist = NoPersist THEN NoPersist
                  ELSE [persist EXCEPT !.at = "read", !.seen = Nobody]
    /\ reward' = NoReward
    /\ failed' = TRUE
    /\ UNCHANGED <<account, referredBy, referral, apply, matches, events,
                   toReferrer, toReferee, crossed>>

ReferralNext ==
    \/ \E a \in Applies :
         \/ \E u \in Referees, owner \in Members :
              SignUpWith(a, u, owner) \/ ApplyCode(a, u, owner)
         \/ CountConverted(a) \/ InsertReferral(a) \/ SetReferredBy(a)
    \/ \E u \in Referees : LinkGuest(u) \/ MatchPersisted(u)
    \/ ReadReferredBy \/ PublishFirstMatch \/ AckMatchEnded
    \/ ConvertReferral \/ PayReferrer \/ PayReferee \/ AckReferralEvent
    \/ RestartScoring

ReferralSpec == ReferralInit /\ [][ReferralNext]_referralVars

-----------------------------------------------------------------------------
(* A referee's referral pays each side at most once, and only when its     *)
(* document is converted: whatever codes cross, however often match.ended  *)
(* or the event is delivered, and wherever scoring crashes.                *)
ReferralPaysOnce ==
    \A r \in Members :
        /\ Len(toReferrer[r]) <= 1 /\ toReferee[r] <= 1
        /\ referral[r].status # "converted" =>
             toReferrer[r] = <<>> /\ toReferee[r] = 0

(* GetReferralDashboard: 100 coins for each converted document.            *)
CoinsEarned(m) == 100 * Cardinality(Converted(m))

(* The dashboard's coins were earned: while nothing fails and no user's    *)
(* requests overlap, the dashboard names what the referrer was paid for.   *)
DashboardExplainsCoins ==
    ~ failed /\ ~ crossed /\ reward.at # "payReferrer" =>
        \A m \in Members :
            CoinsEarned(m) =
                100 * Cardinality({r \in Members : toReferrer[r] = <<m>>})

(* What referrals pay, and are shown to have paid.                         *)
ReferralSafety == ReferralTypeOK /\ ReferralPaysOnce /\ DashboardExplainsCoins
=============================================================================

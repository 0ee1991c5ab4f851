-------------------------- MODULE Referral_proofs --------------------------
(***************************************************************************)
(* Theorems about Referral, for any number of users, codes applied at      *)
(* once, matches and caps: a referral pays each side at most once, and the *)
(* coins that the dashboard shows were paid.                               *)
(***************************************************************************)
EXTENDS Referral, TLAPS

-----------------------------------------------------------------------------
(* Types.                                                                  *)

(* The request records. *)
Requests == [at : {"count", "insert", "set"}, user : Members, referrer : Members]
PersistSteps == [at : {"read", "count", "ack"}, user : Members,
                 seen : Members \cup {Nobody}]
RewardSteps == [at : {"payReferrer", "payReferee", "ack"}, event : ReferralEvents]

(* A request that applies a code, and its next steps.                      *)
LEMMA ApplyType ==
    ASSUME ReferralTypeOK, NEW a \in Applies, apply[a] # NoApply,
           NEW label \in {"count", "insert", "set"}
    PROVE  /\ apply[a].user \in Members /\ apply[a].referrer \in Members
           /\ apply[a].at \in {"count", "insert", "set"}
           /\ [apply[a] EXCEPT !.at = label] =
                [at |-> label, user |-> apply[a].user,
                 referrer |-> apply[a].referrer]
           /\ [apply[a] EXCEPT !.at = label] \in Requests
<1> DEFINE q == apply[a]
<1>1. q \in Requests
  BY DEF ReferralTypeOK, Requests
<1> HIDE DEF q
<1>2. /\ q.user \in Members /\ q.referrer \in Members
      /\ q.at \in {"count", "insert", "set"}
      /\ [q EXCEPT !.at = label] =
           [at |-> label, user |-> q.user, referrer |-> q.referrer]
      /\ [q EXCEPT !.at = label] \in Requests
  BY <1>1 DEF Requests
<1> QED BY <1>2 DEF q

(* A request under way is a user's.                                        *)
LEMMA ApplyOfUser ==
    ASSUME ReferralTypeOK, NEW a \in Applies
    PROVE  /\ apply[a].at = "idle" <=> apply[a] = NoApply
           /\ apply[a].user \in Members <=> apply[a] # NoApply
<1> DEFINE q == apply[a]
<1>1. q \in Requests \cup {NoApply}
  BY DEF ReferralTypeOK, Requests
<1> HIDE DEF q
<1>2. q = NoApply => q.at = "idle" /\ q.user = Nobody
  BY DEF NoApply
<1>3. q # NoApply => q.at # "idle" /\ q.user \in Members
  BY <1>1 DEF Requests
<1>4. /\ q.at = "idle" <=> q = NoApply
      /\ q.user \in Members <=> q # NoApply
  BY <1>2, <1>3, MembersAssumption
<1> QED BY <1>4 DEF q

(* The documents of the collection.                                        *)
LEMMA DocumentType ==
    ASSUME ReferralTypeOK, NEW r \in Members
    PROVE  /\ referral[r] = NoDocument <=> referral[r].status = "none"
           /\ referral[r].status \in {"none", "pending", "converted"}
           /\ referral[r] # NoDocument => referral[r].referrer \in Members
           /\ referral[r] = [referrer |-> referral[r].referrer,
                             status |-> referral[r].status]
  BY DEF ReferralTypeOK, Documents, NoDocument

(* The event that is being rewarded.                                       *)
LEMMA RewardType ==
    ASSUME ReferralTypeOK, reward.at # "idle"
    PROVE  /\ reward.event \in ReferralEvents
           /\ reward.event.referee \in Members /\ reward.event.referrer \in Members
           /\ reward.at \in {"payReferrer", "payReferee", "ack"}
  BY DEF ReferralTypeOK, NoReward, ReferralEvents

(* A request starts to apply a code.                                       *)
LEMMA StartType ==
    ASSUME ReferralTypeOK, NEW a \in Applies, NEW u \in Members,
           NEW owner \in Members, StartApply(a, u, owner)
    PROVE  /\ apply' \in [Applies -> [at : {"count", "insert", "set"},
                            user : Members, referrer : Members] \cup {NoApply}]
           /\ crossed' \in BOOLEAN
<1>1. [at |-> "count", user |-> u, referrer |-> owner] \in Requests
  BY DEF Requests
<1>2. apply \in [Applies -> Requests \cup {NoApply}] /\ crossed \in BOOLEAN
  BY DEF ReferralTypeOK, Requests
<1>3. apply' \in [Applies -> Requests \cup {NoApply}]
  BY <1>1, <1>2 DEF StartApply
<1>4. crossed' \in BOOLEAN
  BY <1>2, Zenon DEF StartApply
<1> QED BY <1>3, <1>4 DEF Requests

(* What the consumer of match.ended carries.                               *)
LEMMA PersistType ==
    ASSUME ReferralTypeOK, persist.at # "idle"
    PROVE  /\ persist \in PersistSteps
           /\ persist.user \in Members
           /\ persist.seen \in Members \cup {Nobody}
           /\ persist.at \in {"read", "count", "ack"}
<1>1. persist # NoPersist
  BY DEF NoPersist
<1>2. persist \in PersistSteps
  BY <1>1 DEF ReferralTypeOK, PersistSteps
<1> QED BY <1>2 DEF PersistSteps

(* The consumer carries a referrer to the count: it has read one.          *)
SeenReferrer == persist.at = "count" => persist.seen \in Members

(* A document can be converted without its fields losing their types.      *)
LEMMA ConvertedType ==
    ASSUME ReferralTypeOK, NEW r \in Members, referral[r].status = "pending"
    PROVE  /\ [referral[r] EXCEPT !.status = "converted"] =
                [referrer |-> referral[r].referrer, status |-> "converted"]
           /\ [referral[r] EXCEPT !.status = "converted"] \in Documents
<1> DEFINE d == referral[r]
<1>1. d \in [referrer : Members, status : {"pending", "converted"}]
  BY DEF ReferralTypeOK, Documents, NoDocument
<1> HIDE DEF d
<1>2. /\ [d EXCEPT !.status = "converted"] =
           [referrer |-> d.referrer, status |-> "converted"]
      /\ [d EXCEPT !.status = "converted"] \in Documents
  BY <1>1 DEF Documents
<1> QED BY <1>2 DEF d

(* Nothing is under way when the services start.                           *)
LEMMA InitTyped ==
    ASSUME ReferralInit
    PROVE  ReferralTypeOK /\ SeenReferrer
<1>1. referral \in [Members -> Documents]
  BY DEF ReferralInit, Documents
<1>2. /\ referredBy \in [Members -> Members \cup {Nobody}]
      /\ apply \in [Applies -> Requests \cup {NoApply}]
      /\ persist \in PersistSteps \cup {NoPersist}
      /\ reward \in RewardSteps \cup {NoReward}
      /\ events \subseteq ReferralEvents
      /\ matches \in [Members -> Nat] /\ toReferee \in [Members -> Nat]
  BY DEF ReferralInit
<1>3. toReferrer \in [Members -> Seq(Members)]
  BY DEF ReferralInit
<1>4. /\ account \in [Members -> {"none", "guest", "full"}]
      /\ crossed \in BOOLEAN /\ failed \in BOOLEAN
  BY DEF ReferralInit
<1>5. SeenReferrer
  BY DEF ReferralInit, SeenReferrer, NoPersist
<1> QED BY <1>1, <1>2, <1>3, <1>4, <1>5
           DEF ReferralTypeOK, Requests, PersistSteps, RewardSteps

(* Every reachable state is well typed, and what the consumer counts a     *)
(* referral for has a referrer.                                            *)
LEMMA TypeInvariant == ReferralSpec => [](ReferralTypeOK /\ SeenReferrer)
<1>1. ReferralInit => ReferralTypeOK /\ SeenReferrer
  BY InitTyped
<1>2. ReferralTypeOK /\ SeenReferrer /\ [ReferralNext]_referralVars
        => ReferralTypeOK'
  <2> SUFFICES ASSUME ReferralTypeOK, SeenReferrer, [ReferralNext]_referralVars
               PROVE  ReferralTypeOK'
    OBVIOUS
  <2>a. /\ apply \in [Applies -> Requests \cup {NoApply}]
        /\ persist \in PersistSteps \cup {NoPersist}
        /\ reward \in RewardSteps \cup {NoReward}
        /\ referral \in [Members -> Documents]
        /\ failed \in BOOLEAN
    BY DEF ReferralTypeOK, Requests, PersistSteps, RewardSteps
  <2>t. ASSUME apply' \in [Applies -> Requests \cup {NoApply}],
               persist' \in PersistSteps \cup {NoPersist},
               reward' \in RewardSteps \cup {NoReward},
               account' \in [Members -> {"none", "guest", "full"}],
               referredBy' \in [Members -> Members \cup {Nobody}],
               referral' \in [Members -> Documents],
               matches' \in [Members -> Nat], events' \subseteq ReferralEvents,
               toReferrer' \in [Members -> Seq(Members)],
               toReferee' \in [Members -> Nat],
               crossed' \in BOOLEAN, failed' \in BOOLEAN
        PROVE  ReferralTypeOK'
    BY <2>t DEF ReferralTypeOK, Requests, PersistSteps, RewardSteps
  <2>u. /\ account \in [Members -> {"none", "guest", "full"}]
        /\ referredBy \in [Members -> Members \cup {Nobody}]
        /\ matches \in [Members -> Nat] /\ events \subseteq ReferralEvents
        /\ toReferrer \in [Members -> Seq(Members)]
        /\ toReferee \in [Members -> Nat]
        /\ crossed \in BOOLEAN
    BY DEF ReferralTypeOK
  <2>1. ASSUME NEW a \in Applies, NEW u \in Referees, NEW owner \in Members,
               SignUpWith(a, u, owner) \/ ApplyCode(a, u, owner)
        PROVE  ReferralTypeOK'
    <3>1. u \in Members /\ StartApply(a, u, owner)
      BY <2>1, RefereesAssumption DEF SignUpWith, ApplyCode
    <3>2. account' \in [Members -> {"none", "guest", "full"}]
      BY <2>1, <2>u, <3>1 DEF SignUpWith, ApplyCode
    <3>3. UNCHANGED <<referredBy, referral, matches, persist, events, reward,
                      toReferrer, toReferee, failed>>
      BY <2>1 DEF SignUpWith, ApplyCode
    <3>4. apply' \in [Applies -> Requests \cup {NoApply}] /\ crossed' \in BOOLEAN
      BY <3>1, StartType DEF Requests
    <3> QED BY <2>a, <2>t, <2>u, <3>2, <3>3, <3>4
  <2>2. ASSUME NEW a \in Applies, CountConverted(a) PROVE ReferralTypeOK'
    <3>1. apply[a] # NoApply
      BY <2>2 DEF CountConverted, NoApply
    <3>2. [apply[a] EXCEPT !.at = "insert"] \in Requests
      BY <3>1, ApplyType
    <3>3. apply' \in [Applies -> Requests \cup {NoApply}]
      BY <2>2, <2>a, <3>2 DEF CountConverted
    <3> QED BY <2>2, <2>a, <2>t, <2>u, <3>3 DEF CountConverted
  <2>3. ASSUME NEW a \in Applies, InsertReferral(a) PROVE ReferralTypeOK'
    <3>1. apply[a] # NoApply
      BY <2>3 DEF InsertReferral, NoApply
    <3>2. [apply[a] EXCEPT !.at = "set"] \in Requests
      BY <3>1, ApplyType
    <3>3. apply' \in [Applies -> Requests \cup {NoApply}]
      BY <2>3, <2>a, <3>2 DEF InsertReferral
    <3>4. [referrer |-> apply[a].referrer, status |-> "pending"] \in Documents
      BY <3>1, ApplyType DEF Documents
    <3>5. referral' \in [Members -> Documents]
      BY <2>3, <2>a, <3>4 DEF InsertReferral
    <3>6. failed' \in BOOLEAN
      BY <2>3, <2>a DEF InsertReferral
    <3> QED BY <2>3, <2>a, <2>t, <2>u, <3>3, <3>5, <3>6 DEF InsertReferral
  <2>4. ASSUME NEW a \in Applies, SetReferredBy(a) PROVE ReferralTypeOK'
    <3>1. apply[a] # NoApply
      BY <2>4 DEF SetReferredBy, NoApply
    <3>2. referredBy' \in [Members -> Members \cup {Nobody}]
      BY <2>4, <2>u, <3>1, ApplyType DEF SetReferredBy
    <3>3. failed' \in BOOLEAN
      BY <2>4, <2>a DEF SetReferredBy
    <3>4. apply' \in [Applies -> Requests \cup {NoApply}]
      BY <2>4, <2>a DEF SetReferredBy
    <3> QED BY <2>4, <2>a, <2>t, <2>u, <3>2, <3>3, <3>4 DEF SetReferredBy
  <2>5. ASSUME NEW u \in Referees, LinkGuest(u) PROVE ReferralTypeOK'
    <3>1. account' \in [Members -> {"none", "guest", "full"}]
      BY <2>5, <2>u DEF LinkGuest
    <3> QED BY <2>5, <2>a, <2>t, <2>u, <3>1 DEF LinkGuest
  <2>6. ASSUME NEW u \in Referees, MatchPersisted(u) PROVE ReferralTypeOK'
    <3>1. u \in Members
      BY RefereesAssumption
    <3>2. persist' \in PersistSteps
      BY <2>6, <3>1 DEF MatchPersisted, PersistSteps
    <3>3. matches' \in [Members -> Nat]
      BY <2>6, <2>u, <3>1 DEF MatchPersisted
    <3> QED BY <2>6, <2>a, <2>t, <2>u, <3>2, <3>3 DEF MatchPersisted
  <2>7. CASE ReadReferredBy
    <3>1. persist.at # "idle"
      BY <2>7 DEF ReadReferredBy
    <3>2. persist \in PersistSteps /\ referredBy[persist.user] \in Members \cup {Nobody}
      BY <2>u, <3>1, PersistType
    <3>3. [persist EXCEPT !.at = "count", !.seen = referredBy[persist.user]]
            \in PersistSteps
      BY <3>2 DEF PersistSteps
    <3>4. persist' \in PersistSteps \cup {NoPersist}
      BY <2>7, <3>3 DEF ReadReferredBy
    <3> QED BY <2>7, <2>a, <2>t, <2>u, <3>4 DEF ReadReferredBy
  <2>8. CASE PublishFirstMatch
    <3>1. persist.at # "idle" /\ persist.at = "count"
      BY <2>8 DEF PublishFirstMatch
    <3>2. persist \in PersistSteps
      BY <3>1, PersistType
    <3>3. [persist EXCEPT !.at = "ack"] \in PersistSteps
      BY <3>2 DEF PersistSteps
    <3>4. persist' \in PersistSteps
      BY <2>8, <3>3 DEF PublishFirstMatch
    <3>5. [referrer |-> persist.seen, referee |-> persist.user] \in ReferralEvents
      BY <3>1, PersistType DEF SeenReferrer, ReferralEvents
    <3>6. events' \subseteq ReferralEvents
      BY <2>8, <2>u, <3>5 DEF PublishFirstMatch
    <3>7. failed' \in BOOLEAN
      BY <2>8, <2>a DEF PublishFirstMatch
    <3> QED BY <2>8, <2>a, <2>t, <2>u, <3>4, <3>6, <3>7 DEF PublishFirstMatch
  <2>9. CASE AckMatchEnded
    BY <2>9, <2>a, <2>t, <2>u DEF AckMatchEnded
  <2>10. CASE ConvertReferral
    <3>1. PICK event \in events :
            \/ /\ referral[event.referee].status = "pending"
               /\ referral' = [referral EXCEPT
                                 ![event.referee].status = "converted"]
               /\ reward' = [at |-> "payReferrer", event |-> event]
               /\ UNCHANGED <<events, failed>>
            \/ /\ events' = events \ {event}
               /\ failed' \in {failed, TRUE}
               /\ UNCHANGED <<referral, reward>>
      BY <2>10 DEF ConvertReferral, ConvertFrom
    <3>2. event \in ReferralEvents /\ event.referee \in Members
      BY <2>u, <3>1 DEF ReferralEvents
    <3>3. referral' \in [Members -> Documents]
      BY <2>a, <3>1, <3>2, ConvertedType
    <3>4. [at |-> "payReferrer", event |-> event] \in RewardSteps
      BY <3>2 DEF RewardSteps
    <3>5. reward' \in RewardSteps \cup {NoReward}
      BY <2>a, <3>1, <3>4
    <3>6. events' \subseteq ReferralEvents /\ failed' \in BOOLEAN
      BY <2>a, <2>u, <3>1
    <3> QED BY <2>10, <2>a, <2>t, <2>u, <3>3, <3>5, <3>6
               DEF ConvertReferral, ConvertFrom
  <2>11. CASE PayReferrer
    <3>1. reward.at # "idle"
      BY <2>11 DEF PayReferrer
    <3>2. reward \in RewardSteps
      BY <2>a, <3>1 DEF NoReward
    <3>3. reward' \in RewardSteps
      BY <2>11, <3>2 DEF PayReferrer, RewardSteps
    <3>r. reward.event.referee \in Members /\ reward.event.referrer \in Members
      BY <3>1, RewardType
    <3>a. Append(toReferrer[reward.event.referee], reward.event.referrer)
            \in Seq(Members)
      BY <2>u, <3>r
    <3>4. toReferrer' \in [Members -> Seq(Members)]
      BY <2>11, <2>u, <3>a DEF PayReferrer
    <3>5. failed' \in BOOLEAN
      BY <2>11, <2>a DEF PayReferrer
    <3> QED BY <2>11, <2>a, <2>t, <2>u, <3>3, <3>4, <3>5 DEF PayReferrer
  <2>12. CASE PayReferee
    <3>1. reward.at # "idle"
      BY <2>12 DEF PayReferee
    <3>2. reward \in RewardSteps
      BY <2>a, <3>1 DEF NoReward
    <3>3. reward' \in RewardSteps
      BY <2>12, <3>2 DEF PayReferee, RewardSteps
    <3>r. reward.event.referee \in Members
      BY <3>1, RewardType
    <3>a. toReferee \in [Members -> Nat]
      BY <2>u
    <3>b. [toReferee EXCEPT ![reward.event.referee] = @ + 1] \in [Members -> Nat]
      BY <3>a, <3>r
    <3>4. toReferee' \in [Members -> Nat]
      BY <2>12, <3>a, <3>b DEF PayReferee
    <3>5. failed' \in BOOLEAN
      BY <2>12, <2>a DEF PayReferee
    <3> QED BY <2>12, <2>a, <2>t, <2>u, <3>3, <3>4, <3>5 DEF PayReferee
  <2>13. CASE AckReferralEvent
    <3>1. events' \subseteq ReferralEvents /\ reward' = NoReward
      BY <2>13, <2>u DEF AckReferralEvent
    <3> QED BY <2>13, <2>a, <2>t, <2>u, <3>1 DEF AckReferralEvent
  <2>14. CASE RestartScoring
    <3>1. persist # NoPersist => [persist EXCEPT !.at = "read", !.seen = Nobody]
                                   \in PersistSteps
      BY <2>a DEF PersistSteps
    <3>2. persist' \in PersistSteps \cup {NoPersist}
      BY <2>14, <3>1 DEF RestartScoring
    <3> QED BY <2>14, <2>a, <2>t, <2>u, <3>2 DEF RestartScoring
  <2>15. CASE UNCHANGED referralVars
    BY <2>15, <2>a, <2>t, <2>u DEF referralVars
  <2> QED BY <2>1, <2>2, <2>3, <2>4, <2>5, <2>6, <2>7, <2>8, <2>9, <2>10,
             <2>11, <2>12, <2>13, <2>14, <2>15 DEF ReferralNext
<1>3. ReferralTypeOK /\ SeenReferrer /\ [ReferralNext]_referralVars
        => SeenReferrer'
  <2> SUFFICES ASSUME ReferralTypeOK, SeenReferrer, [ReferralNext]_referralVars,
                      persist'.at = "count"
               PROVE  persist'.seen \in Members
    BY DEF SeenReferrer
  <2>1. CASE UNCHANGED persist
    BY <2>1 DEF SeenReferrer
  <2>2. CASE ReadReferredBy
    <3>1. persist.at # "idle" /\ persist' # NoPersist
      BY <2>2 DEF ReadReferredBy, NoPersist
    <3>2. persist \in PersistSteps /\ referredBy[persist.user] \in Members \cup {Nobody}
      BY <3>1, PersistType DEF ReferralTypeOK
    <3>3. referredBy[persist.user] # Nobody
      BY <2>2, <3>1 DEF ReadReferredBy
    <3>a. persist' = [persist EXCEPT !.at = "count",
                                     !.seen = referredBy[persist.user]]
      BY <2>2, <3>3 DEF ReadReferredBy
    <3>4. persist'.seen = referredBy[persist.user]
      BY <3>2, <3>a DEF PersistSteps
    <3> QED BY <3>2, <3>3, <3>4
  <2>3. CASE persist' # persist /\ ~ ReadReferredBy
    <3>1. persist'.at # "count"
      <4>1. ASSUME NEW u \in Referees, MatchPersisted(u) PROVE persist'.at # "count"
        BY <4>1 DEF MatchPersisted
      <4>2. CASE PublishFirstMatch
        <5>1. persist.at # "idle"
          BY <4>2 DEF PublishFirstMatch
        <5>2. persist \in PersistSteps
          BY <5>1, PersistType
        <5> QED BY <4>2, <5>2 DEF PublishFirstMatch, PersistSteps
      <4>3. CASE AckMatchEnded
        BY <4>3 DEF AckMatchEnded, NoPersist
      <4>4. CASE RestartScoring
        <5>1. persist # NoPersist => persist \in PersistSteps
          BY DEF ReferralTypeOK, PersistSteps
        <5> QED BY <4>4, <5>1 DEF RestartScoring, NoPersist, PersistSteps
      <4> QED BY <2>3, <4>1, <4>2, <4>3, <4>4
                 DEF ReferralNext, SignUpWith, ApplyCode, CountConverted,
                     InsertReferral, SetReferredBy, LinkGuest, ConvertReferral,
                     ConvertFrom, PayReferrer, PayReferee, AckReferralEvent,
                     referralVars
    <3> QED BY <3>1
  <2> QED BY <2>1, <2>2, <2>3
<1> QED BY <1>1, <1>2, <1>3, PTL DEF ReferralSpec

(* Every reachable state is well typed: documents, requests, events and    *)
(* payments stay what the services write.                                  *)
THEOREM ReferralTyped == ReferralSpec => []ReferralTypeOK
<1> QED BY TypeInvariant, PTL

-----------------------------------------------------------------------------
(* A referral pays each side at most once.                                 *)

(* A referee is unpaid until its document is converted, paid for at most   *)
(* once, and unpaid still when the consumer is about to pay.               *)
PaidOnce(r) ==
    /\ Len(toReferrer[r]) <= 1 /\ toReferee[r] <= 1
    /\ referral[r].status # "converted" => toReferrer[r] = <<>> /\ toReferee[r] = 0
    /\ reward.at \in {"payReferrer", "payReferee"} /\ reward.event.referee = r =>
         referral[r].status = "converted" /\ toReferee[r] = 0
    /\ reward.at = "payReferrer" /\ reward.event.referee = r => toReferrer[r] = <<>>

PaysInv == ReferralTypeOK /\ \A r \in Members : PaidOnce(r)

(* A step that pays or converts a referral, or starts one.                 *)
LEMMA PaysStep ==
    ASSUME PaysInv, [ReferralNext]_referralVars, ReferralTypeOK'
    PROVE  PaysInv'
<1> SUFFICES ASSUME NEW r \in Members PROVE PaidOnce(r)'
  BY DEF PaysInv
<1>1. ReferralTypeOK /\ PaidOnce(r)
  BY DEF PaysInv
<1>2. /\ toReferrer \in [Members -> Seq(Members)] /\ toReferee \in [Members -> Nat]
      /\ referral \in [Members -> Documents]
  BY <1>1 DEF ReferralTypeOK
<1>3. CASE UNCHANGED <<referral, reward, toReferrer, toReferee>>
  BY <1>1, <1>3 DEF PaidOnce
<1>4. ASSUME NEW a \in Applies, InsertReferral(a) PROVE PaidOnce(r)'
  <2>1. apply[a] # NoApply
    BY <1>4 DEF InsertReferral, NoApply
  <2>2. apply[a].user \in Members
    BY <1>1, <2>1, ApplyType
  <2>3. UNCHANGED <<reward, toReferrer, toReferee>>
    BY <1>4 DEF InsertReferral
  <2>4. CASE referral' = referral
    BY <1>1, <2>3, <2>4 DEF PaidOnce
  <2>5. CASE /\ referral[apply[a].user] = NoDocument
             /\ referral' = [referral EXCEPT ![apply[a].user] =
                  [referrer |-> apply[a].referrer, status |-> "pending"]]
    <3>1. CASE r # apply[a].user
      <4>1. referral'[r] = referral[r]
        BY <1>2, <2>5, <3>1
      <4> QED BY <1>1, <2>3, <4>1 DEF PaidOnce
    <3>2. CASE r = apply[a].user
      <4>1. referral'[r].status = "pending" /\ referral[r].status = "none"
        BY <1>2, <2>5, <3>2 DEF NoDocument
      <4> QED BY <1>1, <2>3, <4>1 DEF PaidOnce
    <3> QED BY <3>1, <3>2
  <2> QED BY <1>4, <2>4, <2>5 DEF InsertReferral
<1>5. CASE ConvertReferral
  <2>1. PICK event \in events :
          \/ /\ referral[event.referee].status = "pending"
             /\ referral' = [referral EXCEPT ![event.referee].status = "converted"]
             /\ reward' = [at |-> "payReferrer", event |-> event]
          \/ UNCHANGED <<referral, reward>>
    BY <1>5 DEF ConvertReferral, ConvertFrom
  <2>2. UNCHANGED <<toReferrer, toReferee>> /\ reward = NoReward
    BY <1>5 DEF ConvertReferral, ConvertFrom
  <2>3. CASE UNCHANGED <<referral, reward>>
    BY <1>3, <2>2, <2>3
  <2>4. CASE /\ referral[event.referee].status = "pending"
             /\ referral' = [referral EXCEPT ![event.referee].status = "converted"]
             /\ reward' = [at |-> "payReferrer", event |-> event]
    <3>1. event.referee \in Members
      BY <1>1, <2>1 DEF ReferralTypeOK, ReferralEvents
    <3>2. CASE r # event.referee
      <4>1. referral'[r] = referral[r]
        BY <1>2, <2>4, <3>2
      <4> QED BY <1>1, <2>2, <2>4, <3>2, <4>1 DEF PaidOnce
    <3>3. CASE r = event.referee
      <4>1. referral'[r] = [referrer |-> referral[r].referrer, status |-> "converted"]
        BY <1>1, <1>2, <2>4, <3>1, <3>3, ConvertedType
      <4>2. referral'[r].status = "converted" /\ referral[r].status = "pending"
        BY <2>4, <3>3, <4>1
      <4> QED BY <1>1, <2>2, <2>4, <4>2 DEF PaidOnce
    <3> QED BY <3>2, <3>3
  <2> QED BY <2>1, <2>3, <2>4
<1>6. CASE PayReferrer
  <2>1. reward.at = "payReferrer" /\ reward.event.referee \in Members
    BY <1>1, <1>6, RewardType DEF PayReferrer
  <2>2. reward \in RewardSteps
    BY <1>1, <2>1 DEF ReferralTypeOK, RewardSteps, NoReward
  <2>3. reward' = [reward EXCEPT !.at = "payReferee"]
    BY <1>6 DEF PayReferrer
  <2>4. reward'.at = "payReferee" /\ reward'.event = reward.event
    BY <2>2, <2>3 DEF RewardSteps
  <2>5. UNCHANGED <<referral, toReferee>>
    BY <1>6 DEF PayReferrer
  <2>6. CASE toReferrer'[r] = toReferrer[r]
    BY <1>1, <2>1, <2>4, <2>5, <2>6 DEF PaidOnce
  <2>7. CASE /\ r = reward.event.referee
             /\ toReferrer'[r] = Append(toReferrer[r], reward.event.referrer)
    <3>1. toReferrer[r] = <<>> /\ referral[r].status = "converted"
      BY <1>1, <2>1, <2>7 DEF PaidOnce
    <3>2. toReferrer'[r] = <<reward.event.referrer>>
      BY <2>7, <3>1
    <3>3. Len(toReferrer'[r]) = 1
      BY <3>2
    <3> QED BY <1>1, <2>1, <2>4, <2>5, <2>7, <3>1, <3>3 DEF PaidOnce
  <2> QED BY <1>2, <1>6, <2>1, <2>6, <2>7 DEF PayReferrer
<1>7. CASE PayReferee
  <2>1. reward.at = "payReferee" /\ reward.event.referee \in Members
    BY <1>1, <1>7, RewardType DEF PayReferee
  <2>2. reward \in RewardSteps
    BY <1>1, <2>1 DEF ReferralTypeOK, RewardSteps, NoReward
  <2>3. reward' = [reward EXCEPT !.at = "ack"]
    BY <1>7 DEF PayReferee
  <2>4. reward'.at = "ack"
    BY <2>2, <2>3 DEF RewardSteps
  <2>5. UNCHANGED <<referral, toReferrer>>
    BY <1>7 DEF PayReferee
  <2>6. CASE toReferee'[r] = toReferee[r]
    BY <1>1, <2>4, <2>5, <2>6 DEF PaidOnce
  <2>7. CASE r = reward.event.referee /\ toReferee'[r] = toReferee[r] + 1
    <3>1. toReferee[r] = 0 /\ referral[r].status = "converted"
      BY <1>1, <2>1, <2>7 DEF PaidOnce
    <3> QED BY <1>1, <2>4, <2>5, <2>7, <3>1 DEF PaidOnce
  <2> QED BY <1>2, <1>7, <2>1, <2>6, <2>7 DEF PayReferee
<1>8. CASE reward' = NoReward /\ UNCHANGED <<referral, toReferrer, toReferee>>
  BY <1>1, <1>8 DEF PaidOnce, NoReward
<1> QED BY <1>3, <1>4, <1>5, <1>6, <1>7, <1>8
           DEF ReferralNext, SignUpWith, ApplyCode, CountConverted, SetReferredBy,
               LinkGuest, MatchPersisted, ReadReferredBy, PublishFirstMatch,
               AckMatchEnded, AckReferralEvent, RestartScoring, referralVars

(* However often match.ended or the event is delivered and wherever        *)
(* scoring crashes, a referral pays its referrer and its referee at most   *)
(* once, and nobody before its document is converted.                      *)
THEOREM ReferralPaid == ReferralSpec => []ReferralPaysOnce
<1>1. ReferralInit => PaysInv
  <2> SUFFICES ASSUME ReferralInit PROVE PaysInv
    OBVIOUS
  <2>1. ReferralTypeOK
    BY InitTyped
  <2>2. ASSUME NEW r \in Members PROVE PaidOnce(r)
    BY <2>2 DEF ReferralInit, PaidOnce, NoReward, NoDocument
  <2> QED BY <2>1, <2>2 DEF PaysInv
<1>2. PaysInv /\ ReferralTypeOK' /\ [ReferralNext]_referralVars => PaysInv'
  BY PaysStep
<1>3. PaysInv => ReferralPaysOnce
  BY DEF PaysInv, PaidOnce, ReferralPaysOnce
<1> QED BY <1>1, <1>2, <1>3, ReferralTyped, PTL DEF ReferralSpec

-----------------------------------------------------------------------------
(* What the dashboard shows was paid.                                      *)

(* What is known of a request under way: it found its user unreferred,     *)
(* and its document is written before the user.                            *)
RequestKnows(a) ==
    /\ apply[a].at \in {"count", "insert"} =>
         /\ referral[apply[a].user] = NoDocument
         /\ referredBy[apply[a].user] = Nobody
    /\ apply[a].at = "set" => referral[apply[a].user].referrer = apply[a].referrer
    /\ apply[a] # NoApply => account[apply[a].user] # "none"
    /\ \A b \in Applies : apply[a] # NoApply /\ apply[b].user = apply[a].user => b = a

(* A user's referrer is its document's, unless a request is between the    *)
(* two writes.                                                             *)
ReferrerAgrees(u) ==
    /\ referredBy[u] # Nobody => referral[u].referrer = referredBy[u]
    /\ referral[u] # NoDocument /\ referredBy[u] = Nobody =>
         \E a \in Applies : apply[a].at = "set" /\ apply[a].user = u
    /\ account[u] = "none" => referral[u] = NoDocument /\ referredBy[u] = Nobody

(* What is carried to the payment names the document's referrer.           *)
CarriedAgrees ==
    /\ persist.at = "count" => persist.seen = referral[persist.user].referrer
    /\ \A event \in events : event.referrer = referral[event.referee].referrer
    /\ reward.at = "payReferrer" =>
         reward.event.referrer = referral[reward.event.referee].referrer

(* Whoever was paid is the document's referrer, and a converted document   *)
(* was paid for or is about to be.                                         *)
PaidAgrees(r) ==
    /\ toReferrer[r] # <<>> => toReferrer[r] = <<referral[r].referrer>>
    /\ referral[r].status = "converted" =>
         \/ toReferrer[r] # <<>>
         \/ reward.at = "payReferrer" /\ reward.event.referee = r

CleanInv ==
    /\ \A a \in Applies : RequestKnows(a)
    /\ \A u \in Members : ReferrerAgrees(u)
    /\ CarriedAgrees
    /\ \A r \in Members : PaidAgrees(r)

ReferralInv ==
    /\ PaysInv /\ SeenReferrer
    /\ ~ failed /\ ~ crossed => CleanInv

(* Nothing has failed or crossed after a step only if nothing had before.  *)
LEMMA CleanBefore ==
    ASSUME ReferralTypeOK, [ReferralNext]_referralVars, ~ failed', ~ crossed'
    PROVE  ~ failed /\ ~ crossed
<1>1. ~ crossed
  BY DEF ReferralNext, SignUpWith, ApplyCode, StartApply, CountConverted,
         InsertReferral, SetReferredBy, LinkGuest, MatchPersisted, ReadReferredBy,
         PublishFirstMatch, AckMatchEnded, ConvertReferral, ConvertFrom,
         PayReferrer, PayReferee, AckReferralEvent, RestartScoring, referralVars
<1>2. ~ failed
  BY DEF ReferralNext, SignUpWith, ApplyCode, CountConverted,
         InsertReferral, SetReferredBy, LinkGuest, MatchPersisted, ReadReferredBy,
         PublishFirstMatch, AckMatchEnded, ConvertReferral, ConvertFrom,
         PayReferrer, PayReferee, AckReferralEvent, RestartScoring, referralVars
<1> QED BY <1>1, <1>2

(* A document keeps its referrer; a missing one is only inserted.          *)
LEMMA DocumentsKept ==
    ASSUME ReferralTypeOK, [ReferralNext]_referralVars, NEW r \in Members
    PROVE  /\ referral[r] # NoDocument =>
                /\ referral'[r] # NoDocument
                /\ referral'[r].referrer = referral[r].referrer
           /\ referral[r] = NoDocument =>
                \/ referral'[r] = NoDocument
                \/ \E a \in Applies : InsertReferral(a) /\ apply[a].user = r
           /\ referral'[r].status = "converted" =>
                \/ referral[r].status = "converted"
                \/ reward'.at = "payReferrer" /\ reward'.event.referee = r
<1>2. referral \in [Members -> Documents]
  BY DEF ReferralTypeOK
<1>3. CASE UNCHANGED referral
  BY <1>3
<1>4. ASSUME NEW a \in Applies, InsertReferral(a)
      PROVE  /\ referral[r] # NoDocument => referral'[r] = referral[r]
             /\ referral[r] = NoDocument =>
                  referral'[r] = NoDocument \/ apply[a].user = r
             /\ referral'[r].status = "converted" => referral'[r] = referral[r]
  <2>1. CASE referral' = referral
    BY <2>1
  <2>2. CASE /\ referral[apply[a].user] = NoDocument
             /\ referral' = [referral EXCEPT ![apply[a].user] =
                  [referrer |-> apply[a].referrer, status |-> "pending"]]
    <3>1. CASE r # apply[a].user
      BY <1>2, <2>2, <3>1
    <3>2. CASE r = apply[a].user
      <4>1. referral'[r].status = "pending"
        BY <1>2, <2>2, <3>2
      <4> QED BY <2>2, <3>2, <4>1
    <3> QED BY <3>1, <3>2
  <2> QED BY <1>4, <2>1, <2>2 DEF InsertReferral
<1>5. CASE ConvertReferral
  <2>1. PICK event \in events :
          \/ /\ referral[event.referee].status = "pending"
             /\ referral' = [referral EXCEPT ![event.referee].status = "converted"]
             /\ reward' = [at |-> "payReferrer", event |-> event]
          \/ UNCHANGED <<referral, reward>>
    BY <1>5 DEF ConvertReferral, ConvertFrom
  <2>2. CASE UNCHANGED referral
    BY <2>2
  <2>3. CASE /\ referral[event.referee].status = "pending"
             /\ referral' = [referral EXCEPT ![event.referee].status = "converted"]
             /\ reward' = [at |-> "payReferrer", event |-> event]
    <3>1. event.referee \in Members
      BY <2>1 DEF ReferralTypeOK, ReferralEvents
    <3>2. CASE r # event.referee
      <4>1. referral'[r] = referral[r]
        BY <1>2, <2>3, <3>2
      <4> QED BY <4>1
    <3>3. CASE r = event.referee
      <4>1. referral'[r] = [referrer |-> referral[r].referrer, status |-> "converted"]
        BY <1>2, <2>3, <3>1, <3>3, ConvertedType
      <4>2. referral'[r] # NoDocument
        BY <4>1 DEF NoDocument
      <4>3. referral[r] # NoDocument
        BY <2>3, <3>3 DEF NoDocument
      <4>4. reward'.at = "payReferrer" /\ reward'.event.referee = r
        BY <2>3, <3>3
      <4> QED BY <4>1, <4>2, <4>3, <4>4
    <3> QED BY <3>2, <3>3
  <2> QED BY <2>1, <2>2, <2>3
<1> QED BY <1>3, <1>4, <1>5
           DEF ReferralNext, SignUpWith, ApplyCode, CountConverted, SetReferredBy,
               LinkGuest, MatchPersisted, ReadReferredBy, PublishFirstMatch,
               AckMatchEnded, PayReferrer, PayReferee, AckReferralEvent,
               RestartScoring, referralVars

(* A user who may start a request is referred by nobody and has no         *)
(* document, unless its requests cross.                                    *)
LEMMA StartClean ==
    ASSUME ReferralTypeOK, CleanInv, NEW a \in Applies, NEW u \in Members,
           NEW owner \in Members,
           SignUpWith(a, u, owner) \/ ApplyCode(a, u, owner), ~ crossed'
    PROVE  /\ referral[u] = NoDocument /\ referredBy[u] = Nobody
           /\ account'[u] # "none"
           /\ \A b \in Applies : apply[b].user # u
           /\ apply[a] = NoApply
           /\ apply' = [apply EXCEPT ![a] =
                          [at |-> "count", user |-> u, referrer |-> owner]]
<1>1. StartApply(a, u, owner)
  BY DEF SignUpWith, ApplyCode
<1>2. /\ \A b \in Applies : apply[b].user # u
      /\ apply[a] = NoApply
      /\ apply' = [apply EXCEPT ![a] =
                     [at |-> "count", user |-> u, referrer |-> owner]]
  BY <1>1 DEF StartApply
<1>3. ReferrerAgrees(u)
  BY DEF CleanInv
<1>4. account \in [Members -> {"none", "guest", "full"}]
  BY DEF ReferralTypeOK
<1>5. CASE SignUpWith(a, u, owner)
  BY <1>2, <1>3, <1>4, <1>5 DEF SignUpWith, ReferrerAgrees
<1>6. CASE ApplyCode(a, u, owner)
  <2>1. referredBy[u] = Nobody /\ account[u] = "full" /\ account' = account
    BY <1>6 DEF ApplyCode
  <2>2. referral[u] = NoDocument
    BY <1>2, <1>3, <2>1 DEF ReferrerAgrees
  <2> QED BY <1>2, <2>1, <2>2
<1> QED BY <1>5, <1>6

(* An account is never lost.                                               *)
LEMMA AccountKept ==
    ASSUME ReferralTypeOK, [ReferralNext]_referralVars, NEW u \in Members,
           account[u] # "none"
    PROVE  account'[u] # "none"
<1>1. account \in [Members -> {"none", "guest", "full"}]
  BY DEF ReferralTypeOK
<1>2. \/ account' = account
      \/ \E v \in Referees : account' = [account EXCEPT ![v] = "full"]
  BY DEF ReferralNext, SignUpWith, ApplyCode, CountConverted, InsertReferral,
         SetReferredBy, LinkGuest, MatchPersisted, ReadReferredBy,
         PublishFirstMatch, AckMatchEnded, ConvertReferral, ConvertFrom,
         PayReferrer, PayReferee, AckReferralEvent, RestartScoring, referralVars
<1> QED BY <1>1, <1>2

(* A request goes on with what it knew.                                    *)
LEMMA RequestsStep ==
    ASSUME ReferralTypeOK, ReferralTypeOK', CleanInv,
           [ReferralNext]_referralVars, ~ failed', ~ crossed', NEW a \in Applies
    PROVE  RequestKnows(a)'
<1>1. RequestKnows(a)
  BY DEF CleanInv
<1>2. apply \in [Applies -> Requests \cup {NoApply}]
  BY DEF ReferralTypeOK, Requests
<1>3. CASE apply'[a] = NoApply
  BY <1>3 DEF RequestKnows, NoApply
<1>4. ASSUME apply'[a] # NoApply, apply'[a] = apply[a],
             referredBy'[apply[a].user] = referredBy[apply[a].user],
             referral[apply[a].user] = NoDocument =>
               referral'[apply[a].user] = NoDocument,
             \A b \in Applies : apply'[b].user = apply[a].user => b = a
      PROVE  RequestKnows(a)'
  <2>1. apply[a].user \in Members /\ apply[a].referrer \in Members
    BY <1>4, ApplyType
  <2>2. apply[a].at = "set" => referral[apply[a].user] # NoDocument
    BY <1>1, <2>1, MembersAssumption DEF RequestKnows, NoDocument
  <2>3. referral[apply[a].user] # NoDocument =>
          referral'[apply[a].user].referrer = referral[apply[a].user].referrer
    BY <2>1, DocumentsKept
  <2>4. account'[apply[a].user] # "none"
    BY <1>1, <1>4, <2>1, AccountKept DEF RequestKnows
  <2> QED BY <1>1, <1>4, <2>2, <2>3, <2>4 DEF RequestKnows
<1>5. ASSUME NEW b \in Applies, NEW u \in Referees, NEW owner \in Members,
             SignUpWith(b, u, owner) \/ ApplyCode(b, u, owner)
      PROVE  RequestKnows(a)'
  <2>1. u \in Members
    BY RefereesAssumption
  <2>2. /\ referral[u] = NoDocument /\ referredBy[u] = Nobody
        /\ account'[u] # "none"
        /\ \A c \in Applies : apply[c].user # u
        /\ apply[b] = NoApply
        /\ apply' = [apply EXCEPT ![b] =
                       [at |-> "count", user |-> u, referrer |-> owner]]
    BY <1>5, <2>1, StartClean
  <2>3. UNCHANGED <<referral, referredBy>>
    BY <1>5 DEF SignUpWith, ApplyCode
  <2>4. CASE a = b
    <3>1. /\ apply'[a].at = "count" /\ apply'[a].user = u
      BY <1>2, <2>2, <2>4
    <3>2. \A c \in Applies : apply'[c].user = u => c = a
      BY <1>2, <2>2, <2>4
    <3> QED BY <2>2, <2>3, <3>1, <3>2 DEF RequestKnows
  <2>5. CASE a # b /\ apply[a] # NoApply
    <3>1. apply'[a] = apply[a] /\ apply[a].user # u
      BY <1>2, <2>2, <2>5
    <3>2. ASSUME NEW c \in Applies, apply'[c].user = apply[a].user PROVE c = a
      <4>1. c # b
        BY <1>2, <2>2, <3>1, <3>2
      <4>2. apply'[c] = apply[c]
        BY <1>2, <2>2, <4>1
      <4> QED BY <1>1, <2>5, <3>2, <4>2 DEF RequestKnows
    <3> QED BY <1>4, <2>3, <2>5, <3>1, <3>2
  <2>6. CASE a # b /\ apply[a] = NoApply
    BY <1>2, <1>3, <2>2, <2>6
  <2> QED BY <2>4, <2>5, <2>6
<1>6. ASSUME NEW b \in Applies,
             CountConverted(b) \/ InsertReferral(b) \/ SetReferredBy(b), a # b
      PROVE  RequestKnows(a)'
  <2>1. /\ apply[b] # NoApply
        /\ \A c \in Applies : c # b => apply'[c] = apply[c]
    BY <1>2, <1>6 DEF CountConverted, InsertReferral, SetReferredBy, NoApply
  <2>2. CASE apply[a] = NoApply
    BY <1>3, <1>6, <2>1, <2>2
  <2>3. CASE apply[a] # NoApply
    <3>1. apply[a].user \in Members /\ apply[b].user # apply[a].user
      BY <1>1, <1>6, <2>3, ApplyType DEF RequestKnows
    <3>a. \/ apply'[b] = NoApply
          \/ \E label \in {"insert", "set"} :
                apply'[b] = [apply[b] EXCEPT !.at = label]
      BY <1>2, <1>6 DEF CountConverted, InsertReferral, SetReferredBy
    <3>b. \A label \in {"insert", "set"} :
            [apply[b] EXCEPT !.at = label].user = apply[b].user
      BY <2>1, ApplyType
    <3>2. apply'[b] = NoApply \/ apply'[b].user = apply[b].user
      BY <3>a, <3>b
    <3>3. \A c \in Applies : apply'[c].user = apply[a].user => c = a
      BY <1>1, <2>1, <2>3, <3>1, <3>2, MembersAssumption DEF RequestKnows, NoApply
    <3>4. referredBy'[apply[a].user] = referredBy[apply[a].user]
      BY <1>6, <3>1 DEF ReferralTypeOK, CountConverted, InsertReferral, SetReferredBy
    <3>5. referral[apply[a].user] = NoDocument => referral'[apply[a].user] = NoDocument
      BY <1>6, <3>1 DEF ReferralTypeOK, CountConverted, InsertReferral, SetReferredBy
    <3> QED BY <1>4, <1>6, <2>1, <2>3, <3>3, <3>4, <3>5
  <2> QED BY <2>2, <2>3
<1>7. ASSUME CountConverted(a) PROVE RequestKnows(a)'
  <2>1. apply[a] # NoApply /\ apply[a].at = "count"
    BY <1>7 DEF CountConverted, NoApply
  <2>2. /\ \A c \in Applies : c # a => apply'[c] = apply[c]
        /\ apply'[a] # NoApply => apply'[a] = [apply[a] EXCEPT !.at = "insert"]
        /\ UNCHANGED <<account, referral, referredBy>>
    BY <1>2, <1>7 DEF CountConverted
  <2>3. CASE apply'[a] # NoApply
    <3>1. apply'[a].at = "insert" /\ apply'[a].user = apply[a].user
      BY <2>1, <2>2, <2>3, ApplyType
    <3>2. \A c \in Applies : apply'[c].user = apply[a].user => c = a
      BY <1>1, <2>1, <2>2 DEF RequestKnows
    <3> QED BY <1>1, <2>1, <2>2, <3>1, <3>2 DEF RequestKnows
  <2> QED BY <1>3, <2>3
<1>8. ASSUME InsertReferral(a) PROVE RequestKnows(a)'
  <2>1. apply[a] # NoApply /\ apply[a].at = "insert"
    BY <1>8 DEF InsertReferral, NoApply
  <2>2. apply[a].user \in Members
    BY <2>1, ApplyType
  <2>3. /\ \A c \in Applies : c # a => apply'[c] = apply[c]
        /\ apply'[a] = [apply[a] EXCEPT !.at = "set"]
        /\ UNCHANGED <<account, referredBy>>
    BY <1>2, <1>8 DEF InsertReferral
  <2>4. /\ apply'[a].at = "set" /\ apply'[a].user = apply[a].user
        /\ apply'[a].referrer = apply[a].referrer
    BY <2>1, <2>3, ApplyType
  <2>5. referral[apply[a].user] = NoDocument
    BY <1>1, <2>1 DEF RequestKnows
  <2>6. referral' = [referral EXCEPT ![apply[a].user] =
                      [referrer |-> apply[a].referrer, status |-> "pending"]]
    BY <1>8, <2>5 DEF InsertReferral
  <2>7. referral'[apply[a].user].referrer = apply[a].referrer
    BY <2>2, <2>6 DEF ReferralTypeOK
  <2>8. \A c \in Applies : apply'[c].user = apply[a].user => c = a
    BY <1>1, <2>1, <2>3 DEF RequestKnows
  <2> QED BY <1>1, <2>1, <2>3, <2>4, <2>7, <2>8 DEF RequestKnows
<1>9. ASSUME SetReferredBy(a) PROVE RequestKnows(a)'
  <2>1. apply'[a] = NoApply
    BY <1>2, <1>9 DEF SetReferredBy
  <2> QED BY <1>3, <2>1
<1>10. CASE UNCHANGED <<referredBy, apply>> /\ \A b \in Applies : ~ InsertReferral(b)
  <2>1. CASE apply[a] # NoApply
    <3>1. apply[a].user \in Members
      BY <2>1, ApplyType
    <3>2. referral[apply[a].user] = NoDocument => referral'[apply[a].user] = NoDocument
      BY <1>10, <3>1, DocumentsKept
    <3>3. \A b \in Applies : apply'[b].user = apply[a].user => b = a
      BY <1>1, <1>10, <2>1 DEF RequestKnows
    <3> QED BY <1>4, <1>10, <2>1, <3>2, <3>3
  <2> QED BY <1>3, <1>10, <2>1
<1>11. \/ \E b \in Applies, u \in Referees, owner \in Members :
            SignUpWith(b, u, owner) \/ ApplyCode(b, u, owner)
       \/ \E b \in Applies :
            CountConverted(b) \/ InsertReferral(b) \/ SetReferredBy(b)
       \/ UNCHANGED <<referredBy, apply>>
  BY DEF ReferralNext, LinkGuest, MatchPersisted, ReadReferredBy, PublishFirstMatch,
         AckMatchEnded, ConvertReferral, ConvertFrom, PayReferrer, PayReferee,
         AckReferralEvent, RestartScoring, referralVars
<1> QED BY <1>5, <1>6, <1>7, <1>8, <1>9, <1>10, <1>11

(* A user's referrer stays its document's.                                 *)
LEMMA ReferrersStep ==
    ASSUME ReferralTypeOK, ReferralTypeOK', CleanInv,
           [ReferralNext]_referralVars, ~ failed', ~ crossed', NEW u \in Members
    PROVE  ReferrerAgrees(u)'
<1>1. ReferrerAgrees(u)
  BY DEF CleanInv
<1>2. /\ apply \in [Applies -> Requests \cup {NoApply}]
      /\ referredBy \in [Members -> Members \cup {Nobody}]
      /\ referral \in [Members -> Documents]
  BY DEF ReferralTypeOK, Requests
<1>3. account'[u] = "none" => account[u] = "none"
  BY AccountKept
<1>4. ASSUME referredBy'[u] = referredBy[u],
             \A a \in Applies : InsertReferral(a) => apply[a].user # u,
             \A a \in Applies : apply[a].at = "set" /\ apply[a].user = u =>
                                  apply'[a] = apply[a]
      PROVE  ReferrerAgrees(u)'
  <2>1. referral[u] # NoDocument => /\ referral'[u] # NoDocument
                                    /\ referral'[u].referrer = referral[u].referrer
    BY DocumentsKept
  <2>2. referral[u] = NoDocument => referral'[u] = NoDocument
    BY <1>4, DocumentsKept
  <2>3. referredBy[u] # Nobody => referral[u] # NoDocument
    BY <1>1 DEF ReferrerAgrees, NoDocument
  <2>4. referredBy'[u] # Nobody => referral'[u].referrer = referredBy'[u]
    BY <1>1, <1>4, <2>1, <2>3 DEF ReferrerAgrees
  <2>5. referral'[u] # NoDocument /\ referredBy'[u] = Nobody =>
          \E a \in Applies : apply'[a].at = "set" /\ apply'[a].user = u
    BY <1>1, <1>4, <2>2 DEF ReferrerAgrees
  <2>6. account'[u] = "none" => referral'[u] = NoDocument /\ referredBy'[u] = Nobody
    BY <1>1, <1>3, <1>4, <2>2 DEF ReferrerAgrees
  <2> QED BY <2>4, <2>5, <2>6 DEF ReferrerAgrees
<1>5. ASSUME NEW b \in Applies, InsertReferral(b) PROVE ReferrerAgrees(u)'
  <2>1. /\ apply[b] # NoApply /\ apply[b].at = "insert"
        /\ UNCHANGED <<account, referredBy>>
        /\ \A c \in Applies : c # b => apply'[c] = apply[c]
        /\ apply'[b] = [apply[b] EXCEPT !.at = "set"]
    BY <1>2, <1>5 DEF InsertReferral, NoApply
  <2>2. CASE apply[b].user # u
    <3>1. \A a \in Applies : InsertReferral(a) => a = b
      <4>1. \A a \in Applies : InsertReferral(a) /\ a # b => apply'[a] = apply[a]
        BY <2>1
      <4>2. ASSUME NEW a \in Applies, InsertReferral(a), a # b PROVE FALSE
        <5>1. apply'[a] = [apply[a] EXCEPT !.at = "set"] /\ apply[a].at = "insert"
          BY <1>2, <4>2 DEF InsertReferral
        <5>2. apply'[a].at = "set"
          BY <5>1, <4>2, ApplyType DEF NoApply
        <5> QED BY <4>1, <4>2, <5>1, <5>2
      <4> QED BY <4>2
    <3>2. \A a \in Applies : apply[a].at = "set" => apply'[a] = apply[a]
      BY <2>1
    <3> QED BY <1>4, <2>1, <2>2, <3>1, <3>2
  <2>3. CASE apply[b].user = u
    <3>1. RequestKnows(b)
      BY DEF CleanInv
    <3>2. referredBy'[u] = Nobody /\ account'[u] # "none"
      BY <2>1, <2>3, <3>1 DEF RequestKnows
    <3>3. apply'[b].at = "set" /\ apply'[b].user = u
      BY <2>1, <2>3, ApplyType
    <3> QED BY <3>2, <3>3 DEF ReferrerAgrees
  <2> QED BY <2>2, <2>3
<1>6. ASSUME NEW b \in Applies, SetReferredBy(b) PROVE ReferrerAgrees(u)'
  <2>1. /\ apply[b] # NoApply /\ apply[b].at = "set"
        /\ UNCHANGED <<account, referral>>
        /\ \A c \in Applies : c # b => apply'[c] = apply[c]
        /\ referredBy' = [referredBy EXCEPT ![apply[b].user] = apply[b].referrer]
    BY <1>2, <1>6 DEF SetReferredBy, NoApply
  <2>2. apply[b].user \in Members /\ apply[b].referrer \in Members
    BY <2>1, ApplyType
  <2>3. CASE apply[b].user # u
    <3>1. referredBy'[u] = referredBy[u]
      BY <1>2, <2>1, <2>3
    <3>2. ReferrerAgrees(u)'
      <4>1. referral[u] # NoDocument /\ referredBy[u] = Nobody =>
              \E a \in Applies : apply'[a].at = "set" /\ apply'[a].user = u
        BY <1>1, <2>1, <2>3 DEF ReferrerAgrees
      <4> QED BY <1>1, <2>1, <3>1, <4>1 DEF ReferrerAgrees
    <3> QED BY <3>2
  <2>4. CASE apply[b].user = u
    <3>1. RequestKnows(b)
      BY DEF CleanInv
    <3>2. referredBy'[u] = apply[b].referrer /\ referredBy'[u] # Nobody
      BY <1>2, <2>1, <2>2, <2>4, MembersAssumption
    <3>3. referral'[u].referrer = apply[b].referrer /\ account'[u] # "none"
      BY <2>1, <2>4, <3>1 DEF RequestKnows
    <3> QED BY <3>2, <3>3 DEF ReferrerAgrees
  <2> QED BY <2>3, <2>4
<1>7. ASSUME NEW b \in Applies, apply[b].at # "set",
             \A c \in Applies : c # b => apply'[c] = apply[c],
             UNCHANGED <<referredBy, referral>>
      PROVE  ReferrerAgrees(u)'
  <2>1. referral[u] # NoDocument /\ referredBy[u] = Nobody =>
          \E a \in Applies : apply'[a].at = "set" /\ apply'[a].user = u
    BY <1>1, <1>7 DEF ReferrerAgrees
  <2> QED BY <1>1, <1>3, <1>7, <2>1 DEF ReferrerAgrees
<1>8. ASSUME NEW b \in Applies, CountConverted(b) PROVE ReferrerAgrees(u)'
  <2>1. /\ apply[b].at # "set"
        /\ \A c \in Applies : c # b => apply'[c] = apply[c]
        /\ UNCHANGED <<referredBy, referral>>
    BY <1>2, <1>8 DEF CountConverted
  <2> QED BY <1>7, <2>1
<1>9. ASSUME NEW b \in Applies, NEW v \in Referees, NEW owner \in Members,
             SignUpWith(b, v, owner) \/ ApplyCode(b, v, owner)
      PROVE  ReferrerAgrees(u)'
  <2>1. StartApply(b, v, owner) /\ UNCHANGED <<referredBy, referral>>
    BY <1>9 DEF SignUpWith, ApplyCode
  <2>2. apply[b].at # "set"
    BY <2>1 DEF StartApply, NoApply
  <2>3. \A c \in Applies : c # b => apply'[c] = apply[c]
    BY <1>2, <2>1 DEF StartApply
  <2> QED BY <1>7, <2>1, <2>2, <2>3
<1>10. CASE UNCHANGED <<referredBy, apply>> /\ \A b \in Applies : ~ InsertReferral(b)
  BY <1>4, <1>10
<1>11. \/ \E b \in Applies, v \in Referees, owner \in Members :
            SignUpWith(b, v, owner) \/ ApplyCode(b, v, owner)
       \/ \E b \in Applies :
            CountConverted(b) \/ InsertReferral(b) \/ SetReferredBy(b)
       \/ UNCHANGED <<referredBy, apply>>
  BY DEF ReferralNext, LinkGuest, MatchPersisted, ReadReferredBy, PublishFirstMatch,
         AckMatchEnded, ConvertReferral, ConvertFrom, PayReferrer, PayReferee,
         AckReferralEvent, RestartScoring, referralVars
<1> QED BY <1>5, <1>6, <1>8, <1>9, <1>10, <1>11

(* What is carried to the payment stays the document's referrer.           *)
LEMMA CarriedStep ==
    ASSUME ReferralTypeOK, SeenReferrer, CleanInv,
           [ReferralNext]_referralVars, ~ failed'
    PROVE  CarriedAgrees'
<1>1. CarriedAgrees
  BY DEF CleanInv
<1>2. ASSUME NEW r \in Members, NEW m \in Members, referral[r].referrer = m
      PROVE  referral'[r].referrer = m
  <2>1. referral[r] # NoDocument
    BY <1>2, MembersAssumption DEF NoDocument
  <2> QED BY <1>2, <2>1, DocumentsKept
<1>3. \A event \in events :
        /\ event.referee \in Members
        /\ event.referrer = referral[event.referee].referrer
        /\ event.referrer = referral'[event.referee].referrer
  <2> TAKE event \in events
  <2>1. event.referee \in Members /\ event.referrer \in Members
    BY DEF ReferralTypeOK, ReferralEvents
  <2>2. event.referrer = referral[event.referee].referrer
    BY <1>1 DEF CarriedAgrees
  <2> QED BY <1>2, <2>1, <2>2
<1>4. persist.at = "count" => persist.seen = referral'[persist.user].referrer
  <2>1. persist.at = "count" => persist.seen \in Members /\ persist.user \in Members
    BY PersistType DEF SeenReferrer
  <2> QED BY <1>1, <1>2, <2>1 DEF CarriedAgrees
<1>5. reward.at = "payReferrer" =>
        reward.event.referrer = referral'[reward.event.referee].referrer
  <2>1. reward.at = "payReferrer" => /\ reward.event.referrer \in Members
                                     /\ reward.event.referee \in Members
    BY RewardType
  <2> QED BY <1>1, <1>2, <2>1 DEF CarriedAgrees
<1>6. persist'.at = "count" => persist'.seen = referral'[persist'.user].referrer
  <2>1. CASE UNCHANGED persist
    BY <1>4, <2>1
  <2>2. CASE ReadReferredBy
    <3>1. persist.at # "idle" /\ UNCHANGED referral
      BY <2>2 DEF ReadReferredBy
    <3>2. persist \in PersistSteps /\ persist.user \in Members
      BY <3>1, PersistType
    <3>3. ReferrerAgrees(persist.user)
      BY <3>2 DEF CleanInv
    <3>4. CASE referredBy[persist.user] # Nobody
      <4>1. persist' = [persist EXCEPT !.at = "count",
                                       !.seen = referredBy[persist.user]]
        BY <2>2, <3>4 DEF ReadReferredBy
      <4>2. persist'.seen = referredBy[persist.user] /\ persist'.user = persist.user
        BY <3>2, <4>1 DEF PersistSteps
      <4> QED BY <3>1, <3>3, <3>4, <4>2 DEF ReferrerAgrees
    <3>5. CASE referredBy[persist.user] = Nobody
      <4>1. persist' = NoPersist
        BY <2>2, <3>5 DEF ReadReferredBy
      <4> QED BY <4>1 DEF NoPersist
    <3> QED BY <3>4, <3>5
  <2>3. ASSUME NEW u \in Referees, MatchPersisted(u) PROVE persist'.at # "count"
    BY <2>3 DEF MatchPersisted
  <2>4. CASE PublishFirstMatch
    <3>1. persist.at # "idle"
      BY <2>4 DEF PublishFirstMatch
    <3>2. persist \in PersistSteps
      BY <3>1, PersistType
    <3>3. persist' = [persist EXCEPT !.at = "ack"]
      BY <2>4 DEF PublishFirstMatch
    <3> QED BY <3>2, <3>3 DEF PersistSteps
  <2>5. CASE AckMatchEnded
    BY <2>5 DEF AckMatchEnded, NoPersist
  <2>6. CASE RestartScoring
    BY <2>6 DEF RestartScoring
  <2> QED BY <2>1, <2>2, <2>3, <2>4, <2>5, <2>6
             DEF ReferralNext, SignUpWith, ApplyCode, CountConverted,
                 InsertReferral, SetReferredBy, LinkGuest, ConvertReferral,
                 ConvertFrom, PayReferrer, PayReferee, AckReferralEvent,
                 referralVars
<1>7. \A event \in events' : event.referrer = referral'[event.referee].referrer
  <2>1. CASE events' \subseteq events
    BY <1>3, <2>1
  <2>2. CASE PublishFirstMatch
    <3>1. /\ persist.at = "count" /\ UNCHANGED referral
          /\ events' \subseteq events \cup {[referrer |-> persist.seen,
                                             referee |-> persist.user]}
      BY <2>2 DEF PublishFirstMatch
    <3> QED BY <1>3, <1>4, <3>1
  <2> QED BY <2>1, <2>2
             DEF ReferralNext, SignUpWith, ApplyCode, CountConverted,
                 InsertReferral, SetReferredBy, LinkGuest, MatchPersisted,
                 ReadReferredBy, AckMatchEnded, ConvertReferral, ConvertFrom,
                 PayReferrer, PayReferee, AckReferralEvent, RestartScoring,
                 referralVars
<1>8. reward'.at = "payReferrer" =>
        reward'.event.referrer = referral'[reward'.event.referee].referrer
  <2>1. CASE UNCHANGED reward
    BY <1>5, <2>1
  <2>2. CASE ConvertReferral
    <3>1. \/ UNCHANGED reward
          \/ \E event \in events :
               reward' = [at |-> "payReferrer", event |-> event]
      BY <2>2 DEF ConvertReferral, ConvertFrom
    <3> QED BY <1>3, <1>5, <3>1
  <2>3. CASE PayReferrer \/ PayReferee
    <3>1. reward.at # "idle"
      BY <2>3 DEF PayReferrer, PayReferee
    <3>2. reward \in RewardSteps
      BY <3>1 DEF ReferralTypeOK, RewardSteps, NoReward
    <3>3. \E label \in {"payReferee", "ack"} : reward' = [reward EXCEPT !.at = label]
      BY <2>3 DEF PayReferrer, PayReferee
    <3> QED BY <3>2, <3>3 DEF RewardSteps
  <2>4. CASE AckReferralEvent \/ RestartScoring
    BY <2>4 DEF AckReferralEvent, RestartScoring, NoReward
  <2> QED BY <2>1, <2>2, <2>3, <2>4
             DEF ReferralNext, SignUpWith, ApplyCode, CountConverted,
                 InsertReferral, SetReferredBy, LinkGuest, MatchPersisted,
                 ReadReferredBy, PublishFirstMatch, AckMatchEnded, referralVars
<1> QED BY <1>6, <1>7, <1>8 DEF CarriedAgrees

(* What was paid stays the document's referrer's.                          *)
LEMMA PaidStep ==
    ASSUME PaysInv, PaysInv', CleanInv, [ReferralNext]_referralVars, ~ failed',
           NEW r \in Members
    PROVE  PaidAgrees(r)'
<1>1. ReferralTypeOK /\ PaidOnce(r) /\ PaidAgrees(r) /\ CarriedAgrees
  BY DEF PaysInv, CleanInv
<1>2. /\ toReferrer \in [Members -> Seq(Members)]
      /\ referral \in [Members -> Documents]
  BY <1>1 DEF ReferralTypeOK
<1>3. CASE toReferrer'[r] = toReferrer[r] /\ ~ PayReferrer
  <2>1. toReferrer[r] # <<>> => referral[r] # NoDocument
    BY <1>1 DEF PaidOnce, NoDocument
  <2>2. toReferrer'[r] # <<>> => toReferrer'[r] = <<referral'[r].referrer>>
    BY <1>1, <1>3, <2>1, DocumentsKept DEF PaidAgrees
  <2>3. /\ reward.at = "payReferrer" /\ reward.event.referee = r
        => reward' = reward
    <3> SUFFICES ASSUME reward.at = "payReferrer" PROVE reward' = reward
      OBVIOUS
    <3>1. ~ ConvertReferral
      BY DEF ConvertReferral, ConvertFrom, NoReward
    <3>2. ~ PayReferee /\ ~ AckReferralEvent /\ ~ RestartScoring
      BY DEF PayReferee, AckReferralEvent, RestartScoring
    <3> QED BY <1>3, <3>1, <3>2
               DEF ReferralNext, SignUpWith, ApplyCode, CountConverted,
                   InsertReferral, SetReferredBy, LinkGuest, MatchPersisted,
                   ReadReferredBy, PublishFirstMatch, AckMatchEnded, referralVars
  <2>4. referral'[r].status = "converted" =>
          \/ toReferrer'[r] # <<>>
          \/ reward'.at = "payReferrer" /\ reward'.event.referee = r
    BY <1>1, <1>3, <2>3, DocumentsKept DEF PaidAgrees
  <2> QED BY <2>2, <2>4 DEF PaidAgrees
<1>4. CASE PayReferrer
  <2>1. /\ reward.at = "payReferrer" /\ UNCHANGED referral
        /\ toReferrer' = [toReferrer EXCEPT ![reward.event.referee] =
                            Append(@, reward.event.referrer)]
    BY <1>4 DEF PayReferrer
  <2>2. CASE r = reward.event.referee
    <3>1. toReferrer[r] = <<>>
      BY <1>1, <2>1, <2>2 DEF PaidOnce
    <3>2. toReferrer'[r] = <<reward.event.referrer>>
      BY <1>2, <2>1, <2>2, <3>1
    <3>3. reward.event.referrer = referral[r].referrer
      BY <1>1, <2>1, <2>2 DEF CarriedAgrees
    <3>4. toReferrer'[r] # <<>>
      BY <3>2
    <3> QED BY <2>1, <3>2, <3>3, <3>4 DEF PaidAgrees
  <2>3. CASE r # reward.event.referee
    <3>1. toReferrer'[r] = toReferrer[r]
      BY <1>2, <2>1, <2>3
    <3> QED BY <1>1, <2>1, <2>3, <3>1 DEF PaidAgrees
  <2> QED BY <2>2, <2>3
<1>5. toReferrer'[r] = toReferrer[r] \/ PayReferrer
  BY DEF ReferralNext, SignUpWith, ApplyCode, CountConverted, InsertReferral,
         SetReferredBy, LinkGuest, MatchPersisted, ReadReferredBy,
         PublishFirstMatch, AckMatchEnded, ConvertReferral, ConvertFrom,
         PayReferee, AckReferralEvent, RestartScoring, referralVars
<1> QED BY <1>3, <1>4, <1>5

(* What referrals pay, and the coins the dashboard shows: at any time, and *)
(* for any number of users, requests, matches and restarts, a referral     *)
(* pays each side at most once; and while nothing failed and no user's     *)
(* requests overlapped, the referrals a dashboard counts are those its     *)
(* user was paid for.                                                      *)
THEOREM ReferralSafe == ReferralSpec => []ReferralSafety
<1>1. ReferralInit => ReferralInv
  <2> SUFFICES ASSUME ReferralInit PROVE ReferralInv
    OBVIOUS
  <2>1. ReferralTypeOK /\ SeenReferrer
    BY InitTyped
  <2>2. ASSUME NEW r \in Members PROVE PaidOnce(r) /\ PaidAgrees(r) /\ ReferrerAgrees(r)
    <3>1. /\ toReferrer[r] = <<>> /\ toReferee[r] = 0 /\ referredBy[r] = Nobody
          /\ referral[r] = NoDocument /\ referral[r].status = "none"
          /\ reward.at = "idle"
      BY <2>2 DEF ReferralInit, NoDocument, NoReward
    <3>2. PaidOnce(r)
      BY <3>1 DEF PaidOnce
    <3> QED BY <3>1, <3>2 DEF PaidAgrees, ReferrerAgrees
  <2>3. ASSUME NEW a \in Applies PROVE RequestKnows(a)
    <3>1. apply[a] = NoApply /\ apply[a].at = "idle"
      BY <2>3 DEF ReferralInit, NoApply
    <3> QED BY <3>1 DEF RequestKnows
  <2>4. CarriedAgrees
    BY DEF ReferralInit, CarriedAgrees, NoPersist, NoReward
  <2> QED BY <2>1, <2>2, <2>3, <2>4 DEF ReferralInv, PaysInv, CleanInv
<1>2. /\ ReferralInv /\ ReferralTypeOK' /\ SeenReferrer' /\ [ReferralNext]_referralVars
      => ReferralInv'
  <2> SUFFICES ASSUME ReferralInv, ReferralTypeOK', SeenReferrer',
                      [ReferralNext]_referralVars
               PROVE  ReferralInv'
    OBVIOUS
  <2>1. PaysInv /\ PaysInv' /\ ReferralTypeOK /\ SeenReferrer
    BY PaysStep DEF ReferralInv, PaysInv
  <2>2. ASSUME ~ failed', ~ crossed' PROVE CleanInv'
    <3>1. CleanInv
      BY <2>1, <2>2, CleanBefore DEF ReferralInv
    <3>2. ASSUME NEW a \in Applies PROVE RequestKnows(a)'
      BY <2>1, <2>2, <3>1, RequestsStep
    <3>3. ASSUME NEW u \in Members PROVE ReferrerAgrees(u)'
      BY <2>1, <2>2, <3>1, ReferrersStep
    <3>4. CarriedAgrees'
      BY <2>1, <2>2, <3>1, CarriedStep
    <3>5. ASSUME NEW r \in Members PROVE PaidAgrees(r)'
      BY <2>1, <2>2, <3>1, PaidStep
    <3> QED BY <3>2, <3>3, <3>4, <3>5 DEF CleanInv
  <2> QED BY <2>1, <2>2 DEF ReferralInv
<1>3. ReferralInv => ReferralSafety
  <2> SUFFICES ASSUME ReferralInv PROVE ReferralSafety
    OBVIOUS
  <2>1. ReferralTypeOK /\ ReferralPaysOnce
    BY DEF ReferralInv, PaysInv, PaidOnce, ReferralPaysOnce
  <2>2. ASSUME ~ failed, ~ crossed, reward.at # "payReferrer", NEW m \in Members
        PROVE  Converted(m) = {r \in Members : toReferrer[r] = <<m>>}
    <3>1. ASSUME NEW r \in Members
          PROVE  referral[r] = [referrer |-> m, status |-> "converted"]
                   <=> toReferrer[r] = <<m>>
      <4>1. PaidOnce(r) /\ PaidAgrees(r)
        BY <2>2 DEF ReferralInv, PaysInv, CleanInv
      <4>2. ASSUME toReferrer[r] = <<m>>
            PROVE  referral[r] = [referrer |-> m, status |-> "converted"]
        <5>1. toReferrer[r] # <<>>
          BY <4>2
        <5>2. referral[r].status = "converted" /\ toReferrer[r] = <<referral[r].referrer>>
          BY <4>1, <5>1, <2>1, DocumentType DEF PaidOnce, PaidAgrees
        <5>3. referral[r].referrer = m
          BY <4>2, <5>2
        <5> QED BY <2>1, <5>2, <5>3, DocumentType
      <4>3. ASSUME referral[r] = [referrer |-> m, status |-> "converted"]
            PROVE  toReferrer[r] = <<m>>
        <5>1. referral[r].referrer = m /\ referral[r].status = "converted"
          BY <4>3
        <5> QED BY <2>2, <4>1, <5>1 DEF PaidAgrees
      <4> QED BY <4>2, <4>3
    <3> QED BY <3>1 DEF Converted
  <2>3. DashboardExplainsCoins
    BY <2>2 DEF DashboardExplainsCoins, CoinsEarned
  <2> QED BY <2>1, <2>3 DEF ReferralSafety
<1> QED BY <1>1, <1>2, <1>3, TypeInvariant, PTL DEF ReferralSpec
=============================================================================

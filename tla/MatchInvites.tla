---------------------------- MODULE MatchInvites ----------------------------
(***************************************************************************)
(* publishMatchInvite (services/matchmaking/main.go): when a player joins  *)
(* the pool, a goroutine reads the opponents of its last five matches and  *)
(* invites each of them, at most once in half an hour by a key in Redis    *)
(* (TrySetMatchInviteThrottle, pkg/keys/redis.go).  A player may join, and *)
(* so start a goroutine, again and again.  Pairs do not share keys, so one *)
(* player that joins is enough.                                            *)
(***************************************************************************)
EXTENDS Integers, FiniteSets

CONSTANTS
    Opponents,  \* players that the one that joins may have met
    Invitings,  \* goroutines that may run at the same time
    InviteFaults \* whether matchmaking restarts and its calls fail

ASSUME InviteFaultsAssumption == InviteFaults \in BOOLEAN

VARIABLES
    throttle, \* opponents whose key is set
    inviting, \* the goroutines
    invited,  \* history: invitations of an opponent since its key was set
    lost      \* history: opponents whose invitation was lost since then

inviteVars == <<throttle, inviting, invited, lost>>

(* A goroutine: the opponents it has still to look at, and the one whose   *)
(* key it has won, if any.                                                 *)
Ended == [left |-> {}, won |-> {}]

InviteTypeOK ==
    /\ throttle \subseteq Opponents
    /\ inviting \in [Invitings -> [left : SUBSET Opponents,
                                   won : SUBSET Opponents]]
    /\ invited \in [Opponents -> Nat]
    /\ lost \subseteq Opponents

InviteInit ==
    /\ throttle = {}
    /\ inviting = [g \in Invitings |-> Ended]
    /\ invited = [o \in Opponents |-> 0]
    /\ lost = {}

(* The goroutine has read the last matches.                                *)
ReadOpponents(g) ==
    /\ inviting[g] = Ended
    /\ \E recent \in SUBSET Opponents \ {{}} :
         inviting' = [inviting EXCEPT ![g].left = recent]
    /\ UNCHANGED <<throttle, invited, lost>>

ThrottleFrom(g, free) ==
    /\ inviting[g].won = {}
    /\ \E o \in inviting[g].left :
         \/ /\ o \in free
            /\ throttle' = throttle \cup {o}
            /\ inviting' = [inviting EXCEPT ![g].left = @ \ {o}, ![g].won = {o}]
            /\ UNCHANGED lost
         \/ /\ InviteFaults /\ o \in free
            /\ throttle' = throttle \cup {o}
            /\ inviting' = [inviting EXCEPT ![g].left = @ \ {o}]
            /\ lost' = lost \cup {o}
         \/ /\ o \notin free \/ InviteFaults
            /\ inviting' = [inviting EXCEPT ![g].left = @ \ {o}]
            /\ UNCHANGED <<throttle, lost>>
    /\ UNCHANGED invited

TrySetThrottle_Ignored(g) == ThrottleFrom(g, Opponents)

(* SETNX of the next opponent's key.  One whose key is set, or whose       *)
(* command failed, is left out; the command may have set the key all the   *)
(* same, its answer lost.                                                  *)
TrySetThrottle(g) == ThrottleFrom(g, Opponents \ throttle)

(* The event is published; an error is logged and the key stays.           *)
PublishInvite(g) ==
    \E o \in inviting[g].won :
        /\ \/ invited' = [invited EXCEPT ![o] = @ + 1] /\ UNCHANGED lost
           \/ InviteFaults /\ lost' = lost \cup {o} /\ UNCHANGED invited
        /\ inviting' = [inviting EXCEPT ![g].won = {}]
        /\ UNCHANGED throttle

(* matchmaking restarts, or a goroutine's ten seconds are over.            *)
StopInviting(g) ==
    /\ InviteFaults
    /\ inviting[g] # Ended
    /\ inviting' = [inviting EXCEPT ![g] = Ended]
    /\ lost' = lost \cup inviting[g].won
    /\ UNCHANGED <<throttle, invited>>

(* Half an hour after SETNX, and so long after the goroutine that won.     *)
ExpireThrottle(o) ==
    /\ o \in throttle
    /\ \A g \in Invitings : o \notin inviting[g].won
    /\ throttle' = throttle \ {o}
    /\ invited' = [invited EXCEPT ![o] = 0]
    /\ lost' = lost \ {o}
    /\ UNCHANGED inviting

InviteNext ==
    \/ \E g \in Invitings :
         \/ ReadOpponents(g) \/ TrySetThrottle(g) \/ PublishInvite(g)
         \/ StopInviting(g)
    \/ \E o \in Opponents : ExpireThrottle(o)

InviteSpec == InviteInit /\ [][InviteNext]_inviteVars

-----------------------------------------------------------------------------
(* The throttle: while an opponent's key is set it was invited exactly     *)
(* once, by whichever goroutine came first, or is about to be, or its one  *)
(* invitation was lost; and nobody is invited without the key.             *)
InvitedOncePerThrottle ==
    \A o \in Opponents :
        LET about == {g \in Invitings : o \in inviting[g].won}
            lostOne == IF o \in lost THEN 1 ELSE 0
        IN invited[o] + Cardinality(about) + lostOne =
             IF o \in throttle THEN 1 ELSE 0

(* An opponent is not invited again and again.                             *)
InviteSafety == InviteTypeOK /\ InvitedOncePerThrottle
=============================================================================

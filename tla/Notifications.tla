--------------------------- MODULE Notifications ---------------------------
(***************************************************************************)
(* Push notifications: services/notification/main.go, whose two consumers  *)
(* take messages from a queue each, look up the devices of the users a     *)
(* message is for, and send to all of them at once; UpdateFCMToken         *)
(* (services/scoring/main.go), which registers a device.                   *)
(*                                                                         *)
(* A message is for a set of users: nobody when its payload is malformed   *)
(* or names none.  Titles and texts are left out.  FCM is external: it     *)
(* refuses a device that is not registered with it any more, or, of any    *)
(* device, a message or token that it takes for an invalid argument, and   *)
(* may fail.  An app that is installed again gets a token of its own.      *)
(***************************************************************************)
EXTENDS Integers, FiniteSets

CONSTANTS
    Recipients, \* users
    Devices,    \* devices, by their tokens
    Queues,     \* push-notification-queue and premium-expiry-queue
    Notices,    \* messages, each published once
    PushFaults  \* whether the service restarts and MongoDB or FCM fail

ASSUME PushFaultsAssumption == PushFaults \in BOOLEAN
ASSUME QueuesAssumption == Queues \cap {"unpublished", "gone"} = {}

VARIABLES
    target,    \* the users each message is for
    place,     \* where each message is
    fcmTokens, \* users.fcmTokens
    installed, \* devices that FCM knows
    dispatch,  \* the message each consumer is at
    pulls,     \* pullInvalidToken goroutines
    tried,     \* history: sends, by message, user and device
    enrolled,  \* history: devices that were registered, by user
    refused,   \* history: devices that FCM refused since they were registered
    had,       \* history: the devices of a message's users since it was published
    excused    \* history: messages a user's lookup has failed for

pushVars == <<target, place, fcmTokens, installed, dispatch, pulls, tried,
              enrolled, refused, had, excused>>

Places == {"unpublished", "gone"} \cup Queues

(* A consumer at a message: the users still to look up, and those to send  *)
(* to, with the devices left.  Empty when it waits.                        *)
Deliveries == [notice : Notices, users : SUBSET Recipients,
               sends : SUBSET (Recipients \X Devices)]

PushTypeOK ==
    /\ target \in [Notices -> SUBSET Recipients]
    /\ place \in [Notices -> Places]
    /\ fcmTokens \in [Recipients -> SUBSET Devices]
    /\ installed \subseteq Devices
    /\ \A q \in Queues : dispatch[q] \subseteq Deliveries
                           /\ Cardinality(dispatch[q]) <= 1
    /\ pulls \subseteq Recipients \X Devices
    /\ tried \subseteq Notices \X Recipients \X Devices
    /\ {enrolled, refused} \subseteq SUBSET (Recipients \X Devices)
    /\ had \in [Notices -> SUBSET (Recipients \X Devices)]
    /\ excused \subseteq Notices

PushInit ==
    /\ target \in [Notices -> SUBSET Recipients]
    /\ place = [n \in Notices |-> "unpublished"]
    /\ fcmTokens = [u \in Recipients |-> {}]
    /\ installed = Devices
    /\ dispatch = [q \in Queues |-> {}]
    /\ pulls = {}
    /\ tried = {}
    /\ enrolled = {}
    /\ refused = {}
    /\ had = [n \in Notices |-> {}]
    /\ excused = {}

Registered(users) == {s \in users \X Devices : s[2] \in fcmTokens[s[1]]}

-----------------------------------------------------------------------------
(* UpdateFCMToken, $addToSet of the token of a device.  One that is about  *)
(* to be pulled still is.                                                  *)
UpdateFCMToken(u, d) ==
    /\ d \in installed
    /\ fcmTokens' = [fcmTokens EXCEPT ![u] = @ \cup {d}]
    /\ enrolled' = enrolled \cup {<<u, d>>}
    /\ refused' = refused \ ({<<u, d>>} \ pulls)
    /\ UNCHANGED <<target, place, installed, dispatch, pulls, tried, had,
                   excused>>

(* The app is removed from a device: FCM refuses its token from now on.    *)
Uninstall(d) ==
    /\ d \in installed
    /\ installed' = installed \ {d}
    /\ UNCHANGED <<target, place, fcmTokens, dispatch, pulls, tried,
                   enrolled, refused, had, excused>>

(* Another service publishes: premium.* goes to one queue, notif.# to the  *)
(* other.                                                                  *)
PublishNotice(n, q) ==
    /\ place[n] = "unpublished"
    /\ place' = [place EXCEPT ![n] = q]
    /\ had' = [had EXCEPT ![n] = Registered(target[n])]
    /\ UNCHANGED <<target, fcmTokens, installed, dispatch, pulls, tried,
                   enrolled, refused, excused>>

-----------------------------------------------------------------------------
(* dispatchNotification.                                                   *)

Delivery(n) == {[notice |-> n, users |-> target[n], sends |-> {}]}

TakeNotice_AckFirst(q, n) ==
    /\ dispatch[q] = {} /\ place[n] = q
    /\ dispatch' = [dispatch EXCEPT ![q] = Delivery(n)]
    /\ place' = [place EXCEPT ![n] = "gone"]
    /\ UNCHANGED <<target, fcmTokens, installed, pulls, tried,
                   enrolled, refused, had, excused>>

(* A consumer takes a message, which stays in the queue until its Ack.     *)
TakeNotice(q, n) ==
    /\ dispatch[q] = {} /\ place[n] = q
    /\ dispatch' = [dispatch EXCEPT ![q] = Delivery(n)]
    /\ UNCHANGED <<target, place, fcmTokens, installed, pulls, tried,
                   enrolled, refused, had, excused>>

(* deliverToUser: the next user's devices are read, once those before it   *)
(* were sent to.  A user that is not found is passed over.                 *)
LookUpUser(q) ==
    \E m \in dispatch[q], u \in Recipients :
        /\ m.sends = {} /\ u \in m.users
        /\ \/ /\ dispatch' = [dispatch EXCEPT ![q] =
                    {[m EXCEPT !.users = @ \ {u}, !.sends = Registered({u})]}]
              /\ UNCHANGED excused
           \/ /\ PushFaults
              /\ dispatch' = [dispatch EXCEPT ![q] =
                                {[m EXCEPT !.users = @ \ {u}]}]
              /\ excused' = excused \cup {m.notice}
        /\ UNCHANGED <<target, place, fcmTokens, installed, pulls, tried,
                       enrolled, refused, had>>

(* The sends of a user, in any order.  The token of a device that FCM does *)
(* not know, or for which it takes an argument of the message for invalid, *)
(* is to be pulled, by a goroutine; any other error is logged.             *)
SendToDevice(q) ==
    /\ \E m \in dispatch[q] : \E s \in m.sends :
         /\ dispatch' = [dispatch EXCEPT ![q] = {[m EXCEPT !.sends = @ \ {s}]}]
         /\ tried' = tried \cup {<<m.notice, s[1], s[2]>>}
         /\ \/ /\ s[2] \in installed \/ PushFaults
               /\ UNCHANGED <<pulls, refused>>
            \/ /\ pulls' = pulls \cup {s}
               /\ refused' = refused \cup {s}
    /\ UNCHANGED <<target, place, fcmTokens, installed, enrolled, had, excused>>

(* Ack, or Nack without requeue: the message is gone.                      *)
AckNotice(q) ==
    \E m \in dispatch[q] :
        /\ m.users = {} /\ m.sends = {}
        /\ place' = [place EXCEPT ![m.notice] = "gone"]
        /\ dispatch' = [dispatch EXCEPT ![q] = {}]
        /\ UNCHANGED <<target, fcmTokens, installed, pulls, tried, enrolled,
                       refused, had, excused>>

(* $pull of the token; an error leaves it.                                 *)
PullInvalidToken(u, d) ==
    /\ <<u, d>> \in pulls
    /\ pulls' = pulls \ {<<u, d>>}
    /\ \/ fcmTokens' = [fcmTokens EXCEPT ![u] = @ \ {d}]
       \/ PushFaults /\ UNCHANGED fcmTokens
    /\ had' = [n \in Notices |-> had[n] \ {<<u, d>>}]
    /\ UNCHANGED <<target, place, installed, dispatch, tried, enrolled,
                   refused, excused>>

(* The service restarts: what was not acknowledged is delivered again.     *)
RestartNotification ==
    /\ PushFaults
    /\ dispatch' = [q \in Queues |-> {}]
    /\ pulls' = {}
    /\ <<dispatch', pulls'>> # <<dispatch, pulls>>
    /\ UNCHANGED <<target, place, fcmTokens, installed, tried, enrolled,
                   refused, had, excused>>

PushNext ==
    \/ \E u \in Recipients, d \in Devices :
         UpdateFCMToken(u, d) \/ PullInvalidToken(u, d)
    \/ \E d \in Devices : Uninstall(d)
    \/ \E q \in Queues :
         \/ \E n \in Notices : PublishNotice(n, q) \/ TakeNotice(q, n)
         \/ LookUpUser(q) \/ SendToDevice(q) \/ AckNotice(q)
    \/ RestartNotification

PushSpec == PushInit /\ [][PushNext]_pushVars

-----------------------------------------------------------------------------
(* A message that is gone was sent to every device that its users had when *)
(* it was published and still have, unless a user's lookup failed: neither *)
(* a restart nor the removal of other tokens loses it.                     *)
SentBeforeAcknowledged ==
    \A n \in Notices \ excused : place[n] = "gone" =>
        \A s \in had[n] : <<n, s[1], s[2]>> \in tried

(* A device that was registered stays registered, however late a pull,     *)
(* unless FCM has refused it, or a message for it, since it was registered *)
(* last or a pull was still to come then.  A device that is still          *)
(* installed can be refused for an argument: it goes without messages      *)
(* until it is registered again.                                           *)
DeviceStaysUnlessRefused ==
    \A s \in enrolled \ refused : s[2] \in fcmTokens[s[1]]

(* Notifications reach the devices they are for.                           *)
PushSafety == PushTypeOK /\ SentBeforeAcknowledged /\ DeviceStaysUnlessRefused
=============================================================================

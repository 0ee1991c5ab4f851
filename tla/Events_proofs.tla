---------------------------- MODULE Events_proofs ----------------------------
(***************************************************************************)
(* Theorems about what the services send one another and their users: push *)
(* messages, match invites, reminders of tournaments, the events of        *)
(* services that start in any order, and the questions of a match.  The    *)
(* modules share no state; each has a section of its own here.             *)
(***************************************************************************)
EXTENDS Notifications, MatchInvites, Tournaments, EventBus, QuestionSelection,
        FunctionTheorems, FiniteSetTheorems, WellFoundedInduction, TLAPS

-----------------------------------------------------------------------------
(***************************************************************************)
(* Notifications: any number of users, devices, queues and messages.       *)
(***************************************************************************)

(* A consumer handles a message at a time, which is still in its queue.    *)
OneAtATime ==
    /\ dispatch \in [Queues -> SUBSET Deliveries]
    /\ \A q \in Queues : \A m \in dispatch[q] :
         /\ dispatch[q] = {m}
         /\ place[m.notice] = q

(* Types, with dispatch as a function.                                     *)
PushTyped ==
    /\ target \in [Notices -> SUBSET Recipients]
    /\ place \in [Notices -> Places]
    /\ fcmTokens \in [Recipients -> SUBSET Devices]
    /\ installed \subseteq Devices
    /\ pulls \subseteq Recipients \X Devices
    /\ tried \subseteq Notices \X Recipients \X Devices
    /\ enrolled \subseteq Recipients \X Devices
    /\ refused \subseteq Recipients \X Devices
    /\ had \in [Notices -> SUBSET (Recipients \X Devices)]
    /\ excused \subseteq Notices
    /\ OneAtATime

(* What a message owes a device of a user it is for, once published: the   *)
(* send was tried, or the message waits for a consumer, or its consumer    *)
(* has still to look the user up or to send to the device.                 *)
Owed(n, s) ==
    \/ <<n, s[1], s[2]>> \in tried
    \/ /\ place[n] \in Queues
       /\ \A m \in dispatch[place[n]] :
            m.notice = n => s[1] \in m.users \/ s \in m.sends

(* A device is owed a message for as long as its user has it; a consumer   *)
(* finds it when it looks the user up.                                     *)
OwedInv ==
    \A n \in Notices \ excused : place[n] # "unpublished" =>
        \A s \in had[n] :
            /\ s[1] \in target[n] /\ s[2] \in fcmTokens[s[1]]
            /\ Owed(n, s)

(* Only tokens that FCM refuses are about to be pulled.                    *)
PullsInv ==
    /\ DeviceStaysUnlessRefused
    /\ pulls \subseteq refused

PushInv == PushTyped /\ OwedInv /\ PullsInv

-----------------------------------------------------------------------------
(* A message in a consumer's hands is one delivery.                        *)
LEMMA DeliveryType ==
    ASSUME PushTyped, NEW q \in Queues, NEW m \in dispatch[q]
    PROVE  /\ m \in Deliveries /\ m.notice \in Notices
           /\ m.users \subseteq Recipients
           /\ m.sends \subseteq Recipients \X Devices
           /\ dispatch[q] = {m} /\ place[m.notice] = q
  BY DEF PushTyped, OneAtATime, Deliveries

(* A consumer goes on with its delivery.                                   *)
LEMMA DispatchStep ==
    ASSUME PushTyped, NEW q \in Queues, NEW m \in Deliveries,
           dispatch' = [dispatch EXCEPT ![q] = {m}],
           place[m.notice] = q, UNCHANGED place
    PROVE  OneAtATime'
<1>1. dispatch' \in [Queues -> SUBSET Deliveries]
  BY DEF PushTyped, OneAtATime
<1>2. ASSUME NEW p \in Queues, NEW d \in dispatch'[p]
      PROVE  dispatch'[p] = {d} /\ place'[d.notice] = p
  <2>1. CASE p = q
    BY <1>2, <2>1 DEF PushTyped, OneAtATime
  <2>2. CASE p # q
    BY <1>2, <2>2 DEF PushTyped, OneAtATime
  <2> QED BY <2>1, <2>2
<1> QED BY <1>1, <1>2 DEF OneAtATime

(* A message is gone, or waits again, and its consumer is free.            *)
LEMMA FreeStep ==
    ASSUME PushTyped, NEW q \in Queues,
           dispatch' = [dispatch EXCEPT ![q] = {}],
           \A n \in Notices : place'[n] = place[n] \/ place[n] = q
    PROVE  OneAtATime'
<1>1. dispatch' \in [Queues -> SUBSET Deliveries]
  BY DEF PushTyped, OneAtATime
<1>2. ASSUME NEW p \in Queues, NEW d \in dispatch'[p]
      PROVE  dispatch'[p] = {d} /\ place'[d.notice] = p
  <2>1. p # q /\ dispatch'[p] = dispatch[p]
    BY <1>2 DEF PushTyped, OneAtATime
  <2>2. d.notice \in Notices /\ place[d.notice] = p /\ dispatch[p] = {d}
    BY <1>2, <2>1, DeliveryType
  <2> QED BY <2>1, <2>2
<1> QED BY <1>1, <1>2 DEF OneAtATime

(* Every step keeps the types, and the consumers at a message each.        *)
LEMMA TypeStep ==
    ASSUME PushTyped, [PushNext]_pushVars
    PROVE  PushTyped'
<1> USE DEF PushTyped
<1>1. ASSUME NEW u \in Recipients, NEW d \in Devices, UpdateFCMToken(u, d)
      PROVE  PushTyped'
  BY <1>1 DEF UpdateFCMToken, OneAtATime
<1>2. ASSUME NEW u \in Recipients, NEW d \in Devices, PullInvalidToken(u, d)
      PROVE  PushTyped'
  <2>1. fcmTokens' \in [Recipients -> SUBSET Devices]
    BY <1>2 DEF PullInvalidToken
  <2>2. had' \in [Notices -> SUBSET (Recipients \X Devices)]
    BY <1>2 DEF PullInvalidToken
  <2> QED BY <1>2, <2>1, <2>2 DEF PullInvalidToken, OneAtATime
<1>3. ASSUME NEW d \in Devices, Uninstall(d) PROVE PushTyped'
  BY <1>3 DEF Uninstall, OneAtATime
<1>4. ASSUME NEW q \in Queues, NEW n \in Notices, PublishNotice(n, q)
      PROVE  PushTyped'
  <2>1. place' \in [Notices -> Places]
    BY <1>4 DEF PublishNotice, Places
  <2>2. had' \in [Notices -> SUBSET (Recipients \X Devices)]
    BY <1>4 DEF PublishNotice, Registered
  <2>3. OneAtATime'
    <3>1. dispatch' = dispatch /\ place[n] = "unpublished"
      BY <1>4 DEF PublishNotice
    <3>2. \A p \in Queues : \A d \in dispatch[p] : d.notice # n
      BY <3>1, QueuesAssumption, DeliveryType
    <3>3. \A i \in Notices : i # n => place'[i] = place[i]
      BY <1>4 DEF PublishNotice
    <3> QED BY <3>1, <3>2, <3>3, DeliveryType DEF OneAtATime
  <2> QED BY <1>4, <2>1, <2>2, <2>3 DEF PublishNotice
<1>5. ASSUME NEW q \in Queues, NEW n \in Notices, TakeNotice(q, n)
      PROVE  PushTyped'
  <2> DEFINE m == [notice |-> n, users |-> target[n], sends |-> {}]
  <2>1. m \in Deliveries /\ m.notice = n
    BY DEF Deliveries
  <2>2. dispatch' = [dispatch EXCEPT ![q] = {m}] /\ place[n] = q /\ UNCHANGED place
    BY <1>5 DEF TakeNotice, Delivery
  <2> HIDE DEF m
  <2>3. OneAtATime'
    BY <2>1, <2>2, DispatchStep
  <2> QED BY <1>5, <2>3 DEF TakeNotice
<1>6. ASSUME NEW q \in Queues, LookUpUser(q) PROVE PushTyped'
  <2>1. PICK m \in dispatch[q], u \in Recipients :
          /\ \/ /\ dispatch' = [dispatch EXCEPT ![q] =
                      {[m EXCEPT !.users = @ \ {u}, !.sends = Registered({u})]}]
                /\ UNCHANGED excused
             \/ /\ dispatch' = [dispatch EXCEPT ![q] =
                                  {[m EXCEPT !.users = @ \ {u}]}]
                /\ excused' = excused \cup {m.notice}
          /\ UNCHANGED <<target, place, fcmTokens, installed, pulls, tried,
                         enrolled, refused, had>>
    BY <1>6 DEF LookUpUser
  <2>2. /\ m \in Deliveries /\ m.notice \in Notices /\ place[m.notice] = q
    BY DeliveryType
  <2>3. Registered({u}) \subseteq Recipients \X Devices
    BY DEF Registered
  <2>4. /\ [m EXCEPT !.users = @ \ {u}, !.sends = Registered({u})] \in Deliveries
        /\ [m EXCEPT !.users = @ \ {u}, !.sends = Registered({u})].notice = m.notice
        /\ [m EXCEPT !.users = @ \ {u}] \in Deliveries
        /\ [m EXCEPT !.users = @ \ {u}].notice = m.notice
    BY <2>2, <2>3 DEF Deliveries
  <2>5. OneAtATime'
    BY <2>1, <2>2, <2>4, DispatchStep
  <2> QED BY <2>1, <2>2, <2>5
<1>7. ASSUME NEW q \in Queues, SendToDevice(q) PROVE PushTyped'
  <2>1. PICK m \in dispatch[q] : \E s \in m.sends :
          /\ dispatch' = [dispatch EXCEPT ![q] = {[m EXCEPT !.sends = @ \ {s}]}]
          /\ tried' = tried \cup {<<m.notice, s[1], s[2]>>}
          /\ pulls' \in {pulls, pulls \cup {s}}
          /\ refused' \in {refused, refused \cup {s}}
    BY <1>7 DEF SendToDevice
  <2>2. PICK s \in m.sends :
          /\ dispatch' = [dispatch EXCEPT ![q] = {[m EXCEPT !.sends = @ \ {s}]}]
          /\ tried' = tried \cup {<<m.notice, s[1], s[2]>>}
          /\ pulls' \in {pulls, pulls \cup {s}}
          /\ refused' \in {refused, refused \cup {s}}
    BY <2>1
  <2>3. /\ m \in Deliveries /\ m.notice \in Notices /\ place[m.notice] = q
        /\ s \in Recipients \X Devices
    BY DeliveryType
  <2>4. /\ [m EXCEPT !.sends = @ \ {s}] \in Deliveries
        /\ [m EXCEPT !.sends = @ \ {s}].notice = m.notice
    BY <2>3 DEF Deliveries
  <2>5. UNCHANGED <<target, place, fcmTokens, installed, enrolled, had, excused>>
    BY <1>7 DEF SendToDevice
  <2>6. OneAtATime'
    BY <2>2, <2>3, <2>4, <2>5, DispatchStep
  <2> QED BY <2>2, <2>3, <2>5, <2>6
<1>8. ASSUME NEW q \in Queues, AckNotice(q) PROVE PushTyped'
  <2>1. PICK m \in dispatch[q] :
          /\ place' = [place EXCEPT ![m.notice] = "gone"]
          /\ dispatch' = [dispatch EXCEPT ![q] = {}]
          /\ UNCHANGED <<target, fcmTokens, installed, pulls, tried, enrolled,
                         refused, had, excused>>
    BY <1>8 DEF AckNotice
  <2>2. m.notice \in Notices /\ place[m.notice] = q
    BY DeliveryType
  <2>3. place' \in [Notices -> Places]
    BY <2>1, <2>2 DEF Places
  <2>4. OneAtATime'
    BY <2>1, <2>2, FreeStep
  <2> QED BY <2>1, <2>3, <2>4
<1>9. CASE RestartNotification
  BY <1>9 DEF RestartNotification, OneAtATime
<1>10. CASE UNCHANGED pushVars
  BY <1>10 DEF pushVars, OneAtATime
<1> QED BY <1>1, <1>2, <1>3, <1>4, <1>5, <1>6, <1>7, <1>8, <1>9, <1>10 DEF PushNext

(* Only a device that FCM has refused since it was registered is pulled.   *)
LEMMA PullsStep ==
    ASSUME PushTyped, PullsInv, [PushNext]_pushVars
    PROVE  PullsInv'
<1> USE DEF PullsInv, DeviceStaysUnlessRefused
<1>1. /\ fcmTokens \in [Recipients -> SUBSET Devices]
      /\ enrolled \subseteq Recipients \X Devices
  BY DEF PushTyped
<1>2. ASSUME NEW u \in Recipients, NEW d \in Devices, UpdateFCMToken(u, d)
      PROVE  PullsInv'
  <2>1. /\ fcmTokens' = [fcmTokens EXCEPT ![u] = @ \cup {d}]
        /\ enrolled' = enrolled \cup {<<u, d>>}
        /\ refused' = refused \ ({<<u, d>>} \ pulls)
        /\ pulls' = pulls
    BY <1>2 DEF UpdateFCMToken
  <2>2. ASSUME NEW s \in enrolled' \ refused'
        PROVE  s[2] \in fcmTokens'[s[1]]
    <3>1. CASE s = <<u, d>>
      BY <1>1, <2>1, <3>1
    <3>2. CASE s # <<u, d>>
      <4>1. s \in enrolled \ refused /\ s[1] \in Recipients
        BY <1>1, <2>1, <2>2, <3>2
      <4>2. s[2] \in fcmTokens[s[1]]
        BY <4>1
      <4>3. fcmTokens[s[1]] \subseteq fcmTokens'[s[1]]
        BY <1>1, <2>1, <4>1
      <4> QED BY <4>2, <4>3
    <3> QED BY <3>1, <3>2
  <2>3. pulls' \subseteq refused'
    BY <2>1
  <2> QED BY <2>2, <2>3
<1>3. ASSUME NEW u \in Recipients, NEW d \in Devices, PullInvalidToken(u, d)
      PROVE  PullsInv'
  <2>1. /\ pulls' \subseteq pulls /\ UNCHANGED <<enrolled, refused>>
        /\ fcmTokens' \in {fcmTokens, [fcmTokens EXCEPT ![u] = @ \ {d}]}
        /\ <<u, d>> \in refused
    BY <1>3 DEF PullInvalidToken
  <2>2. ASSUME NEW s \in enrolled \ refused
        PROVE  s[2] \in fcmTokens'[s[1]]
    <3>1. s[2] \in fcmTokens[s[1]] /\ s \in Recipients \X Devices /\ s # <<u, d>>
      BY <1>1, <2>1, <2>2
    <3>2. s[1] \in Recipients /\ (s[1] # u \/ s[2] # d)
      BY <3>1
    <3> QED BY <1>1, <2>1, <3>1, <3>2
  <2> QED BY <2>1, <2>2
<1>4. ASSUME NEW q \in Queues, SendToDevice(q) PROVE PullsInv'
  <2>1. \E s : \/ UNCHANGED <<pulls, refused>>
               \/ pulls' = pulls \cup {s} /\ refused' = refused \cup {s}
    BY <1>4 DEF SendToDevice
  <2>2. UNCHANGED <<fcmTokens, enrolled>>
    BY <1>4 DEF SendToDevice
  <2> QED BY <2>1, <2>2
<1>5. CASE pulls' \subseteq pulls /\ UNCHANGED <<fcmTokens, enrolled, refused>>
  BY <1>5
<1> QED BY <1>2, <1>3, <1>4, <1>5
           DEF PushNext, PublishNotice, TakeNotice, LookUpUser, AckNotice,
               Uninstall, RestartNotification, pushVars

(* A step that neither publishes nor ends a message, nor is its consumer's,*)
(* owes its devices no less.                                               *)
LEMMA OwedKept ==
    ASSUME PushTyped, OwedInv, excused \subseteq excused', tried \subseteq tried',
           UNCHANGED <<target, place>>,
           \A n \in Notices : \A s \in had'[n] :
             /\ s \in had[n]
             /\ s[2] \in fcmTokens[s[1]] => s[2] \in fcmTokens'[s[1]],
           \A q \in Queues : \A m \in dispatch'[q] :
             \/ m.notice \in excused'
             \/ \A s \in had[m.notice] :
                  Owed(m.notice, s) =>
                    \/ <<m.notice, s[1], s[2]>> \in tried'
                    \/ s[1] \in m.users \/ s \in m.sends
    PROVE  OwedInv'
<1> SUFFICES ASSUME NEW n \in Notices \ excused', place[n] # "unpublished",
                    NEW s \in had'[n]
             PROVE  s[1] \in target[n] /\ s[2] \in fcmTokens'[s[1]] /\ Owed(n, s)'
  BY DEF OwedInv
<1>1. /\ s \in had[n] /\ s[1] \in target[n] /\ s[2] \in fcmTokens'[s[1]]
      /\ Owed(n, s)
  BY DEF OwedInv
<1>2. CASE <<n, s[1], s[2]>> \in tried
  BY <1>1, <1>2 DEF Owed
<1>3. CASE <<n, s[1], s[2]>> \notin tried
  <2>1. place[n] \in Queues
    BY <1>1, <1>3 DEF Owed
  <2>2. \A m \in dispatch'[place[n]] : m.notice = n =>
          \/ <<n, s[1], s[2]>> \in tried'
          \/ s[1] \in m.users \/ s \in m.sends
    BY <1>1, <2>1
  <2> QED BY <1>1, <2>1, <2>2 DEF Owed
<1> QED BY <1>2, <1>3

(* No step loses a message that a device is owed.                          *)
LEMMA OwedStep ==
    ASSUME PushTyped, OwedInv, [PushNext]_pushVars
    PROVE  OwedInv'
<1>1. /\ had \in [Notices -> SUBSET (Recipients \X Devices)]
      /\ fcmTokens \in [Recipients -> SUBSET Devices]
      /\ dispatch \in [Queues -> SUBSET Deliveries]
      /\ target \in [Notices -> SUBSET Recipients]
      /\ place \in [Notices -> Places]
  BY DEF PushTyped, OneAtATime
<1>k. ASSUME NEW q \in Queues, NEW m \in dispatch[q]
      PROVE  \A s \in had[m.notice] :
               Owed(m.notice, s) => \/ <<m.notice, s[1], s[2]>> \in tried
                                    \/ s[1] \in m.users \/ s \in m.sends
  BY <1>k, DeliveryType DEF Owed
<1>2. ASSUME NEW u \in Recipients, NEW d \in Devices, UpdateFCMToken(u, d)
      PROVE  OwedInv'
  <2>1. /\ UNCHANGED <<target, place, dispatch, tried, had, excused>>
        /\ fcmTokens' = [fcmTokens EXCEPT ![u] = @ \cup {d}]
    BY <1>2 DEF UpdateFCMToken
  <2>2. \A n \in Notices : \A s \in had'[n] : 
          s \in had[n] /\ (s[2] \in fcmTokens[s[1]] => s[2] \in fcmTokens'[s[1]])
    BY <1>1, <2>1
  <2> QED BY <1>k, <2>1, <2>2, OwedKept
<1>3. ASSUME NEW u \in Recipients, NEW d \in Devices, PullInvalidToken(u, d)
      PROVE  OwedInv'
  <2>1. /\ UNCHANGED <<target, place, dispatch, tried, excused>>
        /\ had' = [n \in Notices |-> had[n] \ {<<u, d>>}]
        /\ fcmTokens' \in {fcmTokens, [fcmTokens EXCEPT ![u] = @ \ {d}]}
    BY <1>3 DEF PullInvalidToken
  <2>2. ASSUME NEW n \in Notices, NEW s \in had'[n]
        PROVE  s \in had[n] /\ (s[2] \in fcmTokens[s[1]] => s[2] \in fcmTokens'[s[1]])
    <3>1. s \in had[n] /\ s \in Recipients \X Devices /\ s # <<u, d>>
      BY <1>1, <2>1, <2>2
    <3>2. s[1] \in Recipients /\ (s[1] # u \/ s[2] # d)
      BY <3>1
    <3> QED BY <1>1, <2>1, <3>1, <3>2
  <2> QED BY <1>k, <2>1, <2>2, OwedKept
<1>4. ASSUME NEW q \in Queues, NEW i \in Notices, PublishNotice(i, q)
      PROVE  OwedInv'
  <2>1. /\ place[i] = "unpublished" /\ place' = [place EXCEPT ![i] = q]
        /\ had' = [had EXCEPT ![i] = Registered(target[i])]
        /\ UNCHANGED <<target, fcmTokens, dispatch, tried, excused>>
    BY <1>4 DEF PublishNotice
  <2>2. \A p \in Queues : \A m \in dispatch[p] : m.notice # i
    BY <2>1, QueuesAssumption, DeliveryType
  <2> SUFFICES ASSUME NEW n \in Notices \ excused, place'[n] # "unpublished",
                      NEW s \in had'[n]
               PROVE  s[1] \in target[n] /\ s[2] \in fcmTokens[s[1]] /\ Owed(n, s)'
    BY <2>1 DEF OwedInv
  <2>3. CASE n = i
    <3>1. had'[n] = Registered(target[n]) /\ place'[n] = q
      BY <1>1, <2>1, <2>3
    <3>2. s[1] \in target[n] /\ s[2] \in fcmTokens[s[1]]
      BY <3>1 DEF Registered
    <3> QED BY <2>1, <2>2, <2>3, <3>1, <3>2 DEF Owed
  <2>4. CASE n # i
    <3>1. had'[n] = had[n] /\ place'[n] = place[n]
      BY <1>1, <2>1, <2>4
    <3>2. s[1] \in target[n] /\ s[2] \in fcmTokens[s[1]] /\ Owed(n, s)
      BY <3>1 DEF OwedInv
    <3> QED BY <2>1, <3>1, <3>2 DEF Owed
  <2> QED BY <2>3, <2>4
<1>5. ASSUME NEW q \in Queues, NEW i \in Notices, TakeNotice(q, i)
      PROVE  OwedInv'
  <2> DEFINE m == [notice |-> i, users |-> target[i], sends |-> {}]
  <2>1. /\ dispatch' = [dispatch EXCEPT ![q] = {m}] /\ place[i] = q
        /\ UNCHANGED <<target, place, fcmTokens, tried, had, excused>>
    BY <1>5 DEF TakeNotice, Delivery
  <2>2. m.notice = i /\ m.users = target[i]
    OBVIOUS
  <2> HIDE DEF m
  <2>3. i \notin excused => \A s \in had[i] : s[1] \in target[i]
    BY <2>1, QueuesAssumption DEF OwedInv
  <2>4. ASSUME NEW p \in Queues, NEW e \in dispatch'[p]
        PROVE  \/ e.notice \in excused'
               \/ \A s \in had[e.notice] :
                    Owed(e.notice, s) =>
                      \/ <<e.notice, s[1], s[2]>> \in tried'
                      \/ s[1] \in e.users \/ s \in e.sends
    <3>1. CASE p = q
      <4>1. e = m
        BY <1>1, <2>1, <2>4, <3>1
      <4> QED BY <2>1, <2>2, <2>3, <4>1
    <3>2. CASE p # q
      <4>1. e \in dispatch[p]
        BY <1>1, <2>1, <2>4, <3>2
      <4> QED BY <1>k, <2>1, <4>1
    <3> QED BY <3>1, <3>2
  <2> QED BY <2>1, <2>4, OwedKept
<1>6. ASSUME NEW q \in Queues, LookUpUser(q) PROVE OwedInv'
  <2>1. PICK m \in dispatch[q], u \in Recipients :
          /\ m.sends = {}
          /\ \/ /\ dispatch' = [dispatch EXCEPT ![q] =
                      {[m EXCEPT !.users = @ \ {u}, !.sends = Registered({u})]}]
                /\ UNCHANGED excused
             \/ /\ dispatch' = [dispatch EXCEPT ![q] =
                                  {[m EXCEPT !.users = @ \ {u}]}]
                /\ excused' = excused \cup {m.notice}
          /\ UNCHANGED <<target, place, fcmTokens, tried, had>>
    BY <1>6 DEF LookUpUser
  <2>2. m \in Deliveries /\ m.notice \in Notices /\ place[m.notice] = q
    BY DeliveryType
  <2>3. ASSUME NEW p \in Queues, NEW e \in dispatch'[p]
        PROVE  \/ e.notice \in excused'
               \/ \A s \in had[e.notice] :
                    Owed(e.notice, s) =>
                      \/ <<e.notice, s[1], s[2]>> \in tried'
                      \/ s[1] \in e.users \/ s \in e.sends
    <3>1. CASE p # q
      <4>1. e \in dispatch[p]
        BY <1>1, <2>1, <2>3, <3>1
      <4> QED BY <1>k, <2>1, <4>1
    <3>2. CASE p = q /\ excused' = excused \cup {m.notice}
                    /\ dispatch' = [dispatch EXCEPT ![q] =
                                      {[m EXCEPT !.users = @ \ {u}]}]
      <4>1. e = [m EXCEPT !.users = @ \ {u}]
        BY <1>1, <2>3, <3>2
      <4>2. e.notice = m.notice
        BY <2>2, <4>1 DEF Deliveries
      <4> QED BY <3>2, <4>2
    <3>3. CASE p = q /\ UNCHANGED excused
                    /\ dispatch' = [dispatch EXCEPT ![q] =
                      {[m EXCEPT !.users = @ \ {u}, !.sends = Registered({u})]}]
      <4>1. e = [m EXCEPT !.users = @ \ {u}, !.sends = Registered({u})]
        BY <1>1, <2>3, <3>3
      <4>2. /\ e.notice = m.notice /\ e.users = m.users \ {u}
            /\ e.sends = Registered({u})
        BY <2>2, <4>1 DEF Deliveries
      <4>3. ASSUME m.notice \notin excused, NEW s \in had[m.notice], Owed(m.notice, s)
            PROVE  \/ <<m.notice, s[1], s[2]>> \in tried
                   \/ s[1] \in e.users \/ s \in e.sends
        <5>1. \/ <<m.notice, s[1], s[2]>> \in tried
              \/ s[1] \in m.users
          BY <1>k, <2>1, <4>3
        <5>2. s \in Recipients \X Devices /\ s[2] \in fcmTokens[s[1]]
          BY <1>1, <2>2, <4>3, QueuesAssumption DEF OwedInv
        <5>3. s[1] = u => s \in Registered({u})
          BY <5>2 DEF Registered
        <5> QED BY <4>2, <5>1, <5>3
      <4> QED BY <2>1, <3>3, <4>2, <4>3
    <3> QED BY <2>1, <3>1, <3>2, <3>3
  <2>4. excused \subseteq excused' /\ tried \subseteq tried'
    BY <2>1
  <2> QED BY <2>1, <2>3, <2>4, OwedKept
<1>7. ASSUME NEW q \in Queues, SendToDevice(q) PROVE OwedInv'
  <2>1. PICK m \in dispatch[q] : \E t \in m.sends :
          /\ dispatch' = [dispatch EXCEPT ![q] = {[m EXCEPT !.sends = @ \ {t}]}]
          /\ tried' = tried \cup {<<m.notice, t[1], t[2]>>}
    BY <1>7 DEF SendToDevice
  <2>2. PICK t \in m.sends :
          /\ dispatch' = [dispatch EXCEPT ![q] = {[m EXCEPT !.sends = @ \ {t}]}]
          /\ tried' = tried \cup {<<m.notice, t[1], t[2]>>}
    BY <2>1
  <2>3. m \in Deliveries /\ UNCHANGED <<target, place, fcmTokens, had, excused>>
    BY <1>7, DeliveryType DEF SendToDevice
  <2>4. ASSUME NEW p \in Queues, NEW e \in dispatch'[p], NEW s \in had[e.notice],
               Owed(e.notice, s)
        PROVE  \/ <<e.notice, s[1], s[2]>> \in tried'
               \/ s[1] \in e.users \/ s \in e.sends
    <3>1. CASE p # q
      <4>1. e \in dispatch[p]
        BY <1>1, <2>2, <2>4, <3>1
      <4> QED BY <1>k, <2>2, <2>4, <4>1
    <3>2. CASE p = q
      <4>1. e = [m EXCEPT !.sends = @ \ {t}]
        BY <1>1, <2>2, <2>4, <3>2
      <4>2. e.notice = m.notice /\ e.users = m.users /\ e.sends = m.sends \ {t}
        BY <2>3, <4>1 DEF Deliveries
      <4>3. \/ <<m.notice, s[1], s[2]>> \in tried
            \/ s[1] \in m.users \/ s \in m.sends
        BY <1>k, <2>4, <4>2
      <4> QED BY <2>2, <4>2, <4>3
    <3> QED BY <3>1, <3>2
  <2> QED BY <2>2, <2>3, <2>4, OwedKept
<1>8. ASSUME NEW q \in Queues, AckNotice(q) PROVE OwedInv'
  <2>1. PICK m \in dispatch[q] :
          /\ m.users = {} /\ m.sends = {}
          /\ place' = [place EXCEPT ![m.notice] = "gone"]
          /\ dispatch' = [dispatch EXCEPT ![q] = {}]
          /\ UNCHANGED <<target, fcmTokens, tried, had, excused>>
    BY <1>8 DEF AckNotice
  <2>2. m.notice \in Notices /\ place[m.notice] = q
    BY DeliveryType
  <2> SUFFICES ASSUME NEW n \in Notices \ excused, place'[n] # "unpublished",
                      NEW s \in had[n]
               PROVE  s[1] \in target[n] /\ s[2] \in fcmTokens[s[1]] /\ Owed(n, s)'
    BY <2>1 DEF OwedInv
  <2>3. CASE n = m.notice
    <3>1. s[1] \in target[n] /\ s[2] \in fcmTokens[s[1]] /\ Owed(n, s)
      BY <2>2, <2>3, QueuesAssumption DEF OwedInv
    <3>2. <<n, s[1], s[2]>> \in tried
      BY <1>k, <2>1, <2>3, <3>1
    <3> QED BY <2>1, <3>1, <3>2 DEF Owed
  <2>4. CASE n # m.notice
    <3>1. place'[n] = place[n]
      BY <1>1, <2>1, <2>4
    <3>2. s[1] \in target[n] /\ s[2] \in fcmTokens[s[1]] /\ Owed(n, s)
      BY <2>1, <3>1 DEF OwedInv
    <3>3. \A p \in Queues : dispatch'[p] \subseteq dispatch[p]
      BY <1>1, <2>1
    <3> QED BY <2>1, <3>1, <3>2, <3>3 DEF Owed
  <2> QED BY <2>3, <2>4
<1>9. CASE /\ UNCHANGED <<target, place, fcmTokens, tried, had, excused>>
           /\ \A q \in Queues : dispatch'[q] \subseteq dispatch[q]
  BY <1>1, <1>9, <1>k, OwedKept
<1>10. CASE RestartNotification
  BY <1>9, <1>10 DEF RestartNotification
<1>11. ASSUME NEW d \in Devices, Uninstall(d) PROVE OwedInv'
  BY <1>9, <1>11 DEF Uninstall
<1>12. CASE UNCHANGED pushVars
  BY <1>9, <1>12 DEF pushVars
<1> QED BY <1>2, <1>3, <1>4, <1>5, <1>6, <1>7, <1>8, <1>10, <1>11, <1>12
           DEF PushNext

(* For any number of users, devices, queues and messages, and wherever the *)
(* service restarts: consumers stay well typed and handle a message at a   *)
(* time; a message that is gone was sent to every device that its users    *)
(* had when it was published and still have, unless a lookup failed; and a *)
(* device that is registered stays registered, unless FCM refused it since *)
(* or a pull of it was to come when it was registered.                     *)
THEOREM PushSafe == PushSpec => []PushSafety
<1>1. PushInit => PushInv
  <2> SUFFICES ASSUME PushInit PROVE PushInv
    OBVIOUS
  <2>1. PushTyped
    BY DEF PushInit, PushTyped, OneAtATime, Places
  <2>2. OwedInv
    BY DEF PushInit, OwedInv
  <2>3. PullsInv
    BY DEF PushInit, PullsInv, DeviceStaysUnlessRefused
  <2> QED BY <2>1, <2>2, <2>3 DEF PushInv
<1>2. PushInv /\ [PushNext]_pushVars => PushInv'
  BY TypeStep, OwedStep, PullsStep DEF PushInv
<1>3. PushInv => PushSafety
  <2> SUFFICES ASSUME PushInv PROVE PushSafety
    OBVIOUS
  <2>1. ASSUME NEW q \in Queues
        PROVE  dispatch[q] \subseteq Deliveries /\ Cardinality(dispatch[q]) <= 1
    <3>1. dispatch[q] \subseteq Deliveries
      BY DEF PushInv, PushTyped, OneAtATime
    <3>2. dispatch[q] = {} \/ \E m : dispatch[q] = {m}
      BY DEF PushInv, PushTyped, OneAtATime
    <3>3. CASE dispatch[q] = {}
      <4>1. Cardinality(dispatch[q]) = 0
        BY <3>3, FS_EmptySet
      <4> QED BY <3>1, <4>1
    <3>4. ASSUME NEW m, dispatch[q] = {m} PROVE Cardinality(dispatch[q]) <= 1
      <4>1. Cardinality({m}) = 1
        BY FS_Singleton
      <4> QED BY <3>4, <4>1
    <3> QED BY <3>1, <3>2, <3>3, <3>4
  <2>2. PushTypeOK
    BY <2>1 DEF PushInv, PushTyped, PushTypeOK
  <2>3. SentBeforeAcknowledged
    <3> SUFFICES ASSUME NEW n \in Notices \ excused, place[n] = "gone",
                        NEW s \in had[n]
                 PROVE  <<n, s[1], s[2]>> \in tried
      BY DEF SentBeforeAcknowledged
    <3>1. Owed(n, s)
      BY DEF PushInv, OwedInv
    <3> QED BY <3>1, QueuesAssumption DEF Owed
  <2> QED BY <2>2, <2>3 DEF PushSafety, PushInv, PullsInv
<1> QED BY <1>1, <1>2, <1>3, PTL DEF PushSpec

-----------------------------------------------------------------------------
(***************************************************************************)
(* MatchInvites: any number of opponents and of goroutines.                *)
(***************************************************************************)

(* The opponent is about to be invited by at most one goroutine, the one   *)
(* that won its key.                                                       *)
WonOnce ==
    \A g, h \in Invitings : \A o \in Opponents :
        o \in inviting[g].won /\ o \in inviting[h].won => g = h

(* A goroutine has won one key at a time.                                  *)
OneWon ==
    \A g \in Invitings : \A o, p \in Opponents :
        o \in inviting[g].won /\ p \in inviting[g].won => o = p

(* Where the one invitation of a key is: sent, on the way, or lost.        *)
OnePlacePerKey ==
    \A o \in Opponents :
        /\ invited[o] \in {0, 1}
        /\ o \in throttle <=>
             \/ invited[o] = 1
             \/ o \in lost
             \/ \E g \in Invitings : o \in inviting[g].won
        /\ invited[o] = 1 => o \notin lost
        /\ \A g \in Invitings : o \in inviting[g].won =>
             invited[o] = 0 /\ o \notin lost

InviteInv == InviteTypeOK /\ WonOnce /\ OneWon /\ OnePlacePerKey

InviterType == [left : SUBSET Opponents, won : SUBSET Opponents]

-----------------------------------------------------------------------------
LEMMA InviteInvSafe == InviteInv => InviteSafety
<1> SUFFICES ASSUME InviteInv, NEW o \in Opponents
             PROVE  invited[o] + Cardinality({g \in Invitings : o \in inviting[g].won})
                      + (IF o \in lost THEN 1 ELSE 0)
                      = IF o \in throttle THEN 1 ELSE 0
  BY DEF InviteInv, InviteSafety, InvitedOncePerThrottle
<1> DEFINE about == {g \in Invitings : o \in inviting[g].won}
<1>1. /\ invited[o] \in {0, 1}
      /\ o \in throttle <=> invited[o] = 1 \/ o \in lost \/ about # {}
      /\ invited[o] = 1 => o \notin lost
      /\ about # {} => invited[o] = 0 /\ o \notin lost
  BY DEF InviteInv, OnePlacePerKey
<1>2. about = {} \/ \E g \in Invitings : about = {g}
  BY DEF InviteInv, WonOnce
<1> HIDE DEF about
<1>3. about = {} => Cardinality(about) = 0
  BY FS_EmptySet
<1>4. about # {} => Cardinality(about) = 1
  BY <1>2, FS_Singleton
<1> DEFINE n == Cardinality(about)
           l == IF o \in lost THEN 1 ELSE 0
           k == IF o \in throttle THEN 1 ELSE 0
<1>5. n \in {0, 1} /\ (n = 1 <=> about # {})
  BY <1>3, <1>4
<1>6. l \in {0, 1} /\ (l = 1 <=> o \in lost) /\ k \in {0, 1} /\ (k = 1 <=> o \in throttle)
  OBVIOUS
<1>7. invited[o] + n + l = k
  <2> HIDE DEF n, l, k
  <2> QED BY <1>1, <1>5, <1>6
<1> QED BY <1>7 DEF about

LEMMA InviteInit_Inv == InviteInit => InviteInv
BY DEF InviteInit, InviteInv, InviteTypeOK, WonOnce, OneWon, OnePlacePerKey, Ended

(* A goroutine moves on without winning a key or leaving one it has won.   *)
LEMMA LookStep ==
    ASSUME InviteInv, NEW g \in Invitings, NEW r \in InviterType,
           inviting' = [inviting EXCEPT ![g] = r], r.won = inviting[g].won,
           UNCHANGED <<throttle, invited, lost>>
    PROVE  InviteInv'
<1>1. inviting' \in [Invitings -> InviterType]
  BY DEF InviteInv, InviteTypeOK, InviterType
<1>2. \A h \in Invitings : inviting'[h].won = inviting[h].won
  BY DEF InviteInv, InviteTypeOK
<1>3. InviteTypeOK'
  BY <1>1 DEF InviteInv, InviteTypeOK, InviterType
<1> QED BY <1>2, <1>3 DEF InviteInv, WonOnce, OneWon, OnePlacePerKey

LEMMA ReadOpponentsStep ==
    ASSUME InviteInv, NEW g \in Invitings, ReadOpponents(g)
    PROVE  InviteInv'
<1>1. PICK recent \in SUBSET Opponents :
        inviting' = [inviting EXCEPT ![g].left = recent]
  BY DEF ReadOpponents
<1> DEFINE r == [inviting[g] EXCEPT !.left = recent]
<1>2. inviting[g] \in InviterType
  BY DEF InviteInv, InviteTypeOK, InviterType
<1>3. r \in InviterType /\ r.won = inviting[g].won
  BY <1>2 DEF InviterType
<1>4. inviting' = [inviting EXCEPT ![g] = r]
  BY <1>1 DEF InviteInv, InviteTypeOK
<1> HIDE DEF r
<1> QED BY <1>3, <1>4, LookStep DEF ReadOpponents

LEMMA TrySetThrottleStep ==
    ASSUME InviteInv, NEW g \in Invitings, TrySetThrottle(g)
    PROVE  InviteInv'
<1>1. PICK o \in inviting[g].left :
        /\ inviting[g].won = {}
        /\ \/ /\ o \in Opponents \ throttle
              /\ throttle' = throttle \cup {o}
              /\ inviting' = [inviting EXCEPT ![g].left = @ \ {o}, ![g].won = {o}]
              /\ UNCHANGED lost
           \/ /\ o \in Opponents \ throttle
              /\ throttle' = throttle \cup {o}
              /\ inviting' = [inviting EXCEPT ![g].left = @ \ {o}]
              /\ lost' = lost \cup {o}
           \/ /\ inviting' = [inviting EXCEPT ![g].left = @ \ {o}]
              /\ UNCHANGED <<throttle, lost>>
        /\ UNCHANGED invited
  BY DEF TrySetThrottle, ThrottleFrom
<1> DEFINE old == inviting[g]
           r == [old EXCEPT !.left = @ \ {o}]
           w == [old EXCEPT !.left = @ \ {o}, !.won = {o}]
<1>2. old \in InviterType
  BY DEF InviteInv, InviteTypeOK, InviterType
<1>3. /\ r \in InviterType /\ r.won = old.won
      /\ o \in Opponents /\ w \in InviterType /\ w.won = {o}
  BY <1>1, <1>2 DEF InviterType
<1>4. CASE /\ inviting' = [inviting EXCEPT ![g].left = @ \ {o}]
           /\ UNCHANGED <<throttle, lost>>
  <2>1. inviting' = [inviting EXCEPT ![g] = r]
    BY <1>4 DEF InviteInv, InviteTypeOK
  <2> HIDE DEF r
  <2> QED BY <1>1, <1>3, <1>4, <2>1, LookStep
<1>5. CASE /\ o \in Opponents \ throttle
           /\ throttle' = throttle \cup {o}
           /\ inviting' = [inviting EXCEPT ![g].left = @ \ {o}, ![g].won = {o}]
           /\ UNCHANGED lost
  <2>1. inviting' = [inviting EXCEPT ![g] = w]
    BY <1>5 DEF InviteInv, InviteTypeOK
  <2> HIDE DEF w
  <2>2. \A h \in Invitings : inviting'[h].won = IF h = g THEN {o} ELSE inviting[h].won
    BY <1>3, <2>1 DEF InviteInv, InviteTypeOK
  <2>3. InviteTypeOK'
    <3>1. inviting' \in [Invitings -> InviterType]
      BY <1>3, <2>1 DEF InviteInv, InviteTypeOK, InviterType
    <3> QED BY <1>1, <1>5, <3>1 DEF InviteInv, InviteTypeOK, InviterType
  <2>4. /\ invited[o] = 0 /\ o \notin lost
        /\ \A h \in Invitings : o \notin inviting[h].won
    BY <1>5 DEF InviteInv, OnePlacePerKey
  <2>5. WonOnce' /\ OneWon'
    BY <2>2, <2>4, <1>1 DEF InviteInv, WonOnce, OneWon
  <2>6. OnePlacePerKey'
    <3> SUFFICES ASSUME NEW p \in Opponents
                 PROVE  /\ invited[p] \in {0, 1}
                        /\ p \in throttle' <=>
                             \/ invited[p] = 1
                             \/ p \in lost
                             \/ \E h \in Invitings : p \in inviting'[h].won
                        /\ invited[p] = 1 => p \notin lost
                        /\ \A h \in Invitings : p \in inviting'[h].won =>
                             invited[p] = 0 /\ p \notin lost
      BY <1>1, <1>5 DEF OnePlacePerKey
    <3>1. /\ invited[p] \in {0, 1}
          /\ p \in throttle <=>
               \/ invited[p] = 1
               \/ p \in lost
               \/ \E h \in Invitings : p \in inviting[h].won
          /\ invited[p] = 1 => p \notin lost
          /\ \A h \in Invitings : p \in inviting[h].won =>
               invited[p] = 0 /\ p \notin lost
      BY DEF InviteInv, OnePlacePerKey
    <3>2. CASE p = o
      BY <1>5, <2>2, <2>4, <3>2
    <3>3. CASE p # o
      <4>1. \A h \in Invitings : p \in inviting'[h].won <=> p \in inviting[h].won
        BY <1>1, <2>2, <3>3
      <4>2. p \in throttle' <=> p \in throttle
        BY <1>5, <3>3
      <4> QED BY <3>1, <4>1, <4>2
    <3> QED BY <3>2, <3>3
  <2> QED BY <2>3, <2>5, <2>6 DEF InviteInv
<1>6. CASE /\ o \in Opponents \ throttle
           /\ throttle' = throttle \cup {o}
           /\ inviting' = [inviting EXCEPT ![g].left = @ \ {o}]
           /\ lost' = lost \cup {o}
  <2>1. inviting' = [inviting EXCEPT ![g] = r]
    BY <1>6 DEF InviteInv, InviteTypeOK
  <2> HIDE DEF r
  <2>2. \A h \in Invitings : inviting'[h].won = inviting[h].won
    BY <1>3, <2>1 DEF InviteInv, InviteTypeOK
  <2>3. inviting' \in [Invitings -> InviterType]
    BY <1>3, <2>1 DEF InviteInv, InviteTypeOK, InviterType
  <2>4. InviteTypeOK'
    BY <1>1, <1>6, <2>3 DEF InviteInv, InviteTypeOK, InviterType
  <2>5. /\ invited[o] = 0 /\ o \notin lost
        /\ \A h \in Invitings : o \notin inviting[h].won
    BY <1>6 DEF InviteInv, OnePlacePerKey
  <2>6. WonOnce' /\ OneWon'
    BY <2>2 DEF InviteInv, WonOnce, OneWon
  <2>7. OnePlacePerKey'
    BY <1>1, <1>6, <2>2, <2>5 DEF InviteInv, OnePlacePerKey
  <2> QED BY <2>4, <2>6, <2>7 DEF InviteInv
<1> QED BY <1>1, <1>4, <1>5, <1>6

(* A goroutine's invitation is sent or lost.                               *)
LEMMA LeaveStep ==
    ASSUME InviteInv, NEW g \in Invitings, NEW r \in InviterType,
           inviting' = [inviting EXCEPT ![g] = r], r.won = {},
           UNCHANGED throttle,
           \/ /\ lost' = lost \cup inviting[g].won
              /\ UNCHANGED invited
           \/ /\ \E o \in Opponents :
                   /\ inviting[g].won = {o}
                   /\ invited' = [invited EXCEPT ![o] = @ + 1]
              /\ UNCHANGED lost
    PROVE  InviteInv'
<1>1. \A h \in Invitings : inviting'[h].won = IF h = g THEN {} ELSE inviting[h].won
  BY DEF InviteInv, InviteTypeOK
<1>2. inviting' \in [Invitings -> InviterType]
  BY DEF InviteInv, InviteTypeOK, InviterType
<1>3. inviting[g].won \subseteq Opponents
  BY DEF InviteInv, InviteTypeOK
<1>4. WonOnce' /\ OneWon'
  BY <1>1 DEF InviteInv, WonOnce, OneWon
<1>5. \A p \in Opponents : \A h \in Invitings \ {g} :
        p \in inviting[g].won => p \notin inviting[h].won
  BY DEF InviteInv, WonOnce
<1>6. \A p \in Opponents :
        /\ invited[p] \in {0, 1}
        /\ p \in throttle <=>
             \/ invited[p] = 1
             \/ p \in lost
             \/ \E h \in Invitings : p \in inviting[h].won
        /\ invited[p] = 1 => p \notin lost
        /\ \A h \in Invitings : p \in inviting[h].won =>
             invited[p] = 0 /\ p \notin lost
  BY DEF InviteInv, OnePlacePerKey
<1>7. CASE lost' = lost \cup inviting[g].won /\ UNCHANGED invited
  <2>1. InviteTypeOK'
    BY <1>2, <1>3, <1>7 DEF InviteInv, InviteTypeOK, InviterType
  <2>2. OnePlacePerKey'
    BY <1>1, <1>5, <1>6, <1>7 DEF OnePlacePerKey
  <2> QED BY <1>4, <2>1, <2>2 DEF InviteInv
<1>8. CASE /\ \E o \in Opponents :
                /\ inviting[g].won = {o}
                /\ invited' = [invited EXCEPT ![o] = @ + 1]
           /\ UNCHANGED lost
  <2>1. PICK o \in Opponents :
          inviting[g].won = {o} /\ invited' = [invited EXCEPT ![o] = @ + 1]
    BY <1>8
  <2>2. invited[o] = 0 /\ o \notin lost /\ o \in throttle
    BY <1>6, <2>1
  <2>3. \A p \in Opponents : invited'[p] = IF p = o THEN 1 ELSE invited[p]
    BY <2>1, <2>2 DEF InviteInv, InviteTypeOK
  <2>4. InviteTypeOK'
    BY <1>2, <1>8, <2>1 DEF InviteInv, InviteTypeOK, InviterType
  <2>5. OnePlacePerKey'
    BY <1>1, <1>5, <1>6, <1>8, <2>1, <2>2, <2>3 DEF OnePlacePerKey
  <2> QED BY <1>4, <2>4, <2>5 DEF InviteInv
<1> QED BY <1>7, <1>8

LEMMA PublishInviteStep ==
    ASSUME InviteInv, NEW g \in Invitings, PublishInvite(g)
    PROVE  InviteInv'
<1>1. PICK o \in inviting[g].won :
        /\ \/ invited' = [invited EXCEPT ![o] = @ + 1] /\ UNCHANGED lost
           \/ lost' = lost \cup {o} /\ UNCHANGED invited
        /\ inviting' = [inviting EXCEPT ![g].won = {}]
        /\ UNCHANGED throttle
  BY DEF PublishInvite
<1> DEFINE r == [inviting[g] EXCEPT !.won = {}]
<1>2. inviting[g] \in InviterType
  BY DEF InviteInv, InviteTypeOK, InviterType
<1>3. r \in InviterType /\ r.won = {} /\ o \in Opponents
  BY <1>1, <1>2 DEF InviterType
<1>4. inviting' = [inviting EXCEPT ![g] = r]
  BY <1>1 DEF InviteInv, InviteTypeOK
<1> HIDE DEF r
<1>5. inviting[g].won = {o}
  BY <1>1, <1>2 DEF InviteInv, OneWon, InviterType
<1> QED BY <1>1, <1>3, <1>4, <1>5, LeaveStep

LEMMA StopInvitingStep ==
    ASSUME InviteInv, NEW g \in Invitings, StopInviting(g)
    PROVE  InviteInv'
<1>1. Ended \in InviterType /\ Ended.won = {}
  BY DEF Ended, InviterType
<1> QED BY <1>1, LeaveStep DEF StopInviting

(* When a key expires its invitation is sent or lost.                      *)
LEMMA ExpireThrottleStep ==
    ASSUME InviteInv, NEW o \in Opponents, ExpireThrottle(o)
    PROVE  InviteInv'
<1>1. /\ \A g \in Invitings : o \notin inviting[g].won
      /\ throttle' = throttle \ {o}
      /\ invited' = [invited EXCEPT ![o] = 0]
      /\ lost' = lost \ {o}
      /\ UNCHANGED inviting
  BY DEF ExpireThrottle
<1>2. \A p \in Opponents : invited'[p] = IF p = o THEN 0 ELSE invited[p]
  BY <1>1 DEF InviteInv, InviteTypeOK
<1>3. InviteTypeOK'
  BY <1>1 DEF InviteInv, InviteTypeOK
<1>4. WonOnce' /\ OneWon'
  BY <1>1 DEF InviteInv, WonOnce, OneWon
<1>5. OnePlacePerKey'
  BY <1>1, <1>2 DEF InviteInv, OnePlacePerKey
<1> QED BY <1>3, <1>4, <1>5 DEF InviteInv

LEMMA InviteStep == InviteInv /\ [InviteNext]_inviteVars => InviteInv'
<1> SUFFICES ASSUME InviteInv, [InviteNext]_inviteVars PROVE InviteInv'
  OBVIOUS
<1>1. CASE UNCHANGED inviteVars
  BY <1>1 DEF inviteVars, InviteInv, InviteTypeOK, WonOnce, OneWon, OnePlacePerKey
<1>2. CASE InviteNext
  BY <1>2, ReadOpponentsStep, TrySetThrottleStep, PublishInviteStep,
     StopInvitingStep, ExpireThrottleStep DEF InviteNext
<1> QED BY <1>1, <1>2

(* However many goroutines look at the same opponent, and whichever of     *)
(* their calls fail, an opponent whose key is set was invited once, or is  *)
(* about to be, or its one invitation was lost.                            *)
THEOREM InvitesThrottled == InviteSpec => []InviteSafety
BY InviteInit_Inv, InviteStep, InviteInvSafe, PTL DEF InviteSpec

-----------------------------------------------------------------------------
(***************************************************************************)
(* Tournaments: any number of tournaments, users and requests.             *)
(***************************************************************************)

(* The ticker looks next: now if a tick waits, or at the next multiple of  *)
(* TickEvery after it was made.                                            *)
Chance(c, p, waits) == IF waits THEN c ELSE c + TickEvery - ((c - p) % TickEvery)
NextChance == Chance(clock, phase, tick)

InPass(t) == \E n \in DOMAIN pass : pass[n].tourney = t

Opened(t) == clock + WindowEnd >= start[t]

(* A document of a pass was read after its window opened, with everyone    *)
(* who had joined by then; if nothing was missed it was found at the       *)
(* window's first tick.                                                    *)
DocsFit ==
    \A n \in DOMAIN pass :
        LET t == pass[n].tourney IN
        /\ Opened(t)
        /\ early[t] \subseteq pass[n].todo \cup reminded[t] \cup unpublished[t]
        /\ misses = 0 => clock + WindowEnd < start[t] + TickEvery

MarkedFit ==
    \A t \in Tourneys :
        reminderSent[t] =>
            Opened(t) /\ early[t] \subseteq reminded[t] \cup unpublished[t]

EarlyJoined == \A t \in Tourneys : early[t] \subseteq participants[t]

(* A tournament that was not found yet can still be found, at the first    *)
(* tick of its window, or with one miss at the second.                     *)
ChancesLeft ==
    \A t \in Tourneys :
        Opened(t) /\ ~ reminderSent[t] /\ ~ InPass(t) =>
            /\ misses = 0 => NextChance + WindowEnd < start[t] + TickEvery
            /\ misses = 1 => NextChance + WindowEnd < start[t] + 2 * TickEvery

(* Only participants are in a pass or were in one, and a tournament of the *)
(* seed has none.                                                          *)
JoinedInv ==
    /\ \A t \in Tourneys : reminded[t] \cup unpublished[t] \subseteq participants[t]
    /\ \A t \in Tourneys : t \notin TextIds => participants[t] = {}
    /\ \A n \in DOMAIN pass : pass[n].todo \subseteq participants[pass[n].tourney]

TourneyInv ==
    /\ TourneyTypeOK
    /\ phase <= clock
    /\ DocsFit /\ MarkedFit /\ EarlyJoined /\ ChancesLeft

-----------------------------------------------------------------------------
(* Division.                                                               *)
LEMMA Remainder ==
    ASSUME NEW n \in Nat, NEW T \in Nat \ {0}
    PROVE  n % T \in 0..(T - 1) /\ n \div T \in Int /\ n = T * (n \div T) + (n % T)
OBVIOUS

LEMMA MultiplesApart ==
    ASSUME NEW k \in Int, NEW T \in Nat \ {0}
    PROVE  (k >= 2 => T * k >= 2 * T) /\ (k <= -1 => T * k <= -T)
OBVIOUS

LEMMA NextRemainder ==
    ASSUME NEW n \in Nat, NEW T \in Nat \ {0}
    PROVE  /\ n % T = T - 1 => (n + 1) % T = 0
           /\ n % T # T - 1 => (n + 1) % T = (n % T) + 1
<1> DEFINE q == n \div T
           r == n % T
           p == (n + 1) \div T
           s == (n + 1) % T
<1>1. n = T * q + r /\ q \in Int /\ r \in Int /\ 0 <= r /\ r <= T - 1
  BY Remainder
<1>2. n + 1 = T * p + s /\ p \in Int /\ s \in Int /\ 0 <= s /\ s <= T - 1
  BY Remainder
<1> HIDE DEF q, r, p, s
<1>3. T * (p - q) = 1 + r - s
  BY <1>1, <1>2
<1>4. p - q \in Int /\ p - q < 2 /\ p - q > -1
  BY <1>1, <1>2, <1>3, MultiplesApart
<1>5. CASE p - q = 0
  BY <1>1, <1>2, <1>3, <1>5
<1>6. CASE p - q = 1
  BY <1>1, <1>2, <1>3, <1>6
<1> QED BY <1>4, <1>5, <1>6 DEF r, s

(* The next chance is at most a tick away ...                              *)
LEMMA ChanceBounds ==
    ASSUME NEW c \in Nat, NEW p \in Nat, p <= c, NEW k \in BOOLEAN
    PROVE  Chance(c, p, k) \in Nat /\ c <= Chance(c, p, k)
           /\ Chance(c, p, k) <= c + TickEvery
<1>1. TickEvery \in Nat \ {0} /\ c - p \in Nat
  BY TourneysAssumption
<1> DEFINE r == (c - p) % TickEvery
<1>2. r \in 0..(TickEvery - 1)
  BY <1>1, Remainder
<1> HIDE DEF r
<1>3. Chance(c, p, k) = IF k THEN c ELSE c + TickEvery - r
  BY DEF Chance, r
<1> QED BY <1>1, <1>2, <1>3

(* ... and does not move away as time passes, unless a tick is late.       *)
LEMMA ChanceWaits ==
    ASSUME NEW c \in Nat, NEW p \in Nat, p <= c, NEW k \in BOOLEAN, NEW m \in BOOLEAN,
           m <=> k \/ ((c + 1) - p) % TickEvery = 0
    PROVE  /\ Chance(c + 1, p, m) < c + 1 + TickEvery
           /\ k => Chance(c + 1, p, m) = Chance(c, p, k) + 1
           /\ ~ k => Chance(c + 1, p, m) = Chance(c, p, k)
<1>1. TickEvery \in Nat \ {0} /\ c - p \in Nat /\ (c + 1) - p = (c - p) + 1
      /\ (c - p) + 1 \in Nat
  BY TourneysAssumption
<1> DEFINE r == (c - p) % TickEvery
           s == ((c + 1) - p) % TickEvery
<1>2. r \in 0..(TickEvery - 1) /\ s \in 0..(TickEvery - 1)
  BY <1>1, Remainder
<1>3. IF r = TickEvery - 1 THEN s = 0 ELSE s = r + 1
  BY <1>1, NextRemainder
<1>4. /\ Chance(c, p, k) = IF k THEN c ELSE c + TickEvery - r
      /\ Chance(c + 1, p, m) = IF m THEN c + 1 ELSE c + 1 + TickEvery - s
      /\ m <=> k \/ s = 0
  BY DEF Chance
<1> HIDE DEF r, s
<1> QED BY <1>1, <1>2, <1>3, <1>4

-----------------------------------------------------------------------------
(* The cursor of a query has each document once.                           *)
LEMMA SetToSeqHasAll ==
    ASSUME NEW S, IsFiniteSet(S)
    PROVE  /\ Cardinality(S) \in Nat
           /\ SetToSeq(S) \in [1..Cardinality(S) -> S]
           /\ \A x \in S : \E n \in 1..Cardinality(S) : SetToSeq(S)[n] = x
<1> DEFINE N == Cardinality(S)
           D == 1..N
<1>1. N \in Nat /\ ExistsBijection(D, S)
  BY FS_CardinalityType
<1>2. PICK g : g \in Bijection(D, S)
  BY <1>1 DEF ExistsBijection
<1>3. g \in [D -> S] /\ IsInjective(g)
  BY <1>2 DEF Bijection, Injection
<1>4. SetToSeq(S) \in [D -> S] /\ IsInjective(SetToSeq(S))
  BY <1>3 DEF SetToSeq
<1>5. SetToSeq(S) \in Injection(D, S)
  BY <1>4 DEF Injection
<1>6. IsFiniteSet(D) /\ Cardinality(D) = N
  <2> HIDE DEF N
  <2> QED BY <1>1, FS_Interval
<1>7. SetToSeq(S) \in Surjection(D, S)
  BY <1>5, <1>6, FS_Injection
<1> HIDE DEF D
<1>8. \A x \in S : \E n \in D : SetToSeq(S)[n] = x
  BY <1>7, Fun_SurjectionProperties
<1> QED BY <1>1, <1>4, <1>8 DEF D

LEMMA TourneyFacts ==
    ASSUME TourneyInv
    PROVE  /\ clock \in Nat /\ phase \in Nat /\ phase <= clock
           /\ tick \in BOOLEAN /\ misses \in Nat
           /\ \A t \in Tourneys : start[t] \in Nat
           /\ \A n \in DOMAIN pass : pass[n] \in Docs /\ pass[n].tourney \in Tourneys
                                    /\ pass[n].todo \subseteq Entrants
           /\ NextChance \in Nat /\ clock <= NextChance
           /\ NextChance <= clock + TickEvery
<1>1. /\ clock \in Nat /\ phase \in Nat /\ phase <= clock
      /\ tick \in BOOLEAN /\ misses \in Nat
      /\ pass \in Seq(Docs)
      /\ start \in [Tourneys -> Starts]
  BY DEF TourneyInv, TourneyTypeOK
<1>2. \A t \in Tourneys : start[t] \in Nat
  BY <1>1, TourneysAssumption
<1>3. \A n \in DOMAIN pass : pass[n] \in Docs
  BY <1>1
<1>4. NextChance \in Nat /\ clock <= NextChance /\ NextChance <= clock + TickEvery
  BY <1>1, ChanceBounds DEF NextChance
<1> QED BY <1>1, <1>2, <1>3, <1>4 DEF Docs

LEMMA WindowFacts ==
    /\ TickEvery \in Nat \ {0} /\ WindowStart \in Nat /\ WindowEnd \in Nat
    /\ 2 * TickEvery <= WindowEnd - WindowStart
BY TourneysAssumption, WindowAssumption

LEMMA TourneyInvSafe == TourneyInv /\ JoinedInv => ReminderSafety
<1> SUFFICES ASSUME TourneyInv, JoinedInv PROVE ReminderSafety
  OBVIOUS
<1>1. TourneyTypeOK
  BY DEF TourneyInv
<1>2. RemindedWhenMarked
  BY DEF TourneyInv, MarkedFit, RemindedWhenMarked
<1>3. RemindedDespiteOneMiss
  <2> SUFFICES ASSUME NEW t \in Tourneys, clock + WindowStart > start[t],
                      misses <= 1, ~ reminderSent[t], ~ InPass(t)
               PROVE  FALSE
    BY DEF RemindedDespiteOneMiss, InPass
  <2>1. clock + WindowStart > start[t] /\ start[t] \in Nat /\ clock \in Nat
    BY TourneyFacts
  <2>2. Opened(t)
    BY <2>1, WindowFacts DEF Opened
  <2>3. misses = 0 \/ misses = 1
    BY TourneyFacts
  <2>4. /\ misses = 0 => NextChance + WindowEnd < start[t] + TickEvery
        /\ misses = 1 => NextChance + WindowEnd < start[t] + 2 * TickEvery
    BY <2>2 DEF TourneyInv, ChancesLeft
  <2>5. NextChance \in Nat /\ clock <= NextChance
    BY TourneyFacts
  <2> QED BY <2>1, <2>3, <2>4, <2>5, WindowFacts
<1>4. OnlyParticipantsReminded
  BY DEF JoinedInv, OnlyParticipantsReminded
<1> QED BY <1>1, <1>2, <1>3, <1>4 DEF ReminderSafety

-----------------------------------------------------------------------------
LEMMA TourneyInit_Inv == TourneyInit => TourneyInv
<1> SUFFICES ASSUME TourneyInit PROVE TourneyInv
  OBVIOUS
<1>1. TourneyTypeOK
  <2>1. pass = <<>> /\ <<>> \in Seq(Docs)
    BY DEF TourneyInit
  <2>2. joining \in [Joins -> (Entrants \X TextIds) \cup {<<>>}]
    BY DEF TourneyInit
  <2>3. /\ clock \in Nat /\ phase \in Nat /\ misses \in Nat /\ tick \in BOOLEAN
        /\ start \in [Tourneys -> Starts] /\ reminderSent \in [Tourneys -> BOOLEAN]
        /\ participants \in [Tourneys -> SUBSET Entrants]
        /\ reminded \in [Tourneys -> SUBSET Entrants]
        /\ unpublished \in [Tourneys -> SUBSET Entrants]
        /\ early \in [Tourneys -> SUBSET Entrants]
    BY DEF TourneyInit
  <2> QED BY <2>1, <2>2, <2>3 DEF TourneyTypeOK
<1>2. \A t \in Tourneys : ~ Opened(t)
  <2> SUFFICES ASSUME NEW t \in Tourneys PROVE ~ 0 + WindowEnd >= start[t]
    BY DEF TourneyInit, Opened
  <2>1. start[t] \in Starts
    BY DEF TourneyInit
  <2>2. start[t] \in Nat /\ WindowEnd \in Nat /\ WindowEnd < start[t]
    BY <2>1, TourneysAssumption
  <2> QED BY <2>2
<1>3. DocsFit
  BY DEF TourneyInit, DocsFit
<1>4. MarkedFit /\ EarlyJoined
  BY DEF TourneyInit, MarkedFit, EarlyJoined
<1>5. ChancesLeft
  BY <1>2 DEF ChancesLeft
<1>6. phase <= clock
  BY DEF TourneyInit
<1> QED BY <1>1, <1>3, <1>4, <1>5, <1>6 DEF TourneyInv

(* JoinTournament leaves alone what the ticker knows; participants are     *)
(* only added.                                                             *)
LEMMA JoinSteps ==
    ASSUME TourneyInv,
           participants' \in [Tourneys -> SUBSET Entrants],
           \A t \in Tourneys : participants[t] \subseteq participants'[t],
           joining' \in [Joins -> (Entrants \X TextIds) \cup {<<>>}],
           UNCHANGED <<clock, start, reminderSent, phase, tick, pass, reminded,
                       unpublished, early, misses>>
    PROVE  TourneyInv'
<1>1. TourneyTypeOK'
  BY DEF TourneyInv, TourneyTypeOK
<1>2. EarlyJoined'
  BY DEF TourneyInv, EarlyJoined
<1>3. (phase <= clock)'
  BY DEF TourneyInv
<1>4. DocsFit'
  BY DEF TourneyInv, DocsFit, Opened
<1>5. MarkedFit'
  BY DEF TourneyInv, MarkedFit, Opened
<1>6. NextChance' = NextChance
  BY DEF NextChance, Chance
<1>7. \A t : InPass(t)' <=> InPass(t)
  BY DEF InPass
<1>8. ChancesLeft'
  BY <1>6, <1>7 DEF TourneyInv, ChancesLeft, Opened
<1> QED BY <1>1, <1>2, <1>3, <1>4, <1>5, <1>8 DEF TourneyInv

LEMMA JoinTournamentStep ==
    ASSUME TourneyInv, NEW j \in Joins, NEW u \in Entrants, NEW t \in Tourneys,
           JoinTournament(j, u, t)
    PROVE  TourneyInv'
<1>1. joining' = [joining EXCEPT ![j] = <<u, t>>] /\ t \in TextIds
      /\ UNCHANGED <<clock, start, participants, reminderSent, phase, tick, pass,
                     reminded, unpublished, early, misses>>
  BY DEF JoinTournament
<1>2. joining' \in [Joins -> (Entrants \X TextIds) \cup {<<>>}]
  BY <1>1 DEF TourneyInv, TourneyTypeOK
<1> QED BY <1>1, <1>2, JoinSteps DEF TourneyInv, TourneyTypeOK

LEMMA AddParticipantStep ==
    ASSUME TourneyInv, NEW j \in Joins, AddParticipant(j)
    PROVE  TourneyInv'
<1> DEFINE u == joining[j][1]
           t == joining[j][2]
<1>1. /\ joining[j] # <<>>
      /\ \/ participants' = [participants EXCEPT ![t] = @ \cup {u}]
         \/ UNCHANGED participants
      /\ joining' = [joining EXCEPT ![j] = <<>>]
      /\ UNCHANGED <<clock, start, reminderSent, phase, tick, pass, reminded,
                     unpublished, early, misses>>
  BY DEF AddParticipant
<1>2. joining[j] \in Entrants \X TextIds
  BY <1>1 DEF TourneyInv, TourneyTypeOK
<1>3. u \in Entrants /\ t \in Tourneys
  BY <1>2, TourneysAssumption
<1> HIDE DEF u, t
<1>4. participants \in [Tourneys -> SUBSET Entrants]
  BY DEF TourneyInv, TourneyTypeOK
<1>5. /\ participants' \in [Tourneys -> SUBSET Entrants]
      /\ \A v \in Tourneys : participants[v] \subseteq participants'[v]
  BY <1>1, <1>3, <1>4
<1>6. joining' \in [Joins -> (Entrants \X TextIds) \cup {<<>>}]
  BY <1>1 DEF TourneyInv, TourneyTypeOK
<1> QED BY <1>1, <1>5, <1>6, JoinSteps

-----------------------------------------------------------------------------
(* A tick's query finds every tournament in its window that is not marked. *)
LEMMA FindStep == TourneyInv /\ FindTournaments => TourneyInv'
<1> SUFFICES ASSUME TourneyInv, FindTournaments PROVE TourneyInv'
  OBVIOUS
<1> DEFINE S == {t \in Tourneys : Due(t)}
           found == SetToSeq(S)
           docs == [n \in DOMAIN found |->
                      [tourney |-> found[n], todo |-> participants[found[n]]]]
<1>1. /\ tick /\ pass = <<>> /\ tick' = FALSE
      /\ \/ pass' = docs /\ UNCHANGED misses
         \/ misses' = misses + 1 /\ UNCHANGED pass
      /\ UNCHANGED <<clock, start, participants, reminderSent, joining, phase,
                     reminded, unpublished, early>>
  BY DEF FindTournaments
<1>2. NextChance = clock
  BY <1>1 DEF NextChance, Chance
<1>3. NextChance' \in Nat /\ NextChance' <= clock + TickEvery
  <2>1. NextChance' = Chance(clock, phase, FALSE)
    BY <1>1 DEF NextChance, Chance
  <2> QED BY <2>1, TourneyFacts, ChanceBounds
<1>4. \A t \in Tourneys : ~ InPass(t)
  BY <1>1 DEF InPass
<1>5. \A t \in Tourneys : start[t] \in Nat /\ (Opened(t)' <=> Opened(t))
  BY <1>1, TourneyFacts DEF Opened
<1>6. EarlyJoined' /\ MarkedFit' /\ (phase <= clock)'
  BY <1>1 DEF TourneyInv, EarlyJoined, MarkedFit, Opened
<1>7. CASE misses' = misses + 1 /\ UNCHANGED pass
  <2>1. TourneyTypeOK'
    <3>1. misses' \in Nat
      BY <1>7, TourneyFacts
    <3>2. tick' \in BOOLEAN
      BY <1>1
    <3> QED BY <1>1, <1>7, <3>1, <3>2 DEF TourneyInv, TourneyTypeOK
  <2>2. DocsFit'
    BY <1>1, <1>7 DEF DocsFit
  <2>3. ChancesLeft'
    <3> SUFFICES ASSUME NEW t \in Tourneys, Opened(t), ~ reminderSent[t]
                 PROVE  /\ misses' # 0
                        /\ misses' = 1 =>
                             NextChance' + WindowEnd < start[t] + 2 * TickEvery
      BY <1>1, <1>5 DEF ChancesLeft
    <3>1. misses = 0 => clock + WindowEnd < start[t] + TickEvery
      BY <1>2, <1>4 DEF TourneyInv, ChancesLeft
    <3> QED BY <1>3, <1>5, <1>7, <3>1, TourneyFacts, WindowFacts
  <2> QED BY <1>6, <2>1, <2>2, <2>3 DEF TourneyInv
<1>8. CASE pass' = docs /\ UNCHANGED misses
  <2>1. IsFiniteSet(S)
    BY TourneysAssumption, FS_Subset
  <2> DEFINE N == Cardinality(S)
  <2>2. N \in Nat /\ found \in [1..N -> S]
    BY <2>1, SetToSeqHasAll
  <2>3. \A t \in S : \E n \in 1..N : found[n] = t
    BY <2>1, SetToSeqHasAll
  <2> HIDE DEF found, N
  <2>4. docs = [n \in 1..N |->
                  [tourney |-> found[n], todo |-> participants[found[n]]]]
    BY <2>2
  <2>5. participants \in [Tourneys -> SUBSET Entrants]
    BY DEF TourneyInv, TourneyTypeOK
  <2>6. \A n \in 1..N :
          /\ found[n] \in Tourneys /\ Due(found[n])
          /\ docs[n].tourney = found[n]
          /\ docs[n].todo = participants[found[n]]
          /\ docs[n] \in Docs
    BY <2>2, <2>4, <2>5 DEF Docs
  <2>7. docs \in Seq(Docs) /\ DOMAIN docs = 1..N
    BY <2>2, <2>4, <2>6
  <2> HIDE DEF docs, S
  <2>8. TourneyTypeOK'
    BY <1>1, <1>8, <2>7 DEF TourneyInv, TourneyTypeOK
  <2>9. DocsFit'
    <3> SUFFICES ASSUME NEW n \in 1..N
                 PROVE  LET t == docs[n].tourney IN
                        /\ Opened(t)
                        /\ early[t] \subseteq docs[n].todo \cup reminded[t] \cup unpublished[t]
                        /\ misses = 0 => clock + WindowEnd < start[t] + TickEvery
      BY <1>1, <1>8, <2>7 DEF DocsFit, Opened
    <3> DEFINE t == found[n]
    <3>1. t \in Tourneys /\ Due(t) /\ docs[n].tourney = t /\ docs[n].todo = participants[t]
      BY <2>6
    <3> HIDE DEF t
    <3>2. start[t] <= clock + WindowEnd /\ ~ reminderSent[t]
      BY <3>1 DEF Due
    <3>3. Opened(t)
      BY <1>5, <3>1, <3>2, TourneyFacts, WindowFacts DEF Opened
    <3>4. misses = 0 => clock + WindowEnd < start[t] + TickEvery
      BY <1>2, <1>4, <3>1, <3>2, <3>3 DEF TourneyInv, ChancesLeft
    <3>5. early[t] \subseteq participants[t]
      BY <3>1 DEF TourneyInv, EarlyJoined
    <3> QED BY <3>1, <3>3, <3>4, <3>5
  <2>10. ChancesLeft'
    <3> SUFFICES ASSUME NEW t \in Tourneys, Opened(t), ~ reminderSent[t], ~ InPass(t)'
                 PROVE  misses # 0 /\ misses # 1
      BY <1>1, <1>5, <1>8 DEF ChancesLeft
    <3>1. ~ Due(t)
      BY <1>8, <2>3, <2>6, <2>7 DEF InPass, S
    <3>2. clock + WindowStart > start[t]
      <4>1. start[t] <= clock + WindowEnd
        BY <1>5, TourneyFacts, WindowFacts DEF Opened
      <4>2. ~ (clock + WindowStart <= start[t])
        BY <3>1, <4>1 DEF Due
      <4> QED BY <1>5, <4>2, TourneyFacts, WindowFacts
    <3>3. /\ misses = 0 => clock + WindowEnd < start[t] + TickEvery
          /\ misses = 1 => clock + WindowEnd < start[t] + 2 * TickEvery
      BY <1>2, <1>4 DEF TourneyInv, ChancesLeft
    <3> QED BY <1>5, <3>2, <3>3, TourneyFacts, WindowFacts
  <2> QED BY <1>6, <2>8, <2>9, <2>10 DEF TourneyInv
<1> QED BY <1>1, <1>7, <1>8

(* A user leaves those to be reminded for those that were, or whose        *)
(* reminder was lost.                                                      *)
LEMMA PublishReminderStep == TourneyInv /\ PublishReminder => TourneyInv'
<1> SUFFICES ASSUME TourneyInv, PublishReminder PROVE TourneyInv'
  OBVIOUS
<1> DEFINE t == Head(pass).tourney
<1>1. PICK u \in Head(pass).todo :
        /\ pass # <<>>
        /\ pass' = [pass EXCEPT ![1].todo = @ \ {u}]
        /\ \/ /\ reminded' = [reminded EXCEPT ![t] = @ \cup {u}]
              /\ UNCHANGED unpublished
           \/ /\ unpublished' = [unpublished EXCEPT ![t] = @ \cup {u}]
              /\ UNCHANGED reminded
        /\ UNCHANGED <<clock, start, participants, reminderSent, joining, phase,
                       tick, early, misses>>
  BY DEF PublishReminder
<1>2. /\ pass \in Seq(Docs) /\ Len(pass) \in Nat /\ DOMAIN pass = 1..Len(pass)
      /\ reminded \in [Tourneys -> SUBSET Entrants]
      /\ unpublished \in [Tourneys -> SUBSET Entrants]
  BY DEF TourneyInv, TourneyTypeOK
<1>3. 1 \in DOMAIN pass /\ Head(pass) = pass[1] /\ pass[1] \in Docs
  BY <1>1, <1>2
<1> DEFINE d == [pass[1] EXCEPT !.todo = @ \ {u}]
<1>4. /\ d \in Docs /\ d.tourney = t /\ d.todo = pass[1].todo \ {u}
      /\ t \in Tourneys /\ u \in Entrants /\ t = pass[1].tourney
  BY <1>1, <1>3 DEF Docs
<1>5. pass' = [pass EXCEPT ![1] = d]
  BY <1>1, <1>2
<1> HIDE DEF d, t
<1>6. /\ pass' \in Seq(Docs) /\ DOMAIN pass' = DOMAIN pass
      /\ \A n \in DOMAIN pass : pass'[n] = IF n = 1 THEN d ELSE pass[n]
  BY <1>2, <1>3, <1>4, <1>5
<1>7. /\ reminded' \in [Tourneys -> SUBSET Entrants]
      /\ unpublished' \in [Tourneys -> SUBSET Entrants]
      /\ \A v \in Tourneys : reminded[v] \subseteq reminded'[v]
                             /\ unpublished[v] \subseteq unpublished'[v]
      /\ u \in reminded'[t] \cup unpublished'[t]
  BY <1>1, <1>2, <1>4
<1>8. TourneyTypeOK'
  BY <1>1, <1>6, <1>7 DEF TourneyInv, TourneyTypeOK
<1>9. \A n \in DOMAIN pass : pass'[n].tourney = pass[n].tourney
  BY <1>4, <1>6
<1>10. DocsFit'
  <2> SUFFICES ASSUME NEW n \in DOMAIN pass
               PROVE  LET v == pass'[n].tourney IN
                      /\ clock + WindowEnd >= start[v]
                      /\ early[v] \subseteq pass'[n].todo \cup reminded'[v] \cup unpublished'[v]
                      /\ misses = 0 => clock + WindowEnd < start[v] + TickEvery
    BY <1>1, <1>6 DEF DocsFit, Opened
  <2> DEFINE v == pass[n].tourney
  <2>1. v \in Tourneys
    BY TourneyFacts
  <2>2. /\ clock + WindowEnd >= start[v]
        /\ early[v] \subseteq pass[n].todo \cup reminded[v] \cup unpublished[v]
        /\ misses = 0 => clock + WindowEnd < start[v] + TickEvery
    BY DEF TourneyInv, DocsFit, Opened
  <2>3. pass'[n].tourney = v
    BY <1>9
  <2>4. pass[n].todo \subseteq pass'[n].todo \cup reminded'[v] \cup unpublished'[v]
    <3>1. CASE n = 1
      BY <1>4, <1>6, <1>7, <3>1
    <3>2. CASE n # 1
      BY <1>6, <3>2
    <3> QED BY <3>1, <3>2
  <2> HIDE DEF v
  <2> QED BY <1>7, <2>1, <2>2, <2>3, <2>4
<1>11. MarkedFit'
  BY <1>1, <1>7 DEF TourneyInv, MarkedFit, Opened
<1>12. EarlyJoined' /\ (phase <= clock)'
  BY <1>1 DEF TourneyInv, EarlyJoined
<1>13. NextChance' = NextChance
  BY <1>1 DEF NextChance, Chance
<1>14. \A v \in Tourneys : InPass(v)' <=> InPass(v)
  BY <1>6, <1>9 DEF InPass
<1>15. ChancesLeft'
  BY <1>1, <1>13, <1>14 DEF TourneyInv, ChancesLeft, Opened
<1> QED BY <1>8, <1>10, <1>11, <1>12, <1>15 DEF TourneyInv

(* A tournament leaves the pass marked, or with a miss and another tick    *)
(* to come.                                                                *)
LEMMA MarkStep == TourneyInv /\ MarkTournament => TourneyInv'
<1> SUFFICES ASSUME TourneyInv, MarkTournament PROVE TourneyInv'
  OBVIOUS
<1> DEFINE t == Head(pass).tourney
<1>1. /\ pass # <<>> /\ Head(pass).todo = {} /\ pass' = Tail(pass)
      /\ \/ /\ reminderSent' = [reminderSent EXCEPT ![t] = TRUE]
            /\ UNCHANGED misses
         \/ /\ misses' = misses + 1
            /\ UNCHANGED reminderSent
      /\ UNCHANGED <<clock, start, participants, joining, phase, tick, reminded,
                     unpublished, early>>
  BY DEF MarkTournament, Mark
<1>2. /\ pass \in Seq(Docs) /\ reminderSent \in [Tourneys -> BOOLEAN]
  BY DEF TourneyInv, TourneyTypeOK
<1>3. 1 \in DOMAIN pass /\ Head(pass) = pass[1] /\ pass[1] \in Docs
  BY <1>1, <1>2
<1>4. t \in Tourneys /\ t = pass[1].tourney /\ pass[1].todo = {}
  BY <1>1, <1>3 DEF Docs
<1> HIDE DEF t
<1>5. /\ pass' \in Seq(Docs)
      /\ \A n \in DOMAIN pass' : n + 1 \in DOMAIN pass /\ pass'[n] = pass[n + 1]
      /\ \A n \in DOMAIN pass : n # 1 => n - 1 \in DOMAIN pass' /\ pass'[n - 1] = pass[n]
  <2>1. /\ Len(pass) \in Nat /\ Len(pass) # 0 /\ DOMAIN pass = 1..Len(pass)
        /\ pass' \in Seq(Docs) /\ Len(pass') = Len(pass) - 1
        /\ DOMAIN pass' = 1..(Len(pass) - 1)
        /\ \A n \in 1..(Len(pass) - 1) : pass'[n] = pass[n + 1]
    BY <1>1, <1>2
  <2> QED BY <2>1
<1>6. /\ Opened(t)
      /\ early[t] \subseteq reminded[t] \cup unpublished[t]
      /\ misses = 0 => clock + WindowEnd < start[t] + TickEvery
  BY <1>3, <1>4 DEF TourneyInv, DocsFit
<1>7. /\ \A v \in Tourneys : reminderSent[v] => reminderSent'[v]
      /\ \A v \in Tourneys : reminderSent'[v] => reminderSent[v] \/ v = t
      /\ misses' \in {misses, misses + 1}
      /\ ~ reminderSent'[t] => misses' = misses + 1
  BY <1>1, <1>2, <1>4
<1>8. TourneyTypeOK'
  <2>1. reminderSent' \in [Tourneys -> BOOLEAN]
    BY <1>1, <1>2
  <2>2. misses' \in Nat
    BY <1>7, TourneyFacts
  <2> QED BY <1>1, <1>5, <2>1, <2>2 DEF TourneyInv, TourneyTypeOK
<1>9. misses \in Nat /\ (misses' = 0 => misses = 0)
  BY <1>7, TourneyFacts
<1>10. DocsFit'
  <2> SUFFICES ASSUME NEW n \in DOMAIN pass'
               PROVE  LET v == pass'[n].tourney IN
                      /\ clock + WindowEnd >= start[v]
                      /\ early[v] \subseteq pass'[n].todo \cup reminded[v] \cup unpublished[v]
                      /\ misses' = 0 => clock + WindowEnd < start[v] + TickEvery
    BY <1>1 DEF DocsFit, Opened
  <2> DEFINE v == pass[n + 1].tourney
  <2>1. n + 1 \in DOMAIN pass /\ pass'[n] = pass[n + 1]
    BY <1>5
  <2>2. /\ clock + WindowEnd >= start[v]
        /\ early[v] \subseteq pass[n + 1].todo \cup reminded[v] \cup unpublished[v]
        /\ misses = 0 => clock + WindowEnd < start[v] + TickEvery
    BY <2>1 DEF TourneyInv, DocsFit, Opened
  <2> QED BY <1>9, <2>1, <2>2
<1>11. MarkedFit'
  BY <1>1, <1>6, <1>7 DEF TourneyInv, MarkedFit, Opened
<1>12. EarlyJoined' /\ (phase <= clock)'
  BY <1>1 DEF TourneyInv, EarlyJoined
<1>13. NextChance' = NextChance
  BY <1>1 DEF NextChance, Chance
<1>14. \A v \in Tourneys : InPass(v) => InPass(v)' \/ v = t
  BY <1>4, <1>5 DEF InPass
<1>15. ChancesLeft'
  <2> SUFFICES ASSUME NEW v \in Tourneys, Opened(v), ~ reminderSent'[v], ~ InPass(v)'
               PROVE  /\ misses' = 0 =>
                           NextChance + WindowEnd < start[v] + TickEvery
                      /\ misses' = 1 =>
                           NextChance + WindowEnd < start[v] + 2 * TickEvery
    BY <1>1, <1>13 DEF ChancesLeft, Opened
  <2>0. /\ start[v] \in Nat /\ NextChance \in Nat /\ clock \in Nat /\ misses \in Nat
        /\ NextChance <= clock + TickEvery
        /\ TickEvery \in Nat /\ WindowEnd \in Nat
    BY TourneyFacts, WindowFacts
  <2>1. CASE InPass(v)
    <3>1. v = t /\ misses' = misses + 1
      BY <1>7, <1>14, <2>1
    <3>2. misses = 0 => clock + WindowEnd < start[v] + TickEvery
      BY <1>6, <3>1
    <3>3. CASE misses = 0
      BY <2>0, <3>1, <3>2, <3>3
    <3>4. CASE misses # 0
      BY <2>0, <3>1, <3>4
    <3> QED BY <3>3, <3>4
  <2>2. CASE ~ InPass(v)
    <3>1. /\ misses = 0 => NextChance + WindowEnd < start[v] + TickEvery
          /\ misses = 1 => NextChance + WindowEnd < start[v] + 2 * TickEvery
      BY <1>7, <2>2 DEF TourneyInv, ChancesLeft
    <3> QED BY <1>7, <2>0, <3>1
  <2> QED BY <2>1, <2>2
<1> QED BY <1>8, <1>10, <1>11, <1>12, <1>15 DEF TourneyInv

(* The new ticker ticks within the time of the old one's next tick but one. *)
LEMMA RestartQuizStep == TourneyInv /\ RestartQuiz => TourneyInv'
<1> SUFFICES ASSUME TourneyInv, RestartQuiz PROVE TourneyInv'
  OBVIOUS
<1>1. /\ pass' = <<>> /\ tick' = FALSE /\ phase' = clock /\ misses' = misses + 1
      /\ UNCHANGED <<clock, start, participants, reminderSent, joining, reminded,
                     unpublished, early>>
  BY DEF RestartQuiz
<1>2. TourneyTypeOK'
  <2>1. misses' \in Nat /\ phase' \in Nat
    BY <1>1, TourneyFacts
  <2>2. tick' \in BOOLEAN
    BY <1>1
  <2>3. pass' \in Seq(Docs)
    BY <1>1
  <2> QED BY <1>1, <2>1, <2>2, <2>3 DEF TourneyInv, TourneyTypeOK
<1>3. DocsFit'
  BY <1>1 DEF DocsFit
<1>4. MarkedFit' /\ EarlyJoined'
  BY <1>1 DEF TourneyInv, MarkedFit, EarlyJoined, Opened
<1>5. (phase <= clock)'
  BY <1>1, TourneyFacts
<1>6. NextChance' \in Nat /\ NextChance' <= clock + TickEvery
  <2>1. NextChance' = Chance(clock, clock, FALSE)
    BY <1>1 DEF NextChance, Chance
  <2>2. clock \in Nat /\ clock <= clock /\ FALSE \in BOOLEAN
    BY TourneyFacts
  <2> QED BY <2>1, <2>2, ChanceBounds
<1>7. ChancesLeft'
  <2> SUFFICES ASSUME NEW t \in Tourneys, Opened(t), ~ reminderSent[t]
               PROVE  /\ misses' # 0
                      /\ misses' = 1 =>
                           NextChance' + WindowEnd < start[t] + 2 * TickEvery
    BY <1>1 DEF ChancesLeft, Opened
  <2>0. /\ start[t] \in Nat /\ NextChance \in Nat /\ clock \in Nat /\ misses \in Nat
        /\ clock <= NextChance /\ TickEvery \in Nat /\ WindowEnd \in Nat
    BY TourneyFacts, WindowFacts
  <2>1. misses = 0 => clock + WindowEnd < start[t] + TickEvery
    <3>1. CASE InPass(t)
      BY <3>1 DEF InPass, TourneyInv, DocsFit
    <3>2. CASE ~ InPass(t)
      <4>1. misses = 0 => NextChance + WindowEnd < start[t] + TickEvery
        BY <3>2 DEF TourneyInv, ChancesLeft
      <4> QED BY <2>0, <4>1
    <3> QED BY <3>1, <3>2
  <2> QED BY <1>1, <1>6, <2>0, <2>1
<1> QED BY <1>2, <1>3, <1>4, <1>5, <1>7 DEF TourneyInv

(* A window opens at most a tick before the next chance.                   *)
LEMMA WaitStep == TourneyInv /\ Wait => TourneyInv'
<1> SUFFICES ASSUME TourneyInv, Wait PROVE TourneyInv'
  OBVIOUS
<1>1. /\ clock' = clock + 1
      /\ tick' = (tick \/ (clock' - phase) % TickEvery = 0)
      /\ misses' = IF tick \/ pass # <<>> THEN misses + 1 ELSE misses
      /\ early' = [t \in Tourneys |->
                     IF clock' + WindowEnd = start[t] THEN participants[t]
                                                      ELSE early[t]]
      /\ UNCHANGED <<start, participants, reminderSent, joining, phase, pass,
                     reminded, unpublished>>
  BY DEF Wait
<1>2. /\ clock \in Nat /\ phase \in Nat /\ phase <= clock /\ tick \in BOOLEAN
      /\ misses \in Nat /\ \A t \in Tourneys : start[t] \in Nat
      /\ NextChance \in Nat /\ clock <= NextChance
      /\ TickEvery \in Nat \ {0} /\ WindowEnd \in Nat
  BY TourneyFacts, WindowFacts
<1>3. tick' \in BOOLEAN
  BY <1>1, <1>2
<1>4. /\ NextChance' < clock + 1 + TickEvery
      /\ tick => NextChance' = NextChance + 1
      /\ ~ tick => NextChance' = NextChance
  <2>1. NextChance' = Chance(clock + 1, phase, tick')
    BY <1>1 DEF NextChance, Chance
  <2>2. tick' <=> tick \/ ((clock + 1) - phase) % TickEvery = 0
    BY <1>1
  <2> DEFINE m == tick'
  <2>3. m \in BOOLEAN /\ (m <=> tick \/ ((clock + 1) - phase) % TickEvery = 0)
        /\ NextChance' = Chance(clock + 1, phase, m)
    BY <1>3, <2>1, <2>2
  <2> HIDE DEF m
  <2>4. /\ Chance(clock + 1, phase, m) < clock + 1 + TickEvery
        /\ tick => Chance(clock + 1, phase, m) = Chance(clock, phase, tick) + 1
        /\ ~ tick => Chance(clock + 1, phase, m) = Chance(clock, phase, tick)
    BY <1>2, <2>3, ChanceWaits
  <2> QED BY <2>3, <2>4 DEF NextChance
<1>5. \A t \in Tourneys :
        /\ Opened(t) => Opened(t)' /\ early'[t] = early[t]
        /\ early'[t] \in {participants[t], early[t]}
        /\ Opened(t)' => Opened(t) \/ clock + 1 + WindowEnd = start[t]
  BY <1>1, <1>2 DEF Opened
<1>6. TourneyTypeOK'
  <2>1. early' \in [Tourneys -> SUBSET Entrants]
    BY <1>1 DEF TourneyInv, TourneyTypeOK
  <2>2. clock' \in Nat /\ misses' \in Nat
    BY <1>1, <1>2
  <2> QED BY <1>1, <1>3, <2>1, <2>2 DEF TourneyInv, TourneyTypeOK
<1>7. (phase <= clock)'
  BY <1>1, <1>2
<1>8. EarlyJoined'
  BY <1>1, <1>5 DEF TourneyInv, EarlyJoined
<1>9. MarkedFit'
  BY <1>1, <1>5 DEF TourneyInv, MarkedFit
<1>10. DocsFit'
  <2> SUFFICES ASSUME NEW n \in DOMAIN pass
               PROVE  LET t == pass[n].tourney IN
                      /\ clock + 1 + WindowEnd >= start[t]
                      /\ early'[t] \subseteq pass[n].todo \cup reminded[t] \cup unpublished[t]
                      /\ misses' # 0
    BY <1>1 DEF DocsFit, Opened
  <2> DEFINE t == pass[n].tourney
  <2>1. t \in Tourneys
    BY TourneyFacts
  <2>2. Opened(t) /\ early[t] \subseteq pass[n].todo \cup reminded[t] \cup unpublished[t]
    BY DEF TourneyInv, DocsFit
  <2>3. pass # <<>>
    OBVIOUS
  <2>4. misses' # 0
    BY <1>1, <1>2, <2>3
  <2> HIDE DEF t
  <2>5. clock + 1 + WindowEnd >= start[t] /\ early'[t] = early[t]
    BY <1>1, <1>2, <2>1, <2>2 DEF Opened
  <2> QED BY <2>2, <2>4, <2>5 DEF t
<1>11. ChancesLeft'
  <2> SUFFICES ASSUME NEW t \in Tourneys, Opened(t)', ~ reminderSent[t], ~ InPass(t)
               PROVE  /\ misses' = 0 =>
                           NextChance' + WindowEnd < start[t] + TickEvery
                      /\ misses' = 1 =>
                           NextChance' + WindowEnd < start[t] + 2 * TickEvery
    BY <1>1 DEF ChancesLeft, InPass
  <2>1. CASE Opened(t)
    <3>1. /\ misses = 0 => NextChance + WindowEnd < start[t] + TickEvery
          /\ misses = 1 => NextChance + WindowEnd < start[t] + 2 * TickEvery
      BY <2>1 DEF TourneyInv, ChancesLeft
    <3>2. start[t] \in Nat
      BY <1>2
    <3> QED BY <1>1, <1>2, <1>4, <3>1, <3>2
  <2>2. CASE ~ Opened(t)
    <3>1. clock + 1 + WindowEnd = start[t] /\ start[t] \in Nat /\ NextChance' \in Nat
      BY <1>2, <1>4, <1>5, <2>2
    <3> QED BY <1>2, <1>4, <3>1
  <2> QED BY <2>1, <2>2
<1> QED BY <1>6, <1>7, <1>8, <1>9, <1>10, <1>11 DEF TourneyInv

-----------------------------------------------------------------------------
LEMMA TourneyStep == TourneyInv /\ [TourneyNext]_tourneyVars => TourneyInv'
<1> SUFFICES ASSUME TourneyInv, [TourneyNext]_tourneyVars PROVE TourneyInv'
  OBVIOUS
<1>1. CASE UNCHANGED tourneyVars
  BY <1>1, JoinSteps DEF tourneyVars, TourneyInv, TourneyTypeOK
<1>2. CASE TourneyNext
  BY <1>2, JoinTournamentStep, AddParticipantStep, FindStep,
     PublishReminderStep, MarkStep, RestartQuizStep, WaitStep DEF TourneyNext
<1> QED BY <1>1, <1>2

LEMMA JoinedInit == TourneyInit => JoinedInv
BY DEF TourneyInit, JoinedInv

LEMMA JoinedStep ==
    TourneyTypeOK /\ JoinedInv /\ [TourneyNext]_tourneyVars => JoinedInv'
<1> SUFFICES ASSUME TourneyTypeOK, JoinedInv, [TourneyNext]_tourneyVars
             PROVE  JoinedInv'
  OBVIOUS
<1>0. /\ participants \in [Tourneys -> SUBSET Entrants]
      /\ reminded \in [Tourneys -> SUBSET Entrants]
      /\ unpublished \in [Tourneys -> SUBSET Entrants]
      /\ pass \in Seq(Docs) /\ DOMAIN pass = 1..Len(pass) /\ Len(pass) \in Nat
      /\ \A n \in DOMAIN pass : pass[n] \in Docs
      /\ TextIds \subseteq Tourneys
  BY TourneysAssumption DEF TourneyTypeOK
<1>1. ASSUME UNCHANGED <<participants, reminded, unpublished>>,
             \A n \in DOMAIN pass' :
               pass'[n].todo \subseteq participants[pass'[n].tourney]
      PROVE  JoinedInv'
  BY <1>1 DEF JoinedInv
<1>2. ASSUME NEW j \in Joins, AddParticipant(j) PROVE JoinedInv'
  <2>1. /\ joining[j] \in Entrants \X TextIds
        /\ UNCHANGED <<pass, reminded, unpublished>>
    BY <1>2 DEF AddParticipant, TourneyTypeOK
  <2>2. joining[j][2] \in TextIds
    BY <2>1
  <2>3. /\ \A t \in Tourneys : participants[t] \subseteq participants'[t]
        /\ \A t \in Tourneys : t \notin TextIds => participants'[t] = participants[t]
    BY <1>0, <1>2, <2>2 DEF AddParticipant
  <2>4. \A n \in DOMAIN pass : pass[n].tourney \in Tourneys
    BY <1>0 DEF Docs
  <2> QED BY <2>1, <2>3, <2>4 DEF JoinedInv
<1>3. CASE FindTournaments
  <2> DEFINE S == {t \in Tourneys : Due(t)}
             found == SetToSeq(S)
             docs == [n \in DOMAIN found |->
                        [tourney |-> found[n], todo |-> participants[found[n]]]]
  <2>1. /\ pass' = docs \/ pass' = pass
        /\ UNCHANGED <<participants, reminded, unpublished>>
    BY <1>3 DEF FindTournaments
  <2>2. \A n \in DOMAIN docs : docs[n].todo \subseteq participants[docs[n].tourney]
    OBVIOUS
  <2> HIDE DEF docs
  <2> QED BY <1>1, <2>1, <2>2 DEF JoinedInv
<1>4. CASE PublishReminder
  <2> DEFINE t == Head(pass).tourney
  <2>1. PICK u \in Head(pass).todo :
          /\ pass # <<>>
          /\ pass' = [pass EXCEPT ![1].todo = @ \ {u}]
          /\ \/ /\ reminded' = [reminded EXCEPT ![t] = @ \cup {u}]
                /\ UNCHANGED unpublished
             \/ /\ unpublished' = [unpublished EXCEPT ![t] = @ \cup {u}]
                /\ UNCHANGED reminded
          /\ UNCHANGED participants
    BY <1>4 DEF PublishReminder
  <2>2. 1 \in DOMAIN pass /\ Head(pass) = pass[1]
    BY <1>0, <2>1
  <2>3. u \in participants[t] /\ t \in Tourneys
    BY <1>0, <2>1, <2>2 DEF JoinedInv, Docs
  <2> DEFINE d == [pass[1] EXCEPT !.todo = @ \ {u}]
  <2>4. d.tourney = pass[1].tourney /\ d.todo \subseteq pass[1].todo
    BY <1>0, <2>2 DEF Docs
  <2>5. pass' = [pass EXCEPT ![1] = d]
    BY <1>0, <2>1
  <2> HIDE DEF d, t
  <2>6. /\ DOMAIN pass' = DOMAIN pass
        /\ \A n \in DOMAIN pass : pass'[n] = IF n = 1 THEN d ELSE pass[n]
    BY <1>0, <2>2, <2>5
  <2>7. \A n \in DOMAIN pass' :
          pass'[n].todo \subseteq participants[pass'[n].tourney]
    <3>1. \A n \in DOMAIN pass : /\ pass'[n].tourney = pass[n].tourney
                                 /\ pass'[n].todo \subseteq pass[n].todo
      BY <2>2, <2>4, <2>6
    <3> QED BY <2>6, <3>1 DEF JoinedInv
  <2>8. ASSUME NEW v \in Tourneys
        PROVE  reminded'[v] \cup unpublished'[v] \subseteq participants[v]
    <3>1. reminded[v] \cup unpublished[v] \subseteq participants[v]
      BY DEF JoinedInv
    <3>2. /\ reminded'[v] \subseteq reminded[v] \cup {u}
          /\ unpublished'[v] \subseteq unpublished[v] \cup {u}
          /\ v # t => reminded'[v] = reminded[v] /\ unpublished'[v] = unpublished[v]
      BY <1>0, <2>1, <2>3
    <3> QED BY <2>3, <3>1, <3>2
  <2> QED BY <2>1, <2>7, <2>8 DEF JoinedInv
<1>5. CASE MarkTournament
  <2>1. /\ pass # <<>> /\ pass' = Tail(pass)
        /\ UNCHANGED <<participants, reminded, unpublished>>
    BY <1>5 DEF MarkTournament, Mark
  <2>2. \A n \in DOMAIN pass' : n + 1 \in DOMAIN pass /\ pass'[n] = pass[n + 1]
    <3>1. /\ DOMAIN pass' = 1..(Len(pass) - 1)
          /\ \A n \in 1..(Len(pass) - 1) : pass'[n] = pass[n + 1]
      BY <1>0, <2>1
    <3> QED BY <1>0, <3>1
  <2> QED BY <1>1, <2>1, <2>2 DEF JoinedInv
<1>6. CASE RestartQuiz
  BY <1>1, <1>6 DEF RestartQuiz
<1>7. CASE \/ Wait \/ UNCHANGED tourneyVars
           \/ \E j \in Joins, u \in Entrants, t \in Tourneys : JoinTournament(j, u, t)
  <2>1. UNCHANGED <<participants, reminded, unpublished, pass>>
    BY <1>7 DEF Wait, tourneyVars, JoinTournament
  <2> QED BY <1>1, <2>1 DEF JoinedInv
<1> QED BY <1>2, <1>3, <1>4, <1>5, <1>6, <1>7 DEF TourneyNext

(* For any number of tournaments, with an ObjectID or a text as their _id, *)
(* of participants and requests, any times of the starts, and any tick     *)
(* that fits into the window twice: who had joined when the window of a    *)
(* marked tournament opened was reminded, but for reminders that failed;   *)
(* with at most one tick late or failed, or one restart, every tournament  *)
(* is found in its window; and only participants are reminded, who never   *)
(* are any of a tournament with an ObjectID, as all those of the seed are. *)
THEOREM ParticipantsReminded == TourneySpec => []ReminderSafety
<1>1. TourneyInv => TourneyTypeOK
  BY DEF TourneyInv
<1> QED BY <1>1, TourneyInit_Inv, TourneyStep, TourneyInvSafe, JoinedInit,
           JoinedStep, PTL DEF TourneySpec

-----------------------------------------------------------------------------
(***************************************************************************)
(* EventBus: the services start, fail and start again, in any order.       *)
(***************************************************************************)

(* A service that has started has declared its queues, which stay.         *)
StartedHaveQueues ==
    \A s \in Services : service[s] # "down" => ToSet(SetupQueues[s]) \subseteq queues

(* What waits in a queue is an event it is bound for, and was published;   *)
(* answers are published by a quiz service that has started.               *)
WaitingArePublished ==
    \A q \in BusQueues : waiting[q] \subseteq published \cap BoundFor(q)

AnswersComeFromQuiz ==
    "answer.submitted" \in published => ToSet(SetupQueues["quiz"]) \subseteq queues

BusInv ==
    /\ StartSafety
    /\ StartedHaveQueues /\ WaitingArePublished /\ AnswersComeFromQuiz

-----------------------------------------------------------------------------
LEMMA DeclaredQueues ==
    /\ ToSet(SetupQueues["auth"]) = {}
    /\ ToSet(SetupQueues["matchmaking"]) = {"match-created"}
    /\ ToSet(SetupQueues["quiz"]) =
         {"answer-processing", "round-completed", "match-finished",
          "match-analytics", "leaderboard-broadcast"}
    /\ ToSet(SetupQueues["scoring"]) =
         {"leaderboard-updated", "payment-success", "referral-event",
          "push-notification"}
    /\ ToSet(SetupQueues["payment"]) = {"payment-success", "premium-expiry"}
    /\ ToSet(SetupQueues["notification"]) = {"push-notification", "premium-expiry"}
<1>1. /\ SetupQueues["auth"] = <<>>
      /\ SetupQueues["matchmaking"] = MatchmakingQueues
      /\ SetupQueues["quiz"] = QuizQueues
      /\ SetupQueues["scoring"] = ScoringQueues
      /\ SetupQueues["payment"] = PaymentQueues
      /\ SetupQueues["notification"] = NotificationQueues
  BY DEF SetupQueues
<1>2. ToSet(<<>>) = {}
  BY DEF ToSet
<1>3. ToSet(MatchmakingQueues) = {"match-created"}
  BY DEF ToSet, MatchmakingQueues
<1>4. ToSet(QuizQueues) =
         {"answer-processing", "round-completed", "match-finished",
          "match-analytics", "leaderboard-broadcast"}
  BY DEF ToSet, QuizQueues
<1>5. ToSet(ScoringQueues) =
         {"leaderboard-updated", "payment-success", "referral-event",
          "push-notification"}
  BY DEF ToSet, ScoringQueues
<1>6. ToSet(PaymentQueues) = {"payment-success", "premium-expiry"}
  BY DEF ToSet, PaymentQueues
<1>7. ToSet(NotificationQueues) = {"push-notification", "premium-expiry"}
  BY DEF ToSet, NotificationQueues
<1> QED BY <1>1, <1>2, <1>3, <1>4, <1>5, <1>6, <1>7

LEMMA QueueNames ==
    BusQueues = {"match-created", "answer-processing", "round-completed",
                 "match-finished", "match-analytics", "leaderboard-broadcast",
                 "leaderboard-updated", "payment-success", "referral-event",
                 "push-notification", "premium-expiry"}
BY DeclaredQueues DEF BusQueues, Services

LEMMA DeclaredNamed == \A s \in Services : ToSet(SetupQueues[s]) \subseteq BusQueues
BY DEF BusQueues

(* What each queue is bound for, and what its consumer sends.              *)
LEMMA Bindings ==
    /\ BoundFor("match-created") = {"match.created"}
    /\ BoundFor("answer-processing") = {"answer.submitted"}
    /\ BoundFor("round-completed") = {"round.completed"}
    /\ BoundFor("match-finished") = {"match.finished"}
    /\ BoundFor("match-analytics") = {"match.finished"}
    /\ BoundFor("leaderboard-broadcast") = {"leaderboard.updated"}
    /\ BoundFor("leaderboard-updated") = {"leaderboard.updated"}
    /\ BoundFor("payment-success") = {"payment.captured"}
    /\ BoundFor("referral-event") = {"referral.first_quiz_completed"}
    /\ BoundFor("premium-expiry") = {"premium.expired"}
    /\ BoundFor("push-notification") =
         {"notif.streak.warning", "notif.match.invite", "notif.tournament.remind",
          "notif.premium.expiry", "notif.premium.activated",
          "notif.referral.converted"}
BY DEF BoundFor, Notice, EarlyNotices

LEMMA Reactions ==
    /\ Reaction("answer-processing") = {"leaderboard.updated"}
    /\ Reaction("match-finished") = {"referral.first_quiz_completed"}
    /\ Reaction("payment-success") = {"notif.premium.activated"}
    /\ Reaction("referral-event") = {"notif.referral.converted"}
    /\ \A q \in BusQueues \ {"answer-processing", "match-finished",
                             "payment-success", "referral-event"} : Reaction(q) = {}
BY DEF Reaction

LEMMA Consumers ==
    /\ ConsumedBy["auth"] = {} /\ ConsumedBy["matchmaking"] = {}
    /\ ConsumedBy["quiz"] = {"match-created", "round-completed",
                             "leaderboard-broadcast"}
    /\ ConsumedBy["scoring"] = {"answer-processing", "match-finished",
                                "match-analytics", "payment-success",
                                "referral-event"}
    /\ ConsumedBy["payment"] = {}
    /\ ConsumedBy["notification"] = {"push-notification", "premium-expiry"}
BY DEF ConsumedBy, MatchmakingConsumers, QuizConsumers, ScoringConsumers,
       PaymentConsumers, NotificationConsumers

LEMMA Senders ==
    /\ SentBy["auth"] = {"notif.streak.warning"}
    /\ SentBy["matchmaking"] = {"match.created", "notif.match.invite"}
    /\ SentBy["quiz"] = {"answer.submitted", "round.completed", "match.finished",
                         "notif.tournament.remind"}
    /\ SentBy["scoring"] = {} /\ SentBy["notification"] = {}
    /\ SentBy["payment"] = {"payment.captured", "premium.expired",
                            "notif.premium.expiry"}
BY DEF SentBy

LEMMA BoundEvents == \A q \in BusQueues : BoundFor(q) \subseteq BusEvents
BY DEF BusEvents

(* Every event is bound for a queue.                                       *)
LEMMA SentAreEvents ==
    /\ \A s \in Services : SentBy[s] \subseteq BusEvents
    /\ \A q \in BusQueues : Reaction(q) \subseteq BusEvents
<1>1. \A k : (\E q \in BusQueues : k \in BoundFor(q)) => k \in BusEvents
  BY DEF BusEvents
<1>2. {"match.created", "answer.submitted", "round.completed", "match.finished",
       "leaderboard.updated", "payment.captured", "referral.first_quiz_completed",
       "premium.expired", "notif.streak.warning", "notif.match.invite",
       "notif.tournament.remind", "notif.premium.expiry",
       "notif.premium.activated", "notif.referral.converted"} \subseteq BusEvents
  BY <1>1, Bindings, QueueNames
<1>3. \A s \in Services : SentBy[s] \subseteq BusEvents
  BY <1>2, Senders DEF Services
<1>4. \A q \in BusQueues : Reaction(q) \subseteq BusEvents
  BY <1>2, Reactions, QueueNames
<1> QED BY <1>3, <1>4

-----------------------------------------------------------------------------
LEMMA BusInit_Inv == BusInit => BusInv
<1> SUFFICES ASSUME BusInit PROVE BusInv
  OBVIOUS
<1>1. BusTypeOK
  BY MaxFailuresAssumption DEF BusInit, BusTypeOK, ServiceAt
<1> QED BY <1>1 DEF BusInit, BusInv, StartSafety, OnlyEarlyNoticesMissed,
          PublishedIsHandledOrWaits, OnlyScoringExits, StartedHaveQueues,
          WaitingArePublished, AnswersComeFromQuiz

LEMMA FailTyped ==
    ASSUME BusTypeOK, Fail
    PROVE  failures' \in 0..MaxFailures
BY MaxFailuresAssumption DEF Fail, BusTypeOK

(* A step that sends nothing: queues are only added, and a service that is *)
(* up has its own.                                                         *)
LEMMA QuietStep ==
    ASSUME BusInv, NEW s \in Services, NEW a \in ServiceAt, NEW added \in SUBSET BusQueues,
           service' = [service EXCEPT ![s] = a],
           queues' = queues \cup added,
           a # "down" => ToSet(SetupQueues[s]) \subseteq queues',
           failures' \in 0..MaxFailures,
           UNCHANGED <<waiting, handled, published, missed>>,
           exits' \subseteq Services \X SUBSET BusQueues, OnlyScoringExits'
    PROVE  BusInv'
<1>1. BusTypeOK'
  BY DEF BusInv, StartSafety, BusTypeOK
<1>2. StartedHaveQueues'
  BY DEF BusInv, StartSafety, BusTypeOK, StartedHaveQueues
<1>3. OnlyEarlyNoticesMissed' /\ PublishedIsHandledOrWaits'
  BY DEF BusInv, StartSafety, OnlyEarlyNoticesMissed, PublishedIsHandledOrWaits
<1>4. WaitingArePublished' /\ AnswersComeFromQuiz'
  BY DEF BusInv, WaitingArePublished, AnswersComeFromQuiz
<1> QED BY <1>1, <1>2, <1>3, <1>4 DEF BusInv, StartSafety

LEMMA StartServiceStep ==
    ASSUME BusInv, NEW s \in Services, StartService(s)
    PROVE  BusInv'
<1>1. ToSet(SetupQueues[s]) \in SUBSET BusQueues
  BY DeclaredNamed
<1>2. OnlyScoringExits' /\ exits' \subseteq Services \X SUBSET BusQueues
      /\ failures' \in 0..MaxFailures
  BY DEF BusInv, StartSafety, StartService, OnlyScoringExits, BusTypeOK
<1>3. "serving" \in ServiceAt
  BY DEF ServiceAt
<1> QED BY <1>1, <1>2, <1>3, QuietStep DEF StartService

LEMMA StartFailsStep ==
    ASSUME BusInv, NEW s \in Services, StartFails(s)
    PROVE  BusInv'
<1>1. PICK n \in 0..Len(SetupQueues[s]) :
        queues' = queues \cup ToSet(SubSeq(SetupQueues[s], 1, n))
  BY DEF StartFails
<1> DEFINE added == ToSet(SubSeq(SetupQueues[s], 1, n))
<1>2. added \in SUBSET BusQueues
  <2>1. SetupQueues[s] \in Seq(BusQueues)
    <3>1. <<>> \in Seq(BusQueues)
      OBVIOUS
    <3>2. MatchmakingQueues \in Seq(BusQueues)
      BY QueueNames DEF MatchmakingQueues
    <3>3. QuizQueues \in Seq(BusQueues)
      BY QueueNames DEF QuizQueues
    <3>4. ScoringQueues \in Seq(BusQueues)
      BY QueueNames DEF ScoringQueues
    <3>5. PaymentQueues \in Seq(BusQueues)
      BY QueueNames DEF PaymentQueues
    <3>6. NotificationQueues \in Seq(BusQueues)
      BY QueueNames DEF NotificationQueues
    <3>7. SetupQueues[s] \in {<<>>, MatchmakingQueues, QuizQueues, ScoringQueues,
                              PaymentQueues, NotificationQueues}
      BY DEF SetupQueues, Services
    <3> QED BY <3>1, <3>2, <3>3, <3>4, <3>5, <3>6, <3>7
  <2>2. added \subseteq ToSet(SetupQueues[s])
    BY <2>1 DEF ToSet
  <2> QED BY <2>2, DeclaredNamed
<1>3. service \in [Services -> ServiceAt]
  BY DEF BusInv, StartSafety, BusTypeOK
<1>4. service' = [service EXCEPT ![s] = "down"] /\ "down" \in ServiceAt
  BY <1>3 DEF StartFails, ServiceAt
<1>5. OnlyScoringExits' /\ exits' \subseteq Services \X SUBSET BusQueues
  BY DEF BusInv, StartSafety, StartFails, OnlyScoringExits, BusTypeOK
<1>6. failures' \in 0..MaxFailures
  BY FailTyped DEF StartFails, BusInv, StartSafety
<1> HIDE DEF added
<1> QED BY <1>1, <1>2, <1>4, <1>5, <1>6, QuietStep DEF StartFails, added

LEMMA StartConsumersStep ==
    ASSUME BusInv, NEW s \in Services, StartConsumers(s)
    PROVE  BusInv'
<1>1. DeclaredOnConsume(s) \in SUBSET BusQueues
  BY QueueNames DEF DeclaredOnConsume
<1>2. OnlyScoringExits' /\ exits' \subseteq Services \X SUBSET BusQueues
      /\ failures' \in 0..MaxFailures
  BY DEF BusInv, StartSafety, StartConsumers, OnlyScoringExits, BusTypeOK
<1>3. "consuming" \in ServiceAt
  BY DEF ServiceAt
<1>4. ToSet(SetupQueues[s]) \subseteq queues
  BY DEF StartConsumers, BusInv, StartedHaveQueues
<1> QED BY <1>1, <1>2, <1>3, <1>4, QuietStep DEF StartConsumers

(* The queues of its consumers that a service has not declared itself, nor *)
(* declares to consume, are the quiz service's that scoring consumes.      *)
LEMMA ConsumerExitsStep ==
    ASSUME BusInv, NEW s \in Services, ConsumerExits(s)
    PROVE  BusInv'
<1> DEFINE lacking == ConsumedBy[s] \ (queues \cup DeclaredOnConsume(s))
<1>1. /\ service[s] = "serving" /\ lacking # {}
      /\ service' = [service EXCEPT ![s] = "down"]
      /\ exits' = exits \cup {<<s, lacking>>}
      /\ UNCHANGED <<queues, waiting, handled, published, missed, failures>>
  BY DEF ConsumerExits
<1>2. ToSet(SetupQueues[s]) \subseteq queues
  BY <1>1 DEF BusInv, StartedHaveQueues
<1>3. s = "scoring" /\ lacking \subseteq ToSet(SetupQueues["quiz"])
  <2>1. CASE s = "scoring"
    BY <1>2, <2>1, DeclaredQueues, Consumers
  <2>2. CASE s = "quiz"
    BY <1>1, <1>2, <2>2, DeclaredQueues, Consumers DEF DeclaredOnConsume
  <2>3. CASE s = "notification"
    BY <1>1, <1>2, <2>3, DeclaredQueues, Consumers
  <2>4. CASE s \in {"auth", "matchmaking", "payment"}
    BY <1>1, <2>4, Consumers
  <2> QED BY <2>1, <2>2, <2>3, <2>4 DEF Services
<1>4. lacking \in SUBSET BusQueues
  BY <1>3, DeclaredNamed DEF Services
<1> HIDE DEF lacking
<1>5. exits' \subseteq Services \X SUBSET BusQueues
  BY <1>1, <1>4 DEF BusInv, StartSafety, BusTypeOK
<1>6. OnlyScoringExits'
  <2>1. \A e \in exits' : e \in exits \/ e = <<s, lacking>>
    BY <1>1
  <2> QED BY <1>3, <2>1 DEF BusInv, StartSafety, OnlyScoringExits
<1> DEFINE added == {}
<1>7. /\ failures' \in 0..MaxFailures /\ "down" \in ServiceAt
      /\ queues' = queues \cup added /\ added \in SUBSET BusQueues
  BY <1>1 DEF BusInv, StartSafety, BusTypeOK, ServiceAt
<1> HIDE DEF added
<1> QED BY <1>1, <1>5, <1>6, <1>7, QuietStep

LEMMA ServiceDiesStep ==
    ASSUME BusInv, NEW s \in Services, ServiceDies(s)
    PROVE  BusInv'
<1> DEFINE added == {}
<1>1. /\ OnlyScoringExits' /\ exits' \subseteq Services \X SUBSET BusQueues
      /\ queues' = queues \cup added /\ added \in SUBSET BusQueues
      /\ "down" \in ServiceAt
  BY DEF BusInv, StartSafety, ServiceDies, OnlyScoringExits, BusTypeOK, ServiceAt
<1>2. failures' \in 0..MaxFailures
  BY FailTyped DEF ServiceDies, BusInv, StartSafety
<1>3. /\ service' = [service EXCEPT ![s] = "down"]
      /\ UNCHANGED <<waiting, handled, published, missed>>
  BY DEF ServiceDies
<1> HIDE DEF added
<1> QED BY <1>1, <1>2, <1>3, QuietStep

-----------------------------------------------------------------------------
(* The exchange: events are sent, copied to their queues that are bound,   *)
(* and an event of a queue may be acknowledged.                            *)
LEMMA RouteStep ==
    ASSUME BusInv, NEW sent \in SUBSET BusEvents, NEW acked \in SUBSET (BusQueues \X BusEvents),
           SentNow(sent),
           \A q \in BusQueues, k \in sent :
             k \in BoundFor(q) /\ q \notin queues =>
               k \in EarlyNotices /\ q = "push-notification",
           "answer.submitted" \in sent => ToSet(SetupQueues["quiz"]) \subseteq queues,
           waiting' = [q \in BusQueues |->
                         {k \in Routed(sent)[q] : <<q, k>> \notin acked}],
           handled' = [q \in BusQueues |->
                         handled[q] \cup {k \in BusEvents : <<q, k>> \in acked}],
           \A s \in Services : service'[s] # "down" => service[s] # "down",
           service' \in [Services -> ServiceAt],
           failures' \in 0..MaxFailures,
           UNCHANGED <<queues, exits>>
    PROVE  BusInv'
<1>1. /\ published' = published \cup sent
      /\ \A m : m \in missed' <=>
           \/ m \in missed
           \/ \E q \in BusQueues \ queues : m \in (sent \cap BoundFor(q)) \X {q}
  BY DEF SentNow
<1>2. \A q \in BusQueues : Routed(sent)[q] =
        waiting[q] \cup IF q \in queues THEN sent \cap BoundFor(q) ELSE {}
  BY DEF Routed
<1>3. \A q \in BusQueues : waiting[q] \subseteq BusEvents /\ handled[q] \subseteq BusEvents
  BY DEF BusInv, StartSafety, BusTypeOK
<1>4. BusTypeOK'
  <2>1. published' \subseteq BusEvents /\ missed' \subseteq BusEvents \X BusQueues
    BY <1>1 DEF BusInv, StartSafety, BusTypeOK
  <2>2. waiting' \in [BusQueues -> SUBSET BusEvents]
    BY <1>2, <1>3
  <2>3. handled' \in [BusQueues -> SUBSET BusEvents]
    BY <1>3
  <2> QED BY <2>1, <2>2, <2>3 DEF BusInv, StartSafety, BusTypeOK
<1>5. OnlyEarlyNoticesMissed'
  BY <1>1 DEF BusInv, StartSafety, OnlyEarlyNoticesMissed
<1>6. PublishedIsHandledOrWaits'
  <2> SUFFICES ASSUME NEW k \in published', NEW q \in BusQueues,
                      k \in BoundFor(q), <<k, q>> \notin missed'
               PROVE  k \in waiting'[q] \cup handled'[q]
    BY DEF PublishedIsHandledOrWaits
  <2>1. k \in Routed(sent)[q] \cup handled[q]
    BY <1>1, <1>2 DEF BusInv, StartSafety, PublishedIsHandledOrWaits
  <2>2. k \in BusEvents
    BY BoundEvents
  <2> QED BY <2>1, <2>2
<1>7. OnlyScoringExits'
  BY DEF BusInv, StartSafety, OnlyScoringExits
<1>8. StartedHaveQueues'
  BY DEF BusInv, StartedHaveQueues
<1>9. WaitingArePublished'
  BY <1>1, <1>2 DEF BusInv, WaitingArePublished
<1>10. AnswersComeFromQuiz'
  BY <1>1 DEF BusInv, AnswersComeFromQuiz
<1> QED BY <1>4, <1>5, <1>6, <1>7, <1>8, <1>9, <1>10 DEF BusInv, StartSafety

LEMMA PublishStep ==
    ASSUME BusInv, NEW s \in Services, Publish(s)
    PROVE  BusInv'
<1>1. PICK k \in SentBy[s] :
        /\ service[s] # "down"
        /\ waiting' = Routed({k}) /\ SentNow({k})
        /\ UNCHANGED <<service, queues, handled, exits, failures>>
  BY DEF Publish
<1>2. ToSet(SetupQueues[s]) \subseteq queues
  BY <1>1 DEF BusInv, StartedHaveQueues
<1> DEFINE sent == {k}
           acked == {}
<1>3. sent \in SUBSET BusEvents /\ acked \in SUBSET (BusQueues \X BusEvents)
  BY SentAreEvents
<1>4. \A q \in BusQueues :
        k \in BoundFor(q) /\ q \notin queues =>
          k \in EarlyNotices /\ q = "push-notification"
  <2>1. CASE s = "auth"
    BY <2>1, Senders, Bindings, QueueNames DEF EarlyNotices
  <2>2. CASE s = "matchmaking"
    BY <1>2, <2>2, Senders, Bindings, QueueNames, DeclaredQueues DEF EarlyNotices
  <2>3. CASE s = "quiz"
    BY <1>2, <2>3, Senders, Bindings, QueueNames, DeclaredQueues DEF EarlyNotices
  <2>4. CASE s = "payment"
    BY <1>2, <2>4, Senders, Bindings, QueueNames, DeclaredQueues DEF EarlyNotices
  <2>5. CASE s \in {"scoring", "notification"}
    BY <2>5, Senders
  <2> QED BY <2>1, <2>2, <2>3, <2>4, <2>5 DEF Services
<1>5. k = "answer.submitted" => ToSet(SetupQueues["quiz"]) \subseteq queues
  <2>1. k = "answer.submitted" => s = "quiz"
    BY Senders DEF Services
  <2> QED BY <1>2, <2>1
<1>6. /\ waiting' = [q \in BusQueues |->
                       {e \in Routed(sent)[q] : <<q, e>> \notin acked}]
      /\ handled' = [q \in BusQueues |->
                       handled[q] \cup {e \in BusEvents : <<q, e>> \in acked}]
  BY <1>1 DEF Routed, BusInv, StartSafety, BusTypeOK
<1>7. service' \in [Services -> ServiceAt] /\ failures' \in 0..MaxFailures
  BY <1>1 DEF BusInv, StartSafety, BusTypeOK
<1>8. /\ SentNow(sent)
      /\ \A q \in BusQueues, e \in sent :
           e \in BoundFor(q) /\ q \notin queues =>
             e \in EarlyNotices /\ q = "push-notification"
      /\ "answer.submitted" \in sent => ToSet(SetupQueues["quiz"]) \subseteq queues
  BY <1>1, <1>4, <1>5
<1>9. /\ \A t \in Services : service'[t] # "down" => service[t] # "down"
      /\ UNCHANGED <<queues, exits>>
  BY <1>1
<1> HIDE DEF sent, acked
<1> QED BY <1>3, <1>6, <1>7, <1>8, <1>9, RouteStep

(* Scoring has declared the queues of its reactions; the quiz service,     *)
(* whose answer it was, those of the leaderboard.                          *)
LEMMA HandleEventStep ==
    ASSUME BusInv, NEW s \in Services, HandleEvent(s)
    PROVE  BusInv'
<1>1. PICK q \in ConsumedBy[s] \cap queues : \E k \in waiting[q] :
      \E sent \in {Reaction(q)} \cup IF q = "match-finished" THEN {{}} ELSE {} :
        /\ SentNow(sent)
        /\ \/ /\ waiting' = [Routed(sent) EXCEPT ![q] = @ \ {k}]
              /\ handled' = [handled EXCEPT ![q] = @ \cup {k}]
              /\ UNCHANGED <<service, failures>>
           \/ /\ Fail
              /\ waiting' = Routed(sent)
              /\ service' = [service EXCEPT ![s] = "down"]
              /\ UNCHANGED handled
  BY DEF HandleEvent
<1>2. PICK k \in waiting[q], sent \in {Reaction(q), {}} :
        /\ SentNow(sent)
        /\ \/ /\ waiting' = [Routed(sent) EXCEPT ![q] = @ \ {k}]
              /\ handled' = [handled EXCEPT ![q] = @ \cup {k}]
              /\ UNCHANGED <<service, failures>>
           \/ /\ Fail
              /\ waiting' = Routed(sent)
              /\ service' = [service EXCEPT ![s] = "down"]
              /\ UNCHANGED handled
  BY <1>1
<1>0. service[s] # "down" /\ UNCHANGED <<queues, exits>>
  BY DEF HandleEvent
<1>3. q \in BusQueues /\ k \in BusEvents /\ k \in published \cap BoundFor(q)
  BY DEF BusInv, StartSafety, BusTypeOK, WaitingArePublished
<1>4. sent \in SUBSET BusEvents
  BY <1>2, <1>3, SentAreEvents
<1>5. ToSet(SetupQueues[s]) \subseteq queues
  BY <1>0 DEF BusInv, StartedHaveQueues
<1>6. q = "answer-processing" => ToSet(SetupQueues["quiz"]) \subseteq queues
  BY <1>3, Bindings DEF BusInv, AnswersComeFromQuiz
<1>7. \A p \in BusQueues, e \in sent : e \in BoundFor(p) => p \in queues
  <2>1. CASE q = "answer-processing"
    <3>1. s = "scoring"
      BY <2>1, Consumers DEF Services
    <3>2. sent \subseteq {"leaderboard.updated"}
      BY <1>2, <2>1, Reactions
    <3> QED BY <1>5, <1>6, <2>1, <3>1, <3>2, Bindings, QueueNames, DeclaredQueues
  <2>2. CASE q = "match-finished"
    <3>1. s = "scoring"
      BY <2>2, Consumers DEF Services
    <3>2. sent \subseteq {"referral.first_quiz_completed"}
      BY <1>2, <2>2, Reactions
    <3> QED BY <1>5, <3>1, <3>2, Bindings, QueueNames, DeclaredQueues
  <2>3. CASE q \in {"payment-success", "referral-event"}
    <3>1. s = "scoring"
      BY <2>3, Consumers DEF Services
    <3>2. sent \subseteq {"notif.premium.activated", "notif.referral.converted"}
      BY <1>2, <2>3, Reactions
    <3> QED BY <1>5, <3>1, <3>2, Bindings, QueueNames, DeclaredQueues
  <2>4. CASE q \notin {"answer-processing", "match-finished", "payment-success",
                       "referral-event"}
    BY <1>2, <1>3, <2>4, Reactions
  <2> QED BY <2>1, <2>2, <2>3, <2>4
<1>8. "answer.submitted" \notin sent
  BY <1>2, <1>3, Reactions
<1>9. service \in [Services -> ServiceAt] /\ failures \in 0..MaxFailures
      /\ waiting \in [BusQueues -> SUBSET BusEvents]
      /\ handled \in [BusQueues -> SUBSET BusEvents]
  BY DEF BusInv, StartSafety, BusTypeOK
<1>10. CASE /\ waiting' = [Routed(sent) EXCEPT ![q] = @ \ {k}]
            /\ handled' = [handled EXCEPT ![q] = @ \cup {k}]
            /\ UNCHANGED <<service, failures>>
  <2> DEFINE acked == {<<q, k>>}
  <2>1. waiting' = [p \in BusQueues |->
                      {e \in Routed(sent)[p] : <<p, e>> \notin acked}]
    BY <1>10 DEF Routed
  <2>2. handled' = [p \in BusQueues |->
                      handled[p] \cup {e \in BusEvents : <<p, e>> \in acked}]
    BY <1>3, <1>9, <1>10
  <2>3. acked \in SUBSET (BusQueues \X BusEvents)
    BY <1>3
  <2> HIDE DEF acked
  <2> QED BY <1>0, <1>2, <1>4, <1>7, <1>8, <1>9, <1>10, <2>1, <2>2, <2>3, RouteStep
<1>11. CASE /\ Fail
            /\ waiting' = Routed(sent)
            /\ service' = [service EXCEPT ![s] = "down"]
            /\ UNCHANGED handled
  <2> DEFINE acked == {}
  <2>1. waiting' = [p \in BusQueues |->
                      {e \in Routed(sent)[p] : <<p, e>> \notin acked}]
    BY <1>11 DEF Routed
  <2>2. handled' = [p \in BusQueues |->
                      handled[p] \cup {e \in BusEvents : <<p, e>> \in acked}]
    BY <1>9, <1>11
  <2>3. /\ service' \in [Services -> ServiceAt]
        /\ \A t \in Services : service'[t] # "down" => service[t] # "down"
    BY <1>9, <1>11 DEF ServiceAt
  <2>4. failures' \in 0..MaxFailures
    BY <1>11, FailTyped DEF BusInv, StartSafety
  <2>5. acked \in SUBSET (BusQueues \X BusEvents)
    OBVIOUS
  <2> HIDE DEF acked
  <2> QED BY <1>0, <1>2, <1>4, <1>7, <1>8, <2>1, <2>2, <2>3, <2>4, <2>5, RouteStep
<1> QED BY <1>2, <1>10, <1>11

LEMMA BusStep == BusInv /\ [BusNext]_busVars => BusInv'
<1> SUFFICES ASSUME BusInv, [BusNext]_busVars PROVE BusInv'
  OBVIOUS
<1>1. CASE UNCHANGED busVars
  BY <1>1 DEF busVars, BusInv, StartSafety, BusTypeOK, OnlyEarlyNoticesMissed,
     PublishedIsHandledOrWaits, OnlyScoringExits, StartedHaveQueues,
     WaitingArePublished, AnswersComeFromQuiz
<1>2. CASE BusNext
  BY <1>2, StartServiceStep, StartFailsStep, StartConsumersStep,
     ConsumerExitsStep, ServiceDiesStep, PublishStep, HandleEventStep DEF BusNext
<1> QED BY <1>1, <1>2

(* In whatever order services start, fail, die and start again, and        *)
(* however often, no event is dropped but notices sent before the push     *)
(* queue was declared, what was not dropped is handled or waits, and only  *)
(* scoring exits for want of a queue.                                      *)
THEOREM EventsRouted == BusSpec => []StartSafety
<1>1. BusInv => StartSafety
  BY DEF BusInv
<1> QED BY <1>1, BusInit_Inv, BusStep, PTL DEF BusSpec

-----------------------------------------------------------------------------
(***************************************************************************)
(* QuestionSelection: any bank, topics and players.                        *)
(***************************************************************************)

(* The positions of a topic in a sequence of questions.                    *)
At(t, s) == {i \in DOMAIN s : s[i] = t}

LEMMA Counting ==
    ASSUME NEW s, NEW n \in Nat, DOMAIN s = 1..n, NEW t
    PROVE  IsFiniteSet(At(t, s)) /\ Occurrences(t, s) \in Nat
<1>1. IsFiniteSet(1..n)
  BY FS_Interval
<1>2. At(t, s) \in SUBSET (1..n)
  BY DEF At
<1>3. IsFiniteSet(At(t, s))
  BY <1>1, <1>2, FS_Subset
<1>4. Cardinality(At(t, s)) \in Nat
  BY <1>3, FS_CardinalityType
<1> QED BY <1>3, <1>4 DEF At, Occurrences

(* Swapping two questions changes no topic's number.                       *)
LEMMA SwapKeeps ==
    ASSUME NEW S, NEW s \in Seq(S), NEW i \in DOMAIN s, NEW j \in DOMAIN s
    PROVE  SameQuestions(Swapped(s, i, j), s)
<1> DEFINE r == Swapped(s, i, j)
<1> SUFFICES ASSUME NEW t \in Topics PROVE Occurrences(t, r) = Occurrences(t, s)
  BY DEF SameQuestions
<1>1. /\ DOMAIN r = DOMAIN s
      /\ \A k \in DOMAIN s :
           r[k] = IF k = j THEN s[i] ELSE IF k = i THEN s[j] ELSE s[k]
  BY DEF Swapped
<1> HIDE DEF r
<1> DEFINE other == [k \in At(t, s) |-> IF k = i THEN j ELSE IF k = j THEN i ELSE k]
<1>2. other \in [At(t, s) -> At(t, r)]
  BY <1>1 DEF At
<1>3. \A k, l \in At(t, s) : other[k] = other[l] => k = l
  OBVIOUS
<1>4. \A k \in At(t, r) : \E l \in At(t, s) : other[l] = k
  <2> TAKE k \in At(t, r)
  <2> DEFINE l == IF k = i THEN j ELSE IF k = j THEN i ELSE k
  <2>1. l \in At(t, s)
    BY <1>1 DEF At
  <2>2. other[l] = k
    BY <2>1
  <2> QED BY <2>1, <2>2
<1> HIDE DEF other
<1>5. other \in Bijection(At(t, s), At(t, r))
  BY <1>2, <1>3, <1>4, Fun_IsBij
<1>6. ExistsBijection(At(t, s), At(t, r))
  BY <1>5 DEF ExistsBijection
<1>7. IsFiniteSet(At(t, s))
  BY Counting
<1>8. Cardinality(At(t, r)) = Cardinality(At(t, s))
  BY <1>6, <1>7, FS_Bijection
<1> QED BY <1>8 DEF Occurrences, At

(* Positions have a first among them.                                      *)
LEMMA FirstPosition ==
    ASSUME NEW T \in SUBSET Nat, T # {}
    PROVE  \E n \in T : \A k \in T : n <= k
<1>1. PICK n \in T : \A k \in T : <<k, n>> \notin OpToRel(<, Nat)
  BY NatLessThanWellFounded, WFMin
<1>2. \A k \in T : ~ (k < n)
  BY <1>1 DEF OpToRel
<1> QED BY <1>2

(* n questions of one topic.                                               *)
AllOf(t, n, s) == DOMAIN s = 1..n /\ \A i \in 1..n : s[i] = t

LEMMA OfOneTopic ==
    ASSUME NEW n \in Nat, NEW s, NEW t, AllOf(t, n, s), NEW u
    PROVE  Occurrences(u, s) = IF u = t THEN n ELSE 0
<1>1. At(u, s) = IF u = t THEN 1..n ELSE {}
  BY DEF At, AllOf
<1>2. Cardinality(1..n) = n
  BY FS_Interval
<1>3. Cardinality({}) = 0
  BY FS_EmptySet
<1> QED BY <1>1, <1>2, <1>3 DEF Occurrences, At

-----------------------------------------------------------------------------
(* What is drawn of a batch.                                               *)

Difficulties == ToSet(Difficulty)

LEMMA Batches ==
    /\ Difficulties = {"easy", "medium", "hard"}
    /\ \A i \in DOMAIN Difficulty : Difficulty[i] \in Difficulties
    /\ \A d \in Difficulties : \E i \in DOMAIN Difficulty : d = Difficulty[i]
    /\ \A d \in Difficulties : Drawn(d) \in Nat
BY DEF Difficulties, Difficulty, ToSet, Drawn

(* Too few questions of a difficulty, but for those of one topic.          *)
Short(d) == \E last \in Topics : \A t \in allowed \ {last} : bank[d][t] < Drawn(d)

(* A batch is as long as it should be, or no topic has enough for it.      *)
LEMMA BatchIsLong ==
    ASSUME bank \in Banks, NEW d \in Difficulties, NEW topics \in SUBSET Topics,
           NEW s \in Samples(d, topics)
    PROVE  /\ s \in Seq(topics)
           /\ Len(s) \in 0..Drawn(d)
           /\ Len(s) # Drawn(d) => \A t \in topics : bank[d][t] < Drawn(d)
<1> DEFINE fits(r) == \A t \in topics : Occurrences(t, r) <= bank[d][t]
           upTo == UNION {{r \in [1..n -> topics] : fits(r)} : n \in 0..Drawn(d)}
<1>1. s \in upTo /\ \A r \in upTo : Len(r) <= Len(s)
  BY DEF Samples
<1>2. Drawn(d) \in Nat
  BY Batches
<1>3. PICK n \in 0..Drawn(d) : s \in [1..n -> topics]
  BY <1>1
<1>4. s \in Seq(topics) /\ Len(s) = n
  BY <1>2, <1>3
<1>5. ASSUME Len(s) # Drawn(d), NEW t \in topics PROVE bank[d][t] < Drawn(d)
  <2> DEFINE r == [i \in 1..Drawn(d) |-> t]
  <2>1. \A u \in topics : bank[d][u] \in Nat
    BY BanksAssumption DEF Difficulties
  <2> SUFFICES ASSUME ~(bank[d][t] < Drawn(d)) PROVE FALSE
    OBVIOUS
  <2>2. Drawn(d) <= bank[d][t]
    BY <1>2, <2>1
  <2>3. \A u \in topics : Occurrences(u, r) = IF u = t THEN Drawn(d) ELSE 0
    <3>1. AllOf(t, Drawn(d), r)
      BY DEF AllOf
    <3> HIDE DEF r
    <3> QED BY <1>2, <3>1, OfOneTopic
  <2>4. fits(r)
    <3> SUFFICES ASSUME NEW u \in topics PROVE Occurrences(u, r) <= bank[d][u]
      OBVIOUS
    <3>1. bank[d][u] \in Nat /\ 0 <= bank[d][u]
      BY <2>1
    <3>2. CASE u = t
      BY <2>2, <2>3, <3>2
    <3>3. CASE u # t
      <4>1. Occurrences(u, r) = 0
        BY <2>3, <3>3
      <4> QED BY <3>1, <4>1
    <3> QED BY <3>2, <3>3
  <2>5. r \in [1..Drawn(d) -> topics] /\ r \in Seq(topics) /\ Len(r) = Drawn(d)
    <3>1. r \in [1..Drawn(d) -> topics]
      OBVIOUS
    <3> HIDE DEF r
    <3> QED BY <1>2, <3>1
  <2>6. r \in upTo
    BY <1>2, <2>4, <2>5
  <2>7. Drawn(d) <= n
    BY <1>1, <1>4, <2>5, <2>6
  <2> QED BY <1>2, <1>3, <1>4, <1>5, <2>7
<1> QED BY <1>2, <1>3, <1>4, <1>5

-----------------------------------------------------------------------------
(* The inductive invariant.                                                *)

Passing == {"pass", "done"}

(* The questions have topics that are allowed, and free ones if they must. *)
AllowedFit ==
    /\ drawing \in {"plans", "easy"} => selected = <<>>
    /\ ToSet(selected) \subseteq allowed
    /\ drawing # "plans" /\ premium # Roommates => allowed \subseteq FreeTopics

(* How many questions there are after each batch.                          *)
BatchesFit ==
    /\ drawing = "medium" =>
         Len(selected) <= 1 /\ (Len(selected) = 1 \/ Short("easy"))
    /\ drawing = "hard" =>
         Len(selected) <= 4 /\ (Len(selected) = 4 \/ \E d \in Difficulties : Short(d))
    /\ drawing \in {"shuffle"} \cup Passing =>
         Len(selected) = 5 \/ \E d \in Difficulties : Short(d)

(* Nothing is lost: the shuffle and the pass reorder what was drawn.       *)
DrawnFit ==
    IF drawing \in Passing THEN SameQuestions(selected, drawn) ELSE selected = drawn

(* A topic that repeats the one before it, where the pass has been, is     *)
(* that of all the questions after it.                                     *)
SettledAt(i) ==
    selected[i] = selected[i - 1] =>
        \A j \in i..Len(selected) : selected[j] = selected[i]

PassFit ==
    /\ drawing \notin Passing => position = 2
    /\ drawing \in Passing => \A i \in 2..Len(selected) : i < position => SettledAt(i)
    /\ drawing = "done" => position > Len(selected)

SelectInv == SelectTypeOK /\ AllowedFit /\ BatchesFit /\ DrawnFit /\ PassFit

LEMMA SelectInvInit == SelectInit => SelectInv
BY Batches
   DEF SelectInit, SelectInv, SelectTypeOK, AllowedFit, BatchesFit, DrawnFit, PassFit,
       Passing, Phases, Difficulties, ToSet

LEMMA AllowKeeps == SelectInv /\ AllowTopics => SelectInv'
BY Batches, FreeTopicsAssumption
   DEF SelectInv, SelectTypeOK, AllowedFit, BatchesFit, DrawnFit, PassFit, AllowTopics,
       Passing, Phases, Difficulties, ToSet

LEMMA DrawKeeps ==
    ASSUME SelectInv, NEW d \in Difficulties, DrawBatch(d)
    PROVE  SelectInv'
<1>a. /\ bank \in Banks /\ selected \in Seq(Topics) /\ drawn \in Seq(Topics)
      /\ allowed \in SUBSET Topics
      /\ drawing = d /\ drawing' = NextPhase(d)
      /\ UNCHANGED <<bank, premium, allowed, position>>
  BY DEF SelectInv, SelectTypeOK, DrawBatch
<1> PICK s \in Samples(d, Eligible) : selected' = selected \o s /\ drawn' = drawn \o s
  BY DEF DrawBatch
<1>b. Eligible \in SUBSET allowed
  BY DEF Eligible
<1>1. /\ s \in Seq(Eligible)
      /\ Len(s) \in 0..Drawn(d)
      /\ Len(s) # Drawn(d) => \A t \in Eligible : bank[d][t] < Drawn(d)
  BY <1>a, <1>b, BatchIsLong
<1>2. Len(s) # Drawn(d) => Short(d)
  <2>1. PICK last \in Topics : allowed \ {last} \subseteq Eligible
    <3>1. CASE selected = <<>>
      BY <1>a, <3>1, FreeTopicsAssumption DEF Eligible
    <3>2. CASE selected # <<>>
      <4>1. Last(selected) \in Topics
        BY <1>a, <3>2 DEF Last
      <4> QED BY <3>2, <4>1 DEF Eligible
    <3> QED BY <3>1, <3>2
  <2> QED BY <1>1, <2>1 DEF Short
<1>3. /\ selected' \in Seq(Topics) /\ drawn' \in Seq(Topics)
      /\ Len(selected') = Len(selected) + Len(s)
  BY <1>a, <1>b, <1>1
<1>4. ToSet(selected') \subseteq ToSet(selected) \cup Eligible
  <2>1. \A i \in DOMAIN (selected \o s) :
          (selected \o s)[i] \in ToSet(selected) \cup Eligible
    BY <1>a, <1>1 DEF ToSet
  <2> QED BY <2>1 DEF ToSet
<1>5. \A e \in Difficulties : Short(e)' <=> Short(e)
  BY <1>a DEF Short
<1>6. /\ d = "easy" => NextPhase(d) = "medium" /\ Drawn(d) = 1 /\ Len(selected) = 0
      /\ d = "medium" => NextPhase(d) = "hard" /\ Drawn(d) = 3
      /\ d = "hard" => NextPhase(d) = "shuffle" /\ Drawn(d) = 1
      /\ d \in {"easy", "medium", "hard"}
  BY <1>a, Batches DEF NextPhase, Drawn, SelectInv, AllowedFit
<1>7. Len(selected) \in Nat /\ Len(s) \in Nat
  BY <1>a, <1>1
<1>8. SelectTypeOK' /\ BatchesFit'
  <2>1. Short(d) => \E e \in Difficulties : Short(e)
    OBVIOUS
  <2>2. drawing = d /\ SelectTypeOK /\ BatchesFit /\ d \in {"easy", "medium", "hard"}
    BY <1>a, <1>6 DEF SelectInv
  <2>3. \A e \in Difficulties : Short(e) => Short(e)'
    BY <1>5
  <2> DEFINE before == Len(selected)
             added == Len(s)
             after == Len(selected')
             lacking == \E e \in Difficulties : Short(e)
  <2>a. /\ before \in Nat /\ added \in Nat /\ after = before + added
        /\ Drawn(d) \in Nat /\ added <= Drawn(d)
        /\ added # Drawn(d) => Short(d)
    BY <1>1, <1>2, <1>3, <1>7, Batches
  <2>b. /\ d = "medium" => before <= 1 /\ (before = 1 \/ lacking)
        /\ d = "hard" => before <= 4 /\ (before = 4 \/ lacking)
    BY <2>2, Batches DEF BatchesFit
  <2>c. /\ d = "easy" => before = 0
        /\ d \in {"easy", "hard"} => Drawn(d) = 1
        /\ d = "medium" => Drawn(d) = 3
    BY <1>6
  <2> HIDE DEF before, added, after, lacking
  <2>4. d = "easy" => after <= 1 /\ (after = 1 \/ Short(d))
    BY <2>a, <2>c
  <2>5. d = "medium" => after <= 4 /\ (after = 4 \/ lacking)
    BY <2>a, <2>b, <2>c, <2>1 DEF lacking
  <2>6. d = "hard" => after <= 5 /\ (after = 5 \/ lacking)
    BY <2>a, <2>b, <2>c, <2>1 DEF lacking
  <2> USE DEF before, added, after, lacking
  <2>7. BatchesFit'
    <3>1. (\E e \in Difficulties : Short(e)) => (\E e \in Difficulties : Short(e))'
      BY <1>a DEF Short
    <3>2. Short("easy") => Short("easy")'
      BY <1>a DEF Short
    <3>3. d = "easy" => drawing' = "medium"
      BY <1>a, <1>6
    <3>4. d = "medium" => drawing' = "hard"
      BY <1>a, <1>6
    <3>5. d = "hard" => drawing' = "shuffle"
      BY <1>a, <1>6
    <3> QED BY <2>2, <2>4, <2>5, <2>6, <3>1, <3>2, <3>3, <3>4, <3>5 DEF BatchesFit, Passing
  <2>8. SelectTypeOK'
    <3>1. drawing' \in Phases /\ Len(selected') <= 5
      BY <1>a, <1>6, <1>3, <1>7, <2>4, <2>5, <2>6 DEF Phases, Difficulty, ToSet
    <3> QED BY <1>a, <1>3, <2>2, <3>1 DEF SelectTypeOK
  <2> QED BY <2>7, <2>8
<1>9. AllowedFit' /\ DrawnFit' /\ PassFit'
  BY <1>a, <1>b, <1>4, <1>6
     DEF SelectInv, AllowedFit, DrawnFit, PassFit, Passing
<1> QED BY <1>8, <1>9 DEF SelectInv

LEMMA ShuffleKeeps == SelectInv /\ Shuffle => SelectInv'
<1> SUFFICES ASSUME SelectInv, Shuffle PROVE SelectInv'
  OBVIOUS
<1>a. /\ selected \in Seq(Topics) /\ Len(selected) \in Nat /\ Len(selected) <= 5
      /\ drawing = "shuffle" /\ drawing' = "pass"
      /\ selected' \in [DOMAIN selected -> ToSet(selected)]
      /\ SameQuestions(selected', selected)
      /\ UNCHANGED <<bank, premium, allowed, drawn, position>>
  BY DEF SelectInv, SelectTypeOK, Shuffle
<1>1. ToSet(selected) \subseteq Topics
  BY <1>a DEF ToSet
<1>2. selected' \in Seq(Topics) /\ Len(selected') = Len(selected)
  BY <1>a, <1>1
<1>3. ToSet(selected') \subseteq ToSet(selected)
  BY <1>a DEF ToSet
<1>4. \A e \in Difficulties : Short(e)' <=> Short(e)
  BY <1>a DEF Short
<1>5. SelectTypeOK' /\ BatchesFit'
  BY <1>a, <1>2, <1>4
     DEF SelectInv, SelectTypeOK, BatchesFit, Passing, Phases
<1>6. AllowedFit' /\ PassFit'
  BY <1>a, <1>3 DEF SelectInv, AllowedFit, PassFit, SettledAt, Passing
<1>7. DrawnFit'
  BY <1>a DEF SelectInv, DrawnFit, Passing
<1> QED BY <1>5, <1>6, <1>7 DEF SelectInv

LEMMA PassKeeps == SelectInv /\ PassOver => SelectInv'
<1> SUFFICES ASSUME SelectInv, PassOver PROVE SelectInv'
  OBVIOUS
<1> DEFINE s == selected
           p == position
           others == {j \in DOMAIN s : j > p /\ s[j] # s[p - 1]}
<1>a. /\ s \in Seq(Topics) /\ Len(s) \in Nat /\ Len(s) <= 5
      /\ p \in 2..6 /\ p <= Len(s) /\ position' = p + 1
      /\ drawing = "pass" /\ drawing' = drawing
      /\ selected' = SpaceOut(s, p)
      /\ UNCHANGED <<bank, premium, allowed, drawn>>
  BY DEF SelectInv, SelectTypeOK, PassOver
<1>b. \A i \in 2..Len(s) : i < p => SettledAt(i)
  BY <1>a DEF SelectInv, PassFit, Passing
<1>c. \A e \in Difficulties : Short(e)' <=> Short(e)
  BY <1>a DEF Short
<1>d. ASSUME /\ selected' \in Seq(Topics) /\ Len(selected') = Len(s)
             /\ ToSet(selected') \subseteq ToSet(s)
             /\ SameQuestions(selected', s)
             /\ \A i \in 2..Len(s) : i < p + 1 => SettledAt(i)'
      PROVE  SelectInv'
  <2>1. SelectTypeOK' /\ BatchesFit'
    BY <1>a, <1>c, <1>d DEF SelectInv, SelectTypeOK, BatchesFit, Passing
  <2>2. AllowedFit' /\ PassFit'
    BY <1>a, <1>d DEF SelectInv, AllowedFit, PassFit, Passing
  <2>3. DrawnFit'
    BY <1>a, <1>d DEF SelectInv, DrawnFit, SameQuestions, Passing
  <2> QED BY <2>1, <2>2, <2>3 DEF SelectInv
<1>1. CASE s[p] # s[p - 1] \/ others = {}
  <2>1. selected' = s
    BY <1>a, <1>1 DEF SpaceOut
  <2>2. ASSUME s[p] = s[p - 1], NEW j \in p..Len(s) PROVE s[j] = s[p]
    <3>1. j \in DOMAIN s
      BY <1>a
    <3>2. CASE j > p
      BY <1>1, <2>2, <3>1, <3>2
    <3>3. CASE ~(j > p)
      BY <1>a, <3>3
    <3> QED BY <3>2, <3>3
  <2>3. SettledAt(p)
    BY <2>2 DEF SettledAt
  <2>4. \A i \in 2..Len(s) : i < p + 1 => SettledAt(i)'
    BY <1>a, <1>b, <2>1, <2>3 DEF SettledAt
  <2> QED BY <1>a, <1>d, <2>1, <2>4 DEF SameQuestions
<1>2. CASE s[p] = s[p - 1] /\ others # {}
  <2> DEFINE q == CHOOSE j \in others : \A k \in others : j <= k
  <2>1. \E j \in others : \A k \in others : j <= k
    <3>1. others \subseteq Nat
      BY <1>a
    <3> QED BY <1>2, <3>1, FirstPosition
  <2>2. q \in others
    BY <2>1
  <2>3. selected' = Swapped(s, p, q)
    BY <1>a, <1>2 DEF SpaceOut
  <2> HIDE DEF q
  <2>4. /\ p \in DOMAIN s /\ q \in DOMAIN s /\ q > p /\ s[q] # s[p - 1]
        /\ q \in 1..Len(s)
    BY <1>a, <2>2
  <2>5. /\ DOMAIN selected' = DOMAIN s
        /\ \A k \in DOMAIN s :
             selected'[k] = IF k = q THEN s[p] ELSE IF k = p THEN s[q] ELSE s[k]
    BY <2>3, <2>4 DEF Swapped
  <2>6. selected' \in Seq(Topics) /\ Len(selected') = Len(s)
    BY <1>a, <2>3, <2>4 DEF Swapped
  <2>7. ToSet(selected') \subseteq ToSet(s)
    BY <2>4, <2>5 DEF ToSet
  <2>8. SameQuestions(selected', s)
    BY <1>a, <2>3, <2>4, SwapKeeps
  <2>9. ASSUME NEW i \in 2..Len(s), i < p + 1 PROVE SettledAt(i)'
    <3>1. CASE i = p
      BY <1>a, <2>4, <2>5, <2>6, <3>1 DEF SettledAt
    <3>2. CASE i < p
      <4>1. i \in DOMAIN s /\ i - 1 \in DOMAIN s /\ q \in i..Len(s) /\ p - 1 \in i - 1..Len(s)
        BY <1>a, <2>4, <3>2
      <4>2. s[i] # s[i - 1]
        <5> SUFFICES ASSUME s[i] = s[i - 1] PROVE FALSE
          OBVIOUS
        <5>1. \A j \in i..Len(s) : s[j] = s[i]
          BY <1>b, <3>2 DEF SettledAt
        <5>2. s[q] = s[i] /\ s[p - 1] = s[i]
          BY <1>a, <3>2, <4>1, <5>1
        <5> QED BY <2>4, <5>2
      <4>3. selected'[i] = s[i] /\ selected'[i - 1] = s[i - 1]
        BY <1>a, <2>4, <2>5, <3>2, <4>1
      <4> QED BY <4>2, <4>3 DEF SettledAt
    <3> QED BY <1>a, <2>9, <3>1, <3>2
  <2> QED BY <1>d, <2>6, <2>7, <2>8, <2>9
<1> QED BY <1>1, <1>2

(* SelectionSafety holds for any bank, whatever the players' plans and     *)
(* however the questions are drawn and shuffled.                           *)
THEOREM QuestionsSelected == SelectSpec => []SelectionSafety
<1>1. SelectInv /\ [SelectNext]_selectVars => SelectInv'
  <2> SUFFICES ASSUME SelectInv, [SelectNext]_selectVars PROVE SelectInv'
    OBVIOUS
  <2>1. CASE AllowTopics
    BY <2>1, AllowKeeps
  <2>2. ASSUME NEW i \in DOMAIN Difficulty, DrawBatch(Difficulty[i]) PROVE SelectInv'
    BY <2>2, DrawKeeps, Batches
  <2>3. CASE Shuffle
    BY <2>3, ShuffleKeeps
  <2>4. CASE PassOver
    BY <2>4, PassKeeps
  <2>5. CASE EndPass
    BY <2>5 DEF EndPass, SelectInv, SelectTypeOK, AllowedFit, BatchesFit, DrawnFit,
                PassFit, SettledAt, Short, Passing, Phases
  <2>6. CASE UNCHANGED selectVars
    BY <2>6 DEF selectVars, SelectInv, SelectTypeOK, AllowedFit, BatchesFit, DrawnFit,
                PassFit, SettledAt, Short, Passing
  <2> QED BY <2>1, <2>2, <2>3, <2>4, <2>5, <2>6 DEF SelectNext
<1>2. SelectInv => SelectionSafety
  <2> SUFFICES ASSUME SelectInv PROVE SelectionSafety
    OBVIOUS
  <2>1. SelectTypeOK /\ Len(selected) \in Nat
    BY DEF SelectInv, SelectTypeOK
  <2>2. TopicsAreAllowed
    BY DEF SelectInv, AllowedFit, TopicsAreAllowed, ToSet
  <2>3. PassKeepsQuestions
    BY DEF SelectInv, DrawnFit, PassKeepsQuestions, Passing
  <2>4. RepeatsAreLast
    BY <2>1 DEF SelectInv, SelectTypeOK, PassFit, SettledAt, RepeatsAreLast, Passing
  <2>5. FullMatch
    <3> SUFFICES ASSUME drawing = "done", Len(selected) < 5
                 PROVE  \E i \in DOMAIN Difficulty :
                          \E last \in Topics : \A t \in allowed \ {last} :
                            bank[Difficulty[i]][t] < Drawn(Difficulty[i])
      BY DEF FullMatch
    <3>1. PICK d \in Difficulties : Short(d)
      BY <2>1 DEF SelectInv, BatchesFit, Passing
    <3>2. PICK i \in DOMAIN Difficulty : d = Difficulty[i]
      BY Batches
    <3> QED BY <3>1, <3>2 DEF Short
  <2> QED BY <2>1, <2>2, <2>3, <2>4, <2>5 DEF SelectionSafety
<1> QED BY <1>1, <1>2, SelectInvInit, PTL DEF SelectSpec
=============================================================================

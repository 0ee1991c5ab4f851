------------------------- MODULE GameStreams_proofs -------------------------
(***************************************************************************)
(* Theorems about GameStreams, for any number of players, of streams that  *)
(* come and go, and of rounds: the events of the match are sent in order,  *)
(* and a stream that has caught up shows the question of the round, but    *)
(* for full channels and failed reads and writes of the round.             *)
(***************************************************************************)
EXTENDS GameStreams, FiniteSetTheorems, TLAPS

(* A call, and the broadcasts: at most one of each goroutine.              *)
StreamRecords ==
    [at : StreamAt, player : GamePlayers \cup {Nobody}, channel : Seq(Events),
     read : 0..GameRounds, question : 0..GameRounds, relayed : Events \cup {0}]

StreamsTyped ==
    /\ game \in [at : GameAt, round : 1..GameRounds + 1]
    /\ redisRound \in 0..GameRounds
    /\ loaded \in BOOLEAN
    /\ live \in 0..GameRounds
    /\ gameStreams \in [GamePlayers -> Calls \cup {Nobody}]
    /\ stream \in [Calls -> StreamRecords]
    /\ casting \in [Casters -> SUBSET Casts]
    /\ \A c \in Casters : \A b \in casting[c] : casting[c] = {b}
    /\ halted \in BOOLEAN /\ abandoned \in BOOLEAN
    /\ dropped \subseteq Calls
    /\ unset \in BOOLEAN /\ misread \in [Calls -> 0..GameRounds]
    /\ game.at \in {"setRound", "asking", "asked", "telling"} =>
         game.round \in 1..GameRounds

(* A stored channel belongs to a running call of its player.               *)
StoredStreams ==
    /\ \A s \in Calls : stream[s].at = "new" => stream[s] = NewStream
    /\ \A p \in GamePlayers : gameStreams[p] # Nobody =>
         /\ stream[gameStreams[p]].player = p
         /\ stream[gameStreams[p]].at \in {"stored", "snapshot", "relay"}

(* A running call has a player.                                            *)
OwnedStreams ==
    \A s \in Calls : stream[s].at \in {"stored", "snapshot", "relay"} =>
        stream[s].player \in GamePlayers

(* What is broadcast is what the match has come to, but for the end that a *)
(* stream's end makes.                                                     *)
CastsAgree ==
    /\ \A b \in casting["main"] :
         \/ game.at = "asking" /\ b.event = Question(game.round)
         \/ game.at = "telling" /\ b.event = Result(game.round)
         \/ game.at = "ending" /\ b.event = MatchEnd
    /\ \A s \in Calls : \A b \in casting[s] : b.event = MatchEnd /\ abandoned
    /\ game.at \in {"asking", "asked"} => redisRound = game.round \/ unset
    /\ game.at \in {"setRound", "asking", "asked"} => live \in {0, game.round}
    /\ game.at = "asked" => casting["main"] = {}

(* The last event that the match has begun to broadcast.                   *)
LastOf(at, r) ==
    CASE at \in {"start", "setRound"} -> Result(r - 1)
      [] at \in {"asking", "asked"} -> Question(r)
      [] at = "telling" -> Result(r)
      [] OTHER -> MatchEnd

LastEvent == LastOf(game.at, game.round)

(* A call's events come in order, and none is past a bound.                *)
Increasing(c) ==
    /\ \A i \in DOMAIN c.channel : c.relayed < c.channel[i]
    /\ \A i, j \in DOMAIN c.channel : i < j => c.channel[i] < c.channel[j]

UpTo(c, e) == c.relayed <= e /\ \A i \in DOMAIN c.channel : c.channel[i] <= e

(* Whoever is still to be visited has not been sent the event.             *)
OrderInv ==
    ~ abandoned => \A s \in Calls :
        /\ Increasing(stream[s])
        /\ UpTo(stream[s], LastEvent)
        /\ \A b \in casting["main"] :
             stream[s].player \in b.todo => UpTo(stream[s], b.event - 1)

(* The question that a call shows when it has relayed all of its channel:  *)
(* the last of the channel or, when there is none, the one it has shown or *)
(* will show from its snapshot.                                            *)
Asks(e) == \E r \in 1..GameRounds : e = Question(r)

ComesTo(c, r) ==
    \/ \E i \in DOMAIN c.channel :
         /\ c.channel[i] = Question(r)
         /\ \A j \in DOMAIN c.channel : i < j => ~ Asks(c.channel[j])
    \/ /\ \A i \in DOMAIN c.channel : ~ Asks(c.channel[i])
       /\ \/ c.at = "stored"
          \/ c.at = "snapshot" /\ c.read = r
          \/ c.at = "relay" /\ c.question = r

(* The calls whose snapshot has missed a round.                            *)
Missed(r) == {s \in Calls : misread[s] = r}

ShownInv ==
    game.at \in {"asking", "asked"} /\ live # 0 /\ loaded =>
        \A p \in GamePlayers :
            \/ gameStreams[p] \in dropped \cup {Nobody} \cup Missed(game.round)
            \/ \E b \in casting["main"] : p \in b.todo
            \/ ComesTo(stream[gameStreams[p]], game.round)

StreamInv ==
    /\ StreamsTyped /\ StoredStreams /\ OwnedStreams /\ CastsAgree
    /\ OrderInv /\ ShownInv

-----------------------------------------------------------------------------
(* A call's record.                                                        *)

LEMMA EventNumbers ==
    /\ GameRounds \in Nat \ {0}
    /\ MatchEnd \in Events /\ MatchEnd \in Nat
    /\ ~ Asks(MatchEnd)
    /\ \A r \in 1..GameRounds :
         /\ Question(r) \in Events /\ Result(r) \in Events
         /\ Asks(Question(r)) /\ ~ Asks(Result(r))
         /\ Result(r) < MatchEnd
         /\ {k \in 1..GameRounds : Question(k) = Question(r)} = {r}
  BY GameAssumption DEF MatchEnd, Events, Question, Result, Asks

LEMMA ChosenIsIn ==
    ASSUME NEW S, S # {}
    PROVE  (CHOOSE r \in S : TRUE) \in S
  OBVIOUS

LEMMA SentType ==
    ASSUME NEW c \in StreamRecords, NEW e \in Events
    PROVE  LET d == [c EXCEPT !.channel = Append(@, e)] IN
           /\ d \in StreamRecords
           /\ d.at = c.at /\ d.player = c.player /\ d.read = c.read
           /\ d.question = c.question /\ d.relayed = c.relayed
           /\ d.channel = Append(c.channel, e)
  BY DEF StreamRecords

LEMMA SentChannel ==
    ASSUME NEW q \in Seq(Events), NEW e \in Events
    PROVE  /\ DOMAIN q = 1..Len(q) /\ Len(q) \in Nat
           /\ DOMAIN Append(q, e) = 1..Len(q) + 1
           /\ \A i \in 1..Len(q) : Append(q, e)[i] = q[i]
           /\ Append(q, e)[Len(q) + 1] = e
  OBVIOUS

LEMMA RelayedChannel ==
    ASSUME NEW q \in Seq(Events), q # <<>>
    PROVE  /\ Tail(q) \in Seq(Events) /\ Head(q) \in Events /\ Head(q) = q[1]
           /\ DOMAIN q = 1..Len(q) /\ Len(q) \in Nat /\ Len(q) >= 1
           /\ DOMAIN Tail(q) = 1..Len(q) - 1
           /\ \A i \in 1..Len(q) - 1 : Tail(q)[i] = q[i + 1]
  OBVIOUS

(* What a call becomes when it relays an event.                            *)
Relayed(c) ==
    LET asks == {r \in 1..GameRounds : Question(r) = Head(c.channel)} IN
    [c EXCEPT !.channel = Tail(@), !.relayed = Head(c.channel),
              !.question = IF asks = {} THEN @ ELSE CHOOSE r \in asks : TRUE]

LEMMA RelayedType ==
    ASSUME NEW c \in StreamRecords, c.channel # <<>>
    PROVE  /\ Relayed(c) \in StreamRecords
           /\ Relayed(c).at = c.at /\ Relayed(c).player = c.player
           /\ Relayed(c).read = c.read /\ Relayed(c).channel = Tail(c.channel)
           /\ Relayed(c).relayed = Head(c.channel)
           /\ ~ Asks(Head(c.channel)) => Relayed(c).question = c.question
           /\ \A r \in 1..GameRounds :
                Head(c.channel) = Question(r) => Relayed(c).question = r
<1> DEFINE asks == {r \in 1..GameRounds : Question(r) = Head(c.channel)}
           k == CHOOSE r \in asks : TRUE
<1>1. c.channel \in Seq(Events) /\ c.question \in 0..GameRounds
  BY DEF StreamRecords
<1>2. Tail(c.channel) \in Seq(Events) /\ Head(c.channel) \in Events
  BY <1>1, RelayedChannel
<1>3. asks # {} => k \in asks
  BY ChosenIsIn
<1>4. asks = {} <=> ~ Asks(Head(c.channel))
  BY DEF Asks
<1>5. \A r \in 1..GameRounds : Head(c.channel) = Question(r) => asks = {r}
  BY EventNumbers
<1>6. (IF asks = {} THEN c.question ELSE k) \in 0..GameRounds
  BY <1>1, <1>3, GameAssumption
<1>7. \A r \in 1..GameRounds : Head(c.channel) = Question(r) => asks # {} /\ k = r
  BY <1>3, <1>5
<1>8. Relayed(c) = [c EXCEPT !.channel = Tail(@), !.relayed = Head(c.channel),
                     !.question = IF asks = {} THEN @ ELSE k]
  BY DEF Relayed
<1> HIDE DEF asks, k
<1> QED BY <1>1, <1>2, <1>4, <1>6, <1>7, <1>8 DEF StreamRecords

(* A call that is new, and one that is gone.                               *)
LEMMA NewType ==
    LET d == [NewStream EXCEPT !.at = "gone"] IN
    /\ NewStream \in StreamRecords /\ d \in StreamRecords
    /\ NewStream.at = "new" /\ NewStream.channel = <<>> /\ NewStream.relayed = 0
    /\ NewStream.player = Nobody
    /\ d.at = "gone" /\ d.channel = <<>> /\ d.relayed = 0 /\ d.player = Nobody
<1>1. 0 \in 0..GameRounds
  BY GameAssumption
<1>2. <<>> \in Seq(Events) /\ {"new", "gone"} \subseteq StreamAt
  BY DEF StreamAt
<1>3. NewStream \in StreamRecords
  BY <1>1, <1>2 DEF NewStream, StreamRecords
<1>4. [NewStream EXCEPT !.at = "gone"] =
        [at |-> "gone", player |-> Nobody, channel |-> <<>>, read |-> 0,
         question |-> 0, relayed |-> 0]
  BY DEF NewStream
<1>5. [NewStream EXCEPT !.at = "gone"] \in StreamRecords
  BY <1>1, <1>2, <1>4 DEF StreamRecords
<1> QED BY <1>3, <1>4, <1>5 DEF NewStream

-----------------------------------------------------------------------------
(* Types.                                                                  *)

(* A broadcast begins, visits a player or ends.                            *)
LEMMA CastType ==
    ASSUME StreamsTyped, NEW c \in Casters,
           \/ \E e \in Events : Cast(c, e)
           \/ EndCast(c)
           \/ \E b \in casting[c], p \in GamePlayers :
                casting' = [casting EXCEPT ![c] = {[b EXCEPT !.todo = @ \ {p}]}]
    PROVE  /\ casting' \in [Casters -> SUBSET Casts]
           /\ \A d \in Casters : \A b \in casting'[d] : casting'[d] = {b}
           /\ \A d \in Casters : d # c => casting'[d] = casting[d]
<1>1. /\ casting \in [Casters -> SUBSET Casts]
      /\ \A d \in Casters : \A b \in casting[d] : casting[d] = {b}
  BY DEF StreamsTyped
<1>2. ASSUME NEW B \in SUBSET Casts, casting' = [casting EXCEPT ![c] = B],
             \A b \in B : B = {b}
      PROVE  /\ casting' \in [Casters -> SUBSET Casts]
             /\ \A d \in Casters : \A b \in casting'[d] : casting'[d] = {b}
             /\ \A d \in Casters : d # c => casting'[d] = casting[d]
  <2>1. casting' \in [Casters -> SUBSET Casts]
    BY <1>1, <1>2
  <2>2. casting'[c] = B /\ \A d \in Casters : d # c => casting'[d] = casting[d]
    BY <1>1, <1>2
  <2> QED BY <1>1, <1>2, <2>1, <2>2
<1>3. ASSUME NEW e \in Events, Cast(c, e)
      PROVE  \E B \in SUBSET Casts : /\ casting' = [casting EXCEPT ![c] = B]
                                     /\ \A b \in B : B = {b}
  <2>1. [event |-> e, todo |-> GamePlayers] \in Casts
    BY DEF Casts
  <2> DEFINE B == {[event |-> e, todo |-> GamePlayers]}
  <2>2. B \in SUBSET Casts /\ \A b \in B : B = {b}
    BY <2>1
  <2>3. casting' = [casting EXCEPT ![c] = B]
    BY <1>3 DEF Cast
  <2> QED BY <2>2, <2>3
<1>4. ASSUME EndCast(c)
      PROVE  \E B \in SUBSET Casts : /\ casting' = [casting EXCEPT ![c] = B]
                                     /\ \A b \in B : B = {b}
  BY <1>4 DEF EndCast
<1>5. ASSUME NEW b \in casting[c], NEW p \in GamePlayers,
             casting' = [casting EXCEPT ![c] = {[b EXCEPT !.todo = @ \ {p}]}]
      PROVE  \E B \in SUBSET Casts : /\ casting' = [casting EXCEPT ![c] = B]
                                     /\ \A d \in B : B = {d}
  <2>1. b \in Casts
    BY <1>1
  <2>2. [b EXCEPT !.todo = @ \ {p}] \in Casts
    BY <2>1 DEF Casts
  <2> DEFINE B == {[b EXCEPT !.todo = @ \ {p}]}
  <2>3. B \in SUBSET Casts /\ \A d \in B : B = {d}
    BY <2>2
  <2>4. casting' = [casting EXCEPT ![c] = B]
    BY <1>5
  <2> QED BY <2>3, <2>4
<1> QED BY <1>2, <1>3, <1>4, <1>5

(* The events of the rounds are events.                                    *)
LEMMA RoundEvents ==
    ASSUME StreamsTyped
    PROVE  /\ game.round \in 1..GameRounds + 1
           /\ game.at \in GameAt
           /\ game.at \in {"setRound", "asking", "asked", "telling"} =>
                /\ game.round \in 1..GameRounds
                /\ Question(game.round) \in Events /\ Result(game.round) \in Events
  BY EventNumbers DEF StreamsTyped

(* The match goes from step to step within a round.                        *)
LEMMA GoToType ==
    ASSUME StreamsTyped, NEW label \in GameAt
    PROVE  LET g == [game EXCEPT !.at = label] IN
           /\ g \in [at : GameAt, round : 1..GameRounds + 1]
           /\ g.at = label /\ g.round = game.round
<1>1. game \in [at : GameAt, round : 1..GameRounds + 1]
  BY DEF StreamsTyped
<1> QED BY <1>1

(* A call changes and the others do not.                                   *)
LEMMA StreamType ==
    ASSUME StreamsTyped, NEW s \in Calls, NEW d \in StreamRecords,
           stream' = [stream EXCEPT ![s] = d]
    PROVE  /\ stream' \in [Calls -> StreamRecords]
           /\ stream'[s] = d
           /\ \A t \in Calls : t # s => stream'[t] = stream[t]
<1>1. stream \in [Calls -> StreamRecords]
  BY DEF StreamsTyped
<1> QED BY <1>1

(* A channel is sent an event, or drops it.                                *)
LEMMA VisitFacts ==
    ASSUME StreamsTyped, NEW c \in Casters, Visit(c)
    PROVE  \E b \in casting[c], p \in GamePlayers :
             /\ b \in Casts /\ b.event \in Events /\ p \in b.todo
             /\ casting[c] = {b}
             /\ casting' = [casting EXCEPT ![c] = {[b EXCEPT !.todo = @ \ {p}]}]
             /\ [b EXCEPT !.todo = @ \ {p}].event = b.event
             /\ [b EXCEPT !.todo = @ \ {p}].todo = b.todo \ {p}
             /\ \/ /\ gameStreams[p] = Nobody
                   /\ stream' = stream /\ dropped' = dropped
                \/ /\ gameStreams[p] \in Calls
                   /\ stream' = [stream EXCEPT ![gameStreams[p]] =
                        [stream[gameStreams[p]] EXCEPT
                           !.channel = Append(@, b.event)]]
                   /\ dropped' = dropped
                \/ /\ gameStreams[p] \in Calls
                   /\ stream' = stream
                   /\ dropped' = dropped \cup {gameStreams[p]}
             /\ UNCHANGED <<game, redisRound, loaded, live, gameStreams, halted,
                            abandoned, unset, misread>>
<1>1. PICK b \in casting[c], p \in GamePlayers :
        /\ p \in b.todo
        /\ casting' = [casting EXCEPT ![c] = {[b EXCEPT !.todo = @ \ {p}]}]
        /\ LET s == gameStreams[p] IN
             \/ /\ stream' = IF s = Nobody THEN stream
                     ELSE [stream EXCEPT ![s].channel = Append(@, b.event)]
                /\ UNCHANGED dropped
             \/ /\ s # Nobody
                /\ dropped' = dropped \cup {s}
                /\ UNCHANGED stream
        /\ UNCHANGED <<game, redisRound, loaded, live, gameStreams, halted,
                       abandoned, unset, misread>>
  BY DEF Visit
<1>2. b \in Casts /\ casting[c] = {b}
  BY <1>1 DEF StreamsTyped
<1>3. /\ b.event \in Events
      /\ [b EXCEPT !.todo = @ \ {p}].event = b.event
      /\ [b EXCEPT !.todo = @ \ {p}].todo = b.todo \ {p}
  BY <1>2 DEF Casts
<1>4. gameStreams[p] \in Calls \cup {Nobody}
  BY DEF StreamsTyped
<1>5. \/ /\ gameStreams[p] = Nobody
         /\ stream' = stream /\ dropped' = dropped
      \/ /\ gameStreams[p] \in Calls
         /\ stream' = [stream EXCEPT ![gameStreams[p]] =
              [stream[gameStreams[p]] EXCEPT !.channel = Append(@, b.event)]]
         /\ dropped' = dropped
      \/ /\ gameStreams[p] \in Calls
         /\ stream' = stream
         /\ dropped' = dropped \cup {gameStreams[p]}
  BY <1>1, <1>4
<1> QED BY <1>1, <1>2, <1>3, <1>5

(* What a call does to its record, and to nothing else of the streams.     *)
LEMMA CallFacts ==
    ASSUME StreamsTyped, NEW s \in Calls
    PROVE  /\ \A p \in GamePlayers : OpenStream(s, p) =>
                /\ stream[s].at = "new"
                /\ stream' = [stream EXCEPT ![s] =
                               [stream[s] EXCEPT !.at = "stored", !.player = p]]
           /\ ReadRound(s) =>
                /\ stream[s].at = "stored"
                /\ \E failed \in BOOLEAN :
                     /\ stream' = [stream EXCEPT ![s] = [stream[s] EXCEPT
                          !.at = IF ~ failed /\ redisRound >= 1 /\ loaded
                                   THEN "snapshot" ELSE "relay",
                          !.read = IF failed THEN 0 ELSE redisRound]]
                     /\ misread' = [misread EXCEPT
                          ![s] = IF (failed \/ unset) /\ PassedBy(s)
                                   THEN game.round ELSE misread[s]]
           /\ SendSnapshot(s) =>
                /\ stream[s].at = "snapshot"
                /\ stream' = [stream EXCEPT ![s] = [stream[s] EXCEPT
                     !.at = "relay", !.read = 0,
                     !.question = IF live # 0 THEN stream[s].read
                                              ELSE stream[s].question]]
           /\ Relay(s) =>
                /\ stream[s].at = "relay" /\ stream[s].channel # <<>>
                /\ stream' = [stream EXCEPT ![s] = Relayed(stream[s])]
           /\ EndStream(s) =>
                /\ stream[s].at = "relay"
                /\ stream' = [stream EXCEPT ![s] = [stream[s] EXCEPT !.at = "count"]]
           /\ CountRemaining(s) =>
                /\ stream[s].at = "count"
                /\ \/ stream' = [stream EXCEPT ![s] =
                                   [stream[s] EXCEPT !.at = "ending"]]
                   \/ stream' = [stream EXCEPT ![s] = [NewStream EXCEPT !.at = "gone"]]
           /\ MatchAbandoned(s) =>
                /\ stream[s].at = "ending"
                /\ stream' = [stream EXCEPT ![s] = [NewStream EXCEPT !.at = "gone"]]
<1>1. stream \in [Calls -> StreamRecords]
  BY DEF StreamsTyped
<1>2. \A p \in GamePlayers : OpenStream(s, p) =>
        /\ stream[s].at = "new"
        /\ stream' = [stream EXCEPT ![s] =
                       [stream[s] EXCEPT !.at = "stored", !.player = p]]
  BY <1>1 DEF OpenStream
<1>3. ReadRound(s) =>
        /\ stream[s].at = "stored"
        /\ \E failed \in BOOLEAN :
             /\ stream' = [stream EXCEPT ![s] = [stream[s] EXCEPT
                  !.at = IF ~ failed /\ redisRound >= 1 /\ loaded
                           THEN "snapshot" ELSE "relay",
                  !.read = IF failed THEN 0 ELSE redisRound]]
             /\ misread' = [misread EXCEPT
                  ![s] = IF (failed \/ unset) /\ PassedBy(s)
                           THEN game.round ELSE misread[s]]
  BY <1>1 DEF ReadRound
<1>4. SendSnapshot(s) =>
        /\ stream[s].at = "snapshot"
        /\ stream' = [stream EXCEPT ![s] = [stream[s] EXCEPT
             !.at = "relay", !.read = 0,
             !.question = IF live # 0 THEN stream[s].read
                                      ELSE stream[s].question]]
  BY <1>1 DEF SendSnapshot
<1>5. Relay(s) =>
        /\ stream[s].at = "relay" /\ stream[s].channel # <<>>
        /\ stream' = [stream EXCEPT ![s] = Relayed(stream[s])]
  BY <1>1 DEF Relay, Relayed
<1>6. EndStream(s) =>
        /\ stream[s].at = "relay"
        /\ stream' = [stream EXCEPT ![s] = [stream[s] EXCEPT !.at = "count"]]
  BY <1>1 DEF EndStream, Step
<1>7. CountRemaining(s) =>
        /\ stream[s].at = "count"
        /\ \/ stream' = [stream EXCEPT ![s] = [stream[s] EXCEPT !.at = "ending"]]
           \/ stream' = [stream EXCEPT ![s] = [NewStream EXCEPT !.at = "gone"]]
  BY <1>1 DEF CountRemaining, Step, Gone
<1>8. MatchAbandoned(s) =>
        /\ stream[s].at = "ending"
        /\ stream' = [stream EXCEPT ![s] = [NewStream EXCEPT !.at = "gone"]]
  BY <1>1 DEF MatchAbandoned, Gone
<1> QED BY <1>2, <1>3, <1>4, <1>5, <1>6, <1>7, <1>8

(* What a call makes of its record is a record, and never a new one.       *)
LEMMA CallType ==
    ASSUME StreamsTyped, NEW s \in Calls,
           \/ \E p \in GamePlayers : OpenStream(s, p)
           \/ ReadRound(s) \/ SendSnapshot(s) \/ Relay(s) \/ EndStream(s)
           \/ CountRemaining(s) \/ MatchAbandoned(s)
    PROVE  /\ stream' \in [Calls -> StreamRecords]
           /\ stream'[s].at # "new"
           /\ \A t \in Calls : t # s => stream'[t] = stream[t]
           /\ Relay(s) \/ SendSnapshot(s) \/ ReadRound(s) =>
                /\ stream'[s].player = stream[s].player
                /\ stream'[s].at \in {"snapshot", "relay"}
                /\ stream[s].at \in {"stored", "snapshot", "relay"}
           /\ Relay(s) => stream'[s] = Relayed(stream[s])
           /\ ~ Relay(s) => \/ /\ stream'[s].channel = stream[s].channel
                               /\ stream'[s].relayed = stream[s].relayed
                            \/ /\ stream'[s].channel = <<>>
                               /\ stream'[s].relayed = 0
                               /\ stream'[s].player = Nobody
           /\ ReadRound(s) \/ SendSnapshot(s) \/ EndStream(s) =>
                stream'[s].player = stream[s].player
<1> DEFINE c == stream[s]
<1>1. /\ c \in StreamRecords /\ redisRound \in 0..GameRounds
      /\ c.read \in 0..GameRounds /\ c.question \in 0..GameRounds
      /\ live \in 0..GameRounds
  BY DEF StreamsTyped, StreamRecords
<1>2. {"stored", "snapshot", "relay", "count", "ending", "gone"} \subseteq StreamAt
  BY DEF StreamAt
<1> HIDE DEF c
<1>4. ASSUME NEW p \in GamePlayers, OpenStream(s, p)
      PROVE  \E d \in StreamRecords :
               /\ stream' = [stream EXCEPT ![s] = d]
               /\ d.at = "stored" /\ d.channel = c.channel /\ d.relayed = c.relayed
  <2> DEFINE d == [c EXCEPT !.at = "stored", !.player = p]
  <2>1. stream' = [stream EXCEPT ![s] = d]
    BY <1>4, CallFacts DEF c
  <2>2. d \in StreamRecords /\ d.at = "stored" /\ d.channel = c.channel
        /\ d.relayed = c.relayed
    BY <1>1, <1>2 DEF StreamRecords
  <2> HIDE DEF d
  <2> QED BY <2>1, <2>2
<1>5. ASSUME ReadRound(s) \/ SendSnapshot(s) \/ EndStream(s)
      PROVE  \E d \in StreamRecords :
               /\ stream' = [stream EXCEPT ![s] = d]
               /\ d.at \in {"snapshot", "relay", "count"}
               /\ d.channel = c.channel /\ d.relayed = c.relayed
               /\ d.player = c.player
               /\ d.at = "count" => EndStream(s)
               /\ ReadRound(s) \/ SendSnapshot(s) => c.at \in {"stored", "snapshot"}
               /\ EndStream(s) => c.at = "relay"
  <2>1. \E label \in {"snapshot", "relay", "count"}, n \in 0..GameRounds,
           m \in 0..GameRounds :
          /\ \/ stream' = [stream EXCEPT ![s] = [c EXCEPT !.at = label]]
             \/ stream' = [stream EXCEPT ![s] = [c EXCEPT !.at = label, !.read = n]]
             \/ stream' = [stream EXCEPT ![s] = [c EXCEPT !.at = label, !.read = 0,
                                                          !.question = m]]
          /\ label = "count" => EndStream(s)
          /\ ReadRound(s) \/ SendSnapshot(s) => c.at \in {"stored", "snapshot"}
          /\ EndStream(s) => c.at = "relay"
    <3>1. CASE ReadRound(s)
      <4>1. PICK failed \in BOOLEAN :
              stream' = [stream EXCEPT ![s] = [c EXCEPT
                   !.at = IF ~ failed /\ redisRound >= 1 /\ loaded
                            THEN "snapshot" ELSE "relay",
                   !.read = IF failed THEN 0 ELSE redisRound]]
        BY <3>1, CallFacts DEF c
      <4> DEFINE label == IF ~ failed /\ redisRound >= 1 /\ loaded
                            THEN "snapshot" ELSE "relay"
                 n == IF failed THEN 0 ELSE redisRound
      <4>2. label \in {"snapshot", "relay"} /\ n \in 0..GameRounds
        BY <1>1, GameAssumption
      <4>3. stream' = [stream EXCEPT ![s] = [c EXCEPT !.at = label, !.read = n]]
        BY <4>1
      <4>4. c.at = "stored"
        BY <3>1, CallFacts DEF c
      <4>5. 0 \in 0..GameRounds
        BY GameAssumption
      <4>6. ~ EndStream(s)
        BY <4>4, CallFacts DEF c
      <4> HIDE DEF label, n
      <4> QED BY <4>2, <4>3, <4>4, <4>5, <4>6
    <3>2. CASE SendSnapshot(s)
      BY <1>1, <3>2, CallFacts DEF c
    <3>3. CASE EndStream(s)
      BY <1>1, <3>3, CallFacts DEF c
    <3> QED BY <1>5, <3>1, <3>2, <3>3
  <2>2. PICK label \in {"snapshot", "relay", "count"}, n \in 0..GameRounds,
             m \in 0..GameRounds :
          /\ \/ stream' = [stream EXCEPT ![s] = [c EXCEPT !.at = label]]
             \/ stream' = [stream EXCEPT ![s] = [c EXCEPT !.at = label, !.read = n]]
             \/ stream' = [stream EXCEPT ![s] = [c EXCEPT !.at = label, !.read = 0,
                                                          !.question = m]]
          /\ label = "count" => EndStream(s)
          /\ ReadRound(s) \/ SendSnapshot(s) => c.at \in {"stored", "snapshot"}
          /\ EndStream(s) => c.at = "relay"
    BY <2>1
  <2>3. label \in StreamAt
    BY <1>2
  <2> DEFINE d1 == [c EXCEPT !.at = label]
             d2 == [c EXCEPT !.at = label, !.read = n]
             d3 == [c EXCEPT !.at = label, !.read = 0, !.question = m]
  <2>4. /\ d1 \in StreamRecords /\ d1.at = label /\ d1.player = c.player
        /\ d1.channel = c.channel /\ d1.relayed = c.relayed
    BY <1>1, <2>3 DEF StreamRecords
  <2>5. /\ d2 \in StreamRecords /\ d2.at = label /\ d2.player = c.player
        /\ d2.channel = c.channel /\ d2.relayed = c.relayed
    BY <1>1, <2>3 DEF StreamRecords
  <2>6. /\ d3 \in StreamRecords /\ d3.at = label /\ d3.player = c.player
        /\ d3.channel = c.channel /\ d3.relayed = c.relayed
    <3>1. 0 \in 0..GameRounds
      BY GameAssumption
    <3> QED BY <1>1, <2>3, <3>1 DEF StreamRecords
  <2>7. \/ stream' = [stream EXCEPT ![s] = d1]
        \/ stream' = [stream EXCEPT ![s] = d2]
        \/ stream' = [stream EXCEPT ![s] = d3]
    BY <2>2
  <2> HIDE DEF d1, d2, d3
  <2>8. PICK d \in {d1, d2, d3} : stream' = [stream EXCEPT ![s] = d]
    BY <2>7
  <2>9. /\ d \in StreamRecords /\ d.at = label /\ d.player = c.player
        /\ d.channel = c.channel /\ d.relayed = c.relayed
    BY <2>4, <2>5, <2>6
  <2>10. /\ label = "count" => EndStream(s)
         /\ ReadRound(s) \/ SendSnapshot(s) => c.at \in {"stored", "snapshot"}
         /\ EndStream(s) => c.at = "relay"
    BY <2>2
  <2> QED BY <2>8, <2>9, <2>10
<1>6. ASSUME Relay(s)
      PROVE  /\ stream' = [stream EXCEPT ![s] = Relayed(c)]
             /\ Relayed(c) \in StreamRecords
             /\ Relayed(c).at = "relay" /\ Relayed(c).player = c.player
             /\ c.at = "relay"
  BY <1>1, <1>6, CallFacts, RelayedType DEF c
<1>7. ASSUME CountRemaining(s) \/ MatchAbandoned(s)
      PROVE  \E d \in StreamRecords :
               /\ stream' = [stream EXCEPT ![s] = d]
               /\ d.at \in {"ending", "gone"}
               /\ \/ d.channel = c.channel /\ d.relayed = c.relayed
                  \/ d.channel = <<>> /\ d.relayed = 0 /\ d.player = Nobody
  <2>1. \/ stream' = [stream EXCEPT ![s] = [c EXCEPT !.at = "ending"]]
        \/ stream' = [stream EXCEPT ![s] = [NewStream EXCEPT !.at = "gone"]]
    BY <1>7, CallFacts DEF c
  <2>2. LET d == [c EXCEPT !.at = "ending"] IN
        /\ d \in StreamRecords /\ d.at = "ending"
        /\ d.channel = c.channel /\ d.relayed = c.relayed
    BY <1>1, <1>2 DEF StreamRecords
  <2> QED BY <2>1, <2>2, NewType
<1>9. Relay(s) => ~ EndStream(s)
  <2>1. Relay(s) => stream' = [stream EXCEPT ![s] = Relayed(c)] /\ Relayed(c).at = "relay"
    BY <1>6
  <2>2. EndStream(s) => /\ stream' = [stream EXCEPT ![s] = [c EXCEPT !.at = "count"]]
    BY CallFacts DEF c
  <2>3. [c EXCEPT !.at = "count"].at = "count"
    BY <1>1 DEF StreamRecords
  <2>4. stream \in [Calls -> StreamRecords]
    BY DEF StreamsTyped
  <2> QED BY <2>1, <2>2, <2>3, <2>4
<1>10. stream \in [Calls -> StreamRecords]
  BY DEF StreamsTyped
<1>11. CASE Relay(s)
  <2>1. ~ ReadRound(s) /\ ~ SendSnapshot(s) /\ ~ EndStream(s)
    BY <1>9, <1>11, CallFacts
  <2>2. stream'[s] = Relayed(c) /\ stream' \in [Calls -> StreamRecords]
        /\ \A t \in Calls : t # s => stream'[t] = stream[t]
    BY <1>6, <1>10, <1>11
  <2> QED BY <1>6, <1>11, <2>1, <2>2 DEF c
<1>12. CASE ReadRound(s) \/ SendSnapshot(s) \/ EndStream(s)
  <2>1. PICK d \in StreamRecords :
               /\ stream' = [stream EXCEPT ![s] = d]
               /\ d.at \in {"snapshot", "relay", "count"}
               /\ d.channel = c.channel /\ d.relayed = c.relayed
               /\ d.player = c.player
               /\ d.at = "count" => EndStream(s)
               /\ ReadRound(s) \/ SendSnapshot(s) => c.at \in {"stored", "snapshot"}
               /\ EndStream(s) => c.at = "relay"
    BY <1>5, <1>12
  <2>2. stream'[s] = d /\ stream' \in [Calls -> StreamRecords]
        /\ \A t \in Calls : t # s => stream'[t] = stream[t]
    BY <1>10, <2>1
  <2>3. ~ Relay(s)
    BY <1>9, <1>12, CallFacts
  <2> QED BY <2>1, <2>2, <2>3 DEF c
<1>13. CASE \/ \E p \in GamePlayers : OpenStream(s, p)
            \/ CountRemaining(s) \/ MatchAbandoned(s)
  <2>1. PICK d \in StreamRecords :
               /\ stream' = [stream EXCEPT ![s] = d]
               /\ d.at \in {"stored", "ending", "gone"}
               /\ \/ d.channel = c.channel /\ d.relayed = c.relayed
                  \/ d.channel = <<>> /\ d.relayed = 0 /\ d.player = Nobody
    BY <1>4, <1>7, <1>13
  <2>2. stream'[s] = d /\ stream' \in [Calls -> StreamRecords]
        /\ \A t \in Calls : t # s => stream'[t] = stream[t]
    BY <1>10, <2>1
  <2>3. c.at \in {"new", "count", "ending"}
    BY <1>13, CallFacts DEF c
  <2>4. ~ Relay(s) /\ ~ ReadRound(s) /\ ~ SendSnapshot(s) /\ ~ EndStream(s)
    BY <2>3, CallFacts DEF c
  <2> QED BY <2>1, <2>2, <2>4 DEF c
<1> QED BY <1>11, <1>12, <1>13

(* The steps of the match leave the streams alone.                         *)
MatchStep ==
    \/ StartRound \/ SetRound \/ ArmTimer \/ DeadlinePasses \/ CloseRound
    \/ RoundCompleted \/ MatchFinished

CallStep(s) ==
    \/ \E p \in GamePlayers : OpenStream(s, p)
    \/ ReadRound(s) \/ SendSnapshot(s) \/ Relay(s) \/ EndStream(s)
    \/ CountRemaining(s) \/ MatchAbandoned(s)

(* Where the match goes, and what it broadcasts.                           *)
LEMMA MatchFacts ==
    ASSUME StreamsTyped, MatchStep
    PROVE  /\ UNCHANGED <<gameStreams, stream, halted, abandoned, dropped, misread>>
           /\ unset' \in BOOLEAN
           /\ game.at = "setRound" \/ unset' = unset
           /\ \/ /\ game.at = "start" /\ game'.at = "over"
                 /\ game'.round = game.round
                 /\ UNCHANGED <<redisRound, loaded, live, casting>>
              \/ /\ game.at = "start" /\ game'.at = "ending"
                 /\ game'.round = game.round /\ Cast("main", MatchEnd)
                 /\ UNCHANGED <<redisRound, loaded, live>>
              \/ /\ game.at = "start" /\ game'.at = "setRound"
                 /\ game'.round = game.round /\ game.round <= GameRounds
                 /\ live' = game.round
                 /\ UNCHANGED <<redisRound, loaded, casting>>
              \/ /\ game.at = "setRound" /\ game'.at = "asking"
                 /\ game'.round = game.round
                 /\ \/ redisRound' = game.round
                    \/ unset' = TRUE /\ redisRound' = redisRound
                 /\ Cast("main", Question(game.round))
                 /\ UNCHANGED <<loaded, live>>
              \/ /\ game.at = "asking" /\ game'.at = "asked"
                 /\ game'.round = game.round /\ CastOver("main")
                 /\ EndCast("main") /\ UNCHANGED <<redisRound, loaded, live>>
              \/ /\ game.at = "asked" /\ game' = game /\ live' = 0
                 /\ UNCHANGED <<redisRound, loaded, casting>>
              \/ /\ game.at = "asked" /\ game'.at = "telling"
                 /\ game'.round = game.round
                 /\ Cast("main", Result(game.round))
                 /\ UNCHANGED <<redisRound, loaded, live>>
              \/ /\ game.at = "asked" /\ game'.at = "over"
                 /\ game'.round = game.round
                 /\ UNCHANGED <<redisRound, loaded, live, casting>>
              \/ /\ game.at = "telling" /\ game'.at = "start"
                 /\ game'.round = game.round + 1 /\ EndCast("main")
                 /\ UNCHANGED <<redisRound, loaded, live>>
              \/ /\ game.at = "ending" /\ game'.at = "over"
                 /\ game'.round = game.round /\ EndCast("main")
                 /\ loaded' = FALSE /\ UNCHANGED <<redisRound, live>>
           /\ game' \in [at : GameAt, round : 1..GameRounds + 1]
<1>1. \A label \in GameAt :
        LET g == [game EXCEPT !.at = label] IN
           /\ g \in [at : GameAt, round : 1..GameRounds + 1]
           /\ g.at = label /\ g.round = game.round
  BY GoToType
<1>2. {"start", "setRound", "asking", "asked", "telling", "ending", "over"} = GameAt
  BY DEF GameAt
<1>3. game \in [at : GameAt, round : 1..GameRounds + 1] /\ unset \in BOOLEAN
  BY DEF StreamsTyped
<1>g. \A label \in GameAt : GoTo(label) =>
         /\ game' \in [at : GameAt, round : 1..GameRounds + 1]
         /\ game'.at = label /\ game'.round = game.round
  BY <1>1 DEF GoTo
<1>4. CASE StartRound
  <2>1. CASE GoTo("over")
    BY <1>2, <1>3, <1>4, <1>g, <2>1 DEF StartRound, At, GoTo, Cast, missVars
  <2>2. CASE ~ GoTo("over")
    BY <1>2, <1>3, <1>4, <1>g, <2>2 DEF StartRound, At, missVars
  <2> QED BY <2>1, <2>2
<1>5. CASE SetRound
  BY <1>2, <1>5, <1>g DEF SetRound, Ask, At
<1>6. CASE ArmTimer
  BY <1>2, <1>3, <1>6, <1>g DEF ArmTimer, At, missVars
<1>7. CASE DeadlinePasses
  BY <1>3, <1>7 DEF DeadlinePasses, At, missVars
<1>8. CASE CloseRound
  BY <1>2, <1>3, <1>8, <1>g DEF CloseRound, At, missVars
<1>9. CASE RoundCompleted
  <2>1. game.round \in 1..GameRounds
    BY <1>9, RoundEvents DEF RoundCompleted, At
  <2>2. game.round + 1 \in 1..GameRounds + 1
    BY <2>1, GameAssumption
  <2> QED BY <1>2, <1>3, <1>9, <2>2 DEF RoundCompleted, At, missVars
<1>10. CASE MatchFinished
  BY <1>2, <1>3, <1>10, <1>g DEF MatchFinished, At, missVars
<1> QED BY <1>4, <1>5, <1>6, <1>7, <1>8, <1>9, <1>10 DEF MatchStep

(* Every step keeps the types.                                             *)
LEMMA StreamsTypeStep ==
    ASSUME StreamsTyped, [GameNext]_gameVars
    PROVE  StreamsTyped'
<1>0. /\ game \in [at : GameAt, round : 1..GameRounds + 1]
      /\ redisRound \in 0..GameRounds /\ loaded \in BOOLEAN
      /\ live \in 0..GameRounds
      /\ gameStreams \in [GamePlayers -> Calls \cup {Nobody}]
      /\ stream \in [Calls -> StreamRecords]
      /\ casting \in [Casters -> SUBSET Casts]
      /\ \A c \in Casters : \A b \in casting[c] : casting[c] = {b}
      /\ halted \in BOOLEAN /\ abandoned \in BOOLEAN
      /\ dropped \subseteq Calls
      /\ unset \in BOOLEAN /\ misread \in [Calls -> 0..GameRounds]
      /\ game.at \in {"setRound", "asking", "asked", "telling"} =>
           game.round \in 1..GameRounds
      /\ "main" \in Casters
  BY DEF StreamsTyped, Casters
<1>1. ASSUME NEW c \in Casters, Visit(c) PROVE StreamsTyped'
  <2>1. PICK b \in casting[c], p \in GamePlayers :
             /\ b.event \in Events
             /\ casting' = [casting EXCEPT ![c] = {[b EXCEPT !.todo = @ \ {p}]}]
             /\ \/ stream' = stream /\ dropped' = dropped
                \/ /\ gameStreams[p] \in Calls
                   /\ stream' = [stream EXCEPT ![gameStreams[p]] =
                        [stream[gameStreams[p]] EXCEPT
                           !.channel = Append(@, b.event)]]
                   /\ dropped' = dropped
                \/ /\ gameStreams[p] \in Calls
                   /\ stream' = stream
                   /\ dropped' = dropped \cup {gameStreams[p]}
             /\ UNCHANGED <<game, redisRound, loaded, live, gameStreams, halted,
                            abandoned, unset, misread>>
    BY <1>1, VisitFacts
  <2>2. /\ casting' \in [Casters -> SUBSET Casts]
        /\ \A d \in Casters : \A e \in casting'[d] : casting'[d] = {e}
    BY <2>1, CastType
  <2>3. stream' \in [Calls -> StreamRecords]
    <3>1. CASE stream' = stream
      BY <1>0, <3>1
    <3>2. CASE /\ gameStreams[p] \in Calls
               /\ stream' = [stream EXCEPT ![gameStreams[p]] =
                    [stream[gameStreams[p]] EXCEPT !.channel = Append(@, b.event)]]
      <4> DEFINE d == [stream[gameStreams[p]] EXCEPT !.channel = Append(@, b.event)]
      <4>1. d \in StreamRecords
        BY <1>0, <2>1, <3>2, SentType
      <4>2. stream' = [stream EXCEPT ![gameStreams[p]] = d]
        BY <3>2
      <4> HIDE DEF d
      <4> QED BY <1>0, <4>1, <4>2
    <3> QED BY <2>1, <3>1, <3>2
  <2>4. dropped' \subseteq Calls
    BY <1>0, <2>1
  <2> QED BY <1>0, <2>1, <2>2, <2>3, <2>4 DEF StreamsTyped
<1>2. CASE MatchStep
  <2>1. /\ game' \in [at : GameAt, round : 1..GameRounds + 1]
        /\ UNCHANGED <<gameStreams, stream, halted, abandoned, dropped, misread>>
        /\ unset' \in BOOLEAN
    BY <1>2, MatchFacts
  <2>2. redisRound' \in 0..GameRounds /\ loaded' \in BOOLEAN /\ live' \in 0..GameRounds
    <3>1. \/ redisRound' = redisRound
          \/ game.at = "setRound" /\ redisRound' = game.round
      BY <1>2, MatchFacts
    <3>2. loaded' = loaded \/ loaded' = FALSE
      BY <1>2, MatchFacts
    <3>3. \/ live' \in {live, 0}
          \/ live' = game.round /\ game.round <= GameRounds
      BY <1>2, MatchFacts
    <3>4. game.round \in 1..GameRounds + 1
      BY RoundEvents
    <3>5. game.round <= GameRounds => game.round \in 0..GameRounds
      BY <3>4, GameAssumption
    <3>6. game.at = "setRound" => game.round \in 0..GameRounds
      BY RoundEvents, GameAssumption
    <3>7. redisRound \in 0..GameRounds /\ live \in 0..GameRounds /\ loaded \in BOOLEAN
      BY <1>0
    <3>8. 0 \in 0..GameRounds
      BY GameAssumption
    <3> QED BY <3>1, <3>2, <3>3, <3>5, <3>6, <3>7, <3>8
  <2>3. game'.at \in {"setRound", "asking", "asked", "telling"} =>
           game'.round \in 1..GameRounds
    <3>1. \/ game'.at \in {"start", "ending", "over"}
          \/ game'.round = game.round /\ game.round <= GameRounds
          \/ /\ game.at \in {"setRound", "asking", "asked", "telling"}
             /\ game'.round = game.round
      BY <1>2, MatchFacts
    <3>2. game.round \in 1..GameRounds + 1
      BY RoundEvents
    <3>3. game.round <= GameRounds => game.round \in 1..GameRounds
      BY <3>2, GameAssumption
    <3> QED BY <1>0, <3>1, <3>3
  <2>4. \/ \E e \in Events : Cast("main", e)
        \/ EndCast("main") \/ UNCHANGED casting
    <3>1. game.at \in {"setRound", "asked"} =>
            Question(game.round) \in Events /\ Result(game.round) \in Events
      BY RoundEvents
    <3> QED BY <1>2, <3>1, MatchFacts, EventNumbers
  <2>5. /\ casting' \in [Casters -> SUBSET Casts]
        /\ \A d \in Casters : \A e \in casting'[d] : casting'[d] = {e}
    BY <1>0, <2>4, CastType
  <2> QED BY <1>0, <2>1, <2>2, <2>3, <2>5 DEF StreamsTyped
<1>3. ASSUME NEW s \in Calls, CallStep(s) PROVE StreamsTyped'
  <2>1. stream' \in [Calls -> StreamRecords]
    BY <1>3, CallType DEF CallStep
  <2>2. CASE CountRemaining(s) \/ MatchAbandoned(s)
    <3>1. \/ \E e \in Events : Cast(s, e)
          \/ EndCast(s) \/ UNCHANGED casting
      BY <2>2, EventNumbers DEF CountRemaining, MatchAbandoned
    <3>2. s \in Casters
      BY DEF Casters
    <3>3. /\ casting' \in [Casters -> SUBSET Casts]
          /\ \A d \in Casters : \A e \in casting'[d] : casting'[d] = {e}
      BY <1>0, <3>1, <3>2, CastType
    <3>4. /\ game' = [game EXCEPT !.at = "over"] \/ game' = game
          /\ loaded' \in BOOLEAN /\ abandoned' \in BOOLEAN
          /\ UNCHANGED <<redisRound, live, gameStreams, halted, dropped, unset,
                         misread>>
      BY <1>0, <2>2 DEF CountRemaining, MatchAbandoned, missVars
    <3>5. /\ game' \in [at : GameAt, round : 1..GameRounds + 1]
          /\ game'.at \in {"setRound", "asking", "asked", "telling"} =>
               game'.round \in 1..GameRounds
      <4>1. "over" \in GameAt
        BY DEF GameAt
      <4> QED BY <1>0, <3>4, <4>1, GoToType
    <3> QED BY <1>0, <2>1, <3>3, <3>4, <3>5 DEF StreamsTyped
  <2>3. CASE \/ ReadRound(s) \/ SendSnapshot(s) \/ Relay(s) \/ EndStream(s)
             \/ \E p \in GamePlayers : OpenStream(s, p)
    <3>1. /\ UNCHANGED <<game, redisRound, loaded, live, casting, abandoned, dropped,
                         unset>>
          /\ halted' \in BOOLEAN
      BY <1>0, <2>3 DEF ReadRound, SendSnapshot, Relay, EndStream, OpenStream, missVars
    <3>3. misread' \in [Calls -> 0..GameRounds]
      <4>1. CASE ReadRound(s)
        <5>1. \E r \in {game.round, misread[s]} :
                misread' = [misread EXCEPT ![s] = r] /\ (r # misread[s] => PassedBy(s))
          BY <4>1, CallFacts
        <5>2. PassedBy(s) => game.round \in 0..GameRounds
          BY <1>0, GameAssumption DEF PassedBy, At
        <5> QED BY <1>0, <5>1, <5>2
      <4>2. CASE ~ ReadRound(s)
        BY <1>0, <2>3, <4>2 DEF SendSnapshot, Relay, EndStream, OpenStream, missVars
      <4> QED BY <4>1, <4>2
    <3>2. gameStreams' \in [GamePlayers -> Calls \cup {Nobody}]
      BY <1>0, <2>3 DEF ReadRound, SendSnapshot, Relay, EndStream, OpenStream
    <3> QED BY <1>0, <2>1, <3>1, <3>2, <3>3 DEF StreamsTyped
  <2> QED BY <1>3, <2>2, <2>3 DEF CallStep
<1>4. CASE UNCHANGED gameVars
  BY <1>0, <1>4 DEF gameVars, StreamsTyped
<1> QED BY <1>1, <1>2, <1>3, <1>4 DEF GameNext, MatchStep, CallStep

-----------------------------------------------------------------------------
(* What each step of a call changes.                                       *)

Others(s) == \A t \in Calls : t # s => stream'[t] = stream[t]

(* A call keeps its player, what it was sent and what it has relayed.      *)
Keeps(s) == /\ stream'[s].player = stream[s].player
            /\ stream'[s].channel = stream[s].channel
            /\ stream'[s].relayed = stream[s].relayed

LEMMA OpenFacts ==
    ASSUME StreamsTyped, StoredStreams, NEW s \in Calls, NEW p \in GamePlayers,
           OpenStream(s, p)
    PROVE  /\ stream[s].at = "new"
           /\ stream'[s].at = "stored" /\ stream'[s].player = p
           /\ stream'[s].channel = <<>> /\ stream'[s].relayed = 0
           /\ Others(s)
           /\ gameStreams'[p] = s
           /\ \A q \in GamePlayers : q # p => gameStreams'[q] = gameStreams[q]
           /\ UNCHANGED <<game, redisRound, loaded, live, casting, abandoned, dropped,
                          unset, misread>>
<1>1. /\ stream[s] = NewStream /\ stream[s].at = "new"
      /\ stream' = [stream EXCEPT ![s] = [stream[s] EXCEPT !.at = "stored",
                                                           !.player = p]]
  BY CallFacts DEF StoredStreams
<1> DEFINE d == [NewStream EXCEPT !.at = "stored", !.player = p]
<1>2. /\ d.at = "stored" /\ d.player = p /\ d.channel = <<>> /\ d.relayed = 0
      /\ d \in StreamRecords
  <2>1. "stored" \in StreamAt
    BY DEF StreamAt
  <2> QED BY <2>1, NewType DEF StreamRecords
<1>3. stream' = [stream EXCEPT ![s] = d]
  BY <1>1
<1> HIDE DEF d
<1>4. stream'[s] = d /\ Others(s)
  BY <1>2, <1>3, StreamType DEF Others
<1>5. gameStreams \in [GamePlayers -> Calls \cup {Nobody}]
      /\ gameStreams' = [gameStreams EXCEPT ![p] = s]
  BY DEF OpenStream, StreamsTyped
<1>6. UNCHANGED <<game, redisRound, loaded, live, casting, abandoned, dropped,
                  unset, misread>>
  BY DEF OpenStream, missVars
<1> QED BY <1>1, <1>2, <1>4, <1>5, <1>6

LEMMA ReadFacts ==
    ASSUME StreamsTyped, NEW s \in Calls, ReadRound(s)
    PROVE  /\ stream[s].at = "stored" /\ stream'[s].at \in {"snapshot", "relay"}
           /\ redisRound >= 1 /\ loaded =>
                \/ stream'[s].at = "snapshot" /\ stream'[s].read = redisRound
                \/ PassedBy(s) => misread'[s] = game.round
           /\ unset /\ PassedBy(s) => misread'[s] = game.round
           /\ misread'[s] \in {misread[s], game.round}
           /\ \A t \in Calls : t # s => misread'[t] = misread[t]
           /\ Keeps(s) /\ Others(s)
           /\ UNCHANGED <<game, redisRound, loaded, live, gameStreams, casting,
                          abandoned, dropped, unset>>
<1>1. PICK failed \in BOOLEAN :
        /\ stream' = [stream EXCEPT ![s] = [stream[s] EXCEPT
             !.at = IF ~ failed /\ redisRound >= 1 /\ loaded
                      THEN "snapshot" ELSE "relay",
             !.read = IF failed THEN 0 ELSE redisRound]]
        /\ misread' = [misread EXCEPT
             ![s] = IF (failed \/ unset) /\ PassedBy(s)
                      THEN game.round ELSE misread[s]]
  BY CallFacts
<1> DEFINE label == IF ~ failed /\ redisRound >= 1 /\ loaded
                      THEN "snapshot" ELSE "relay"
           n == IF failed THEN 0 ELSE redisRound
           d == [stream[s] EXCEPT !.at = label, !.read = n]
<1>2. stream[s].at = "stored" /\ stream' = [stream EXCEPT ![s] = d]
  BY <1>1, CallFacts
<1>3. /\ label \in {"snapshot", "relay"}
      /\ ~ failed /\ redisRound >= 1 /\ loaded => label = "snapshot"
      /\ ~ failed => n = redisRound
  OBVIOUS
<1>4. stream[s] \in StreamRecords /\ n \in 0..GameRounds
  BY GameAssumption DEF StreamsTyped
<1>5. label \in StreamAt
  BY <1>3 DEF StreamAt
<1> HIDE DEF label, n
<1>6. /\ d \in StreamRecords /\ d.at = label /\ d.read = n
      /\ d.player = stream[s].player /\ d.channel = stream[s].channel
      /\ d.relayed = stream[s].relayed
  BY <1>4, <1>5 DEF StreamRecords
<1> HIDE DEF d
<1>7. stream'[s] = d /\ Others(s)
  BY <1>2, <1>6, StreamType DEF Others
<1>8. UNCHANGED <<game, redisRound, loaded, live, gameStreams, casting,
                  abandoned, dropped, unset>>
  BY DEF ReadRound
<1>9. /\ (failed \/ unset) /\ PassedBy(s) => misread'[s] = game.round
      /\ misread'[s] \in {misread[s], game.round}
      /\ \A t \in Calls : t # s => misread'[t] = misread[t]
  <2>1. misread \in [Calls -> 0..GameRounds]
    BY DEF StreamsTyped
  <2> QED BY <1>1, <2>1
<1> QED BY <1>2, <1>3, <1>6, <1>7, <1>8, <1>9 DEF Keeps

LEMMA SnapshotFacts ==
    ASSUME StreamsTyped, NEW s \in Calls, SendSnapshot(s)
    PROVE  /\ stream[s].at = "snapshot" /\ stream'[s].at = "relay"
           /\ live # 0 => stream'[s].question = stream[s].read
           /\ Keeps(s) /\ Others(s)
           /\ UNCHANGED <<game, redisRound, loaded, live, gameStreams, casting,
                          abandoned, dropped, unset, misread>>
<1> DEFINE k == IF live # 0 THEN stream[s].read ELSE stream[s].question
           d == [stream[s] EXCEPT !.at = "relay", !.read = 0, !.question = k]
<1>1. stream[s].at = "snapshot" /\ stream' = [stream EXCEPT ![s] = d]
  BY CallFacts
<1>2. stream[s] \in StreamRecords
  BY DEF StreamsTyped
<1>3. k \in 0..GameRounds /\ 0 \in 0..GameRounds /\ "relay" \in StreamAt
  BY <1>2, GameAssumption DEF StreamRecords, StreamAt
<1>4. live # 0 => k = stream[s].read
  OBVIOUS
<1> HIDE DEF k
<1>5. /\ d \in StreamRecords /\ d.at = "relay" /\ d.question = k
      /\ d.player = stream[s].player /\ d.channel = stream[s].channel
      /\ d.relayed = stream[s].relayed
  BY <1>2, <1>3 DEF StreamRecords
<1> HIDE DEF d
<1>6. stream'[s] = d /\ Others(s)
  BY <1>1, <1>5, StreamType DEF Others
<1>7. UNCHANGED <<game, redisRound, loaded, live, gameStreams, casting,
                  abandoned, dropped, unset, misread>>
  BY DEF SendSnapshot, missVars
<1> QED BY <1>1, <1>4, <1>5, <1>6, <1>7 DEF Keeps

LEMMA RelayFacts ==
    ASSUME StreamsTyped, NEW s \in Calls, Relay(s)
    PROVE  /\ stream[s].at = "relay" /\ stream[s].channel # <<>>
           /\ stream[s].channel \in Seq(Events)
           /\ stream'[s].at = "relay" /\ stream'[s].player = stream[s].player
           /\ stream'[s].channel = Tail(stream[s].channel)
           /\ stream'[s].relayed = Head(stream[s].channel)
           /\ ~ Asks(Head(stream[s].channel)) =>
                stream'[s].question = stream[s].question
           /\ \A r \in 1..GameRounds :
                Head(stream[s].channel) = Question(r) => stream'[s].question = r
           /\ Others(s)
           /\ UNCHANGED <<game, redisRound, loaded, live, gameStreams, casting,
                          abandoned, dropped, unset, misread>>
<1>1. /\ stream[s].at = "relay" /\ stream[s].channel # <<>>
      /\ stream' = [stream EXCEPT ![s] = Relayed(stream[s])]
  BY CallFacts
<1>2. stream[s] \in StreamRecords /\ stream[s].channel \in Seq(Events)
  BY DEF StreamsTyped, StreamRecords
<1>3. Relayed(stream[s]) \in StreamRecords
  BY <1>1, <1>2, RelayedType
<1>4. stream'[s] = Relayed(stream[s]) /\ Others(s)
  BY <1>1, <1>3, StreamType DEF Others
<1>5. UNCHANGED <<game, redisRound, loaded, live, gameStreams, casting,
                  abandoned, dropped, unset, misread>>
  BY DEF Relay, missVars
<1> QED BY <1>1, <1>2, <1>4, <1>5, RelayedType

LEMMA EndFacts ==
    ASSUME StreamsTyped, NEW s \in Calls, EndStream(s)
    PROVE  /\ stream[s].at = "relay" /\ stream'[s].at = "count"
           /\ Keeps(s) /\ Others(s)
           /\ stream[s].player \in GamePlayers =>
                gameStreams'[stream[s].player] = Nobody
           /\ \A q \in GamePlayers :
                q # stream[s].player => gameStreams'[q] = gameStreams[q]
           /\ UNCHANGED <<game, redisRound, loaded, live, casting, abandoned, dropped,
                          unset, misread>>
<1> DEFINE d == [stream[s] EXCEPT !.at = "count"]
<1>1. stream[s].at = "relay" /\ stream' = [stream EXCEPT ![s] = d]
  BY CallFacts
<1>2. stream[s] \in StreamRecords /\ "count" \in StreamAt
  BY DEF StreamsTyped, StreamAt
<1>3. /\ d \in StreamRecords /\ d.at = "count"
      /\ d.player = stream[s].player /\ d.channel = stream[s].channel
      /\ d.relayed = stream[s].relayed
  BY <1>2 DEF StreamRecords
<1> HIDE DEF d
<1>4. stream'[s] = d /\ Others(s)
  BY <1>1, <1>3, StreamType DEF Others
<1>5. gameStreams \in [GamePlayers -> Calls \cup {Nobody}]
      /\ gameStreams' = [gameStreams EXCEPT ![stream[s].player] = Nobody]
  BY DEF EndStream, StreamsTyped
<1>6. UNCHANGED <<game, redisRound, loaded, live, casting, abandoned, dropped,
                  unset, misread>>
  BY DEF EndStream, missVars
<1> QED BY <1>1, <1>3, <1>4, <1>5, <1>6 DEF Keeps

LEMMA CountFacts ==
    ASSUME StreamsTyped, NEW s \in Calls, CountRemaining(s) \/ MatchAbandoned(s)
    PROVE  /\ stream[s].at \in {"count", "ending"}
           /\ stream'[s].at \in {"ending", "gone"}
           /\ \/ Keeps(s)
              \/ /\ stream'[s].channel = <<>> /\ stream'[s].relayed = 0
                 /\ stream'[s].player = Nobody
           /\ Others(s)
           /\ \/ game' = game
              \/ /\ game.at = "asked" /\ game'.at = "over"
                 /\ game'.round = game.round
           /\ loaded' = loaded \/ loaded' = FALSE
           /\ \/ Cast(s, MatchEnd) /\ abandoned' = TRUE
              \/ EndCast(s) /\ abandoned' = abandoned
              \/ UNCHANGED casting /\ abandoned' = abandoned
           /\ UNCHANGED <<redisRound, live, gameStreams, dropped, unset, misread>>
<1> DEFINE d == [stream[s] EXCEPT !.at = "ending"]
           g == [NewStream EXCEPT !.at = "gone"]
<1>1. /\ stream[s].at \in {"count", "ending"}
      /\ stream' = [stream EXCEPT ![s] = d] \/ stream' = [stream EXCEPT ![s] = g]
  BY CallFacts
<1>2. stream[s] \in StreamRecords /\ "ending" \in StreamAt
  BY DEF StreamsTyped, StreamAt
<1>3. /\ d \in StreamRecords /\ d.at = "ending"
      /\ d.player = stream[s].player /\ d.channel = stream[s].channel
      /\ d.relayed = stream[s].relayed
  BY <1>2 DEF StreamRecords
<1>4. /\ g \in StreamRecords /\ g.at = "gone" /\ g.channel = <<>>
      /\ g.relayed = 0 /\ g.player = Nobody
  BY NewType
<1> HIDE DEF d, g
<1>5. Others(s) /\ (stream'[s] = d \/ stream'[s] = g)
  BY <1>1, <1>3, <1>4, StreamType DEF Others
<1>6. \/ game' = game
      \/ game.at = "asked" /\ game' = [game EXCEPT !.at = "over"]
  BY DEF CountRemaining, MatchAbandoned, At
<1>7. \/ game' = game
      \/ game.at = "asked" /\ game'.at = "over" /\ game'.round = game.round
  <2>1. "over" \in GameAt
    BY DEF GameAt
  <2> QED BY <1>6, <2>1, GoToType
<1>8. /\ loaded' = loaded \/ loaded' = FALSE
      /\ \/ Cast(s, MatchEnd) /\ abandoned' = TRUE
         \/ EndCast(s) /\ abandoned' = abandoned
         \/ UNCHANGED casting /\ abandoned' = abandoned
      /\ UNCHANGED <<redisRound, live, gameStreams, dropped, unset, misread>>
  BY DEF CountRemaining, MatchAbandoned, missVars
<1> QED BY <1>1, <1>3, <1>4, <1>5, <1>7, <1>8 DEF Keeps

-----------------------------------------------------------------------------
(* A broadcast sends its event to the player that it visits, if anybody.   *)

Sent(c, b, p) ==
    /\ gameStreams[p] \in Calls
    /\ LET s == gameStreams[p] IN
         /\ stream'[s].at = stream[s].at /\ stream'[s].player = stream[s].player
         /\ stream'[s].read = stream[s].read
         /\ stream'[s].question = stream[s].question
         /\ stream'[s].relayed = stream[s].relayed
         /\ stream'[s].channel = Append(stream[s].channel, b.event)
         /\ Others(s)
    /\ dropped' = dropped

LEMMA VisitChanges ==
    ASSUME StreamsTyped, NEW c \in Casters, Visit(c)
    PROVE  \E b \in casting[c], p \in GamePlayers :
             /\ b \in Casts /\ b.event \in Events /\ p \in b.todo
             /\ casting[c] = {b}
             /\ \E d \in casting'[c] : /\ casting'[c] = {d}
                                       /\ d.event = b.event
                                       /\ d.todo = b.todo \ {p}
             /\ \A d \in Casters : d # c => casting'[d] = casting[d]
             /\ \/ gameStreams[p] = Nobody /\ stream' = stream /\ dropped' = dropped
                \/ Sent(c, b, p)
                \/ /\ gameStreams[p] \in Calls /\ stream' = stream
                   /\ dropped' = dropped \cup {gameStreams[p]}
             /\ UNCHANGED <<game, redisRound, loaded, live, gameStreams, abandoned,
                            unset, misread>>
<1>1. PICK b \in casting[c], p \in GamePlayers :
             /\ b \in Casts /\ b.event \in Events /\ p \in b.todo
             /\ casting[c] = {b}
             /\ casting' = [casting EXCEPT ![c] = {[b EXCEPT !.todo = @ \ {p}]}]
             /\ [b EXCEPT !.todo = @ \ {p}].event = b.event
             /\ [b EXCEPT !.todo = @ \ {p}].todo = b.todo \ {p}
             /\ \/ /\ gameStreams[p] = Nobody
                   /\ stream' = stream /\ dropped' = dropped
                \/ /\ gameStreams[p] \in Calls
                   /\ stream' = [stream EXCEPT ![gameStreams[p]] =
                        [stream[gameStreams[p]] EXCEPT
                           !.channel = Append(@, b.event)]]
                   /\ dropped' = dropped
                \/ /\ gameStreams[p] \in Calls
                   /\ stream' = stream
                   /\ dropped' = dropped \cup {gameStreams[p]}
             /\ UNCHANGED <<game, redisRound, loaded, live, gameStreams, halted,
                            abandoned, unset, misread>>
  BY VisitFacts
<1> DEFINE e == [b EXCEPT !.todo = @ \ {p}]
<1>2. casting' = [casting EXCEPT ![c] = {e}] /\ e.event = b.event
      /\ e.todo = b.todo \ {p}
  BY <1>1
<1>3. casting \in [Casters -> SUBSET Casts]
  BY DEF StreamsTyped
<1> HIDE DEF e
<1>4. casting'[c] = {e} /\ \A d \in Casters : d # c => casting'[d] = casting[d]
  BY <1>2, <1>3
<1>5. ASSUME gameStreams[p] \in Calls, dropped' = dropped,
             stream' = [stream EXCEPT ![gameStreams[p]] =
                [stream[gameStreams[p]] EXCEPT !.channel = Append(@, b.event)]]
      PROVE  Sent(c, b, p)
  <2> DEFINE s == gameStreams[p]
             d == [stream[s] EXCEPT !.channel = Append(@, b.event)]
  <2>1. stream[s] \in StreamRecords
    BY <1>5 DEF StreamsTyped
  <2>2. stream' = [stream EXCEPT ![s] = d] /\ s \in Calls
    BY <1>5
  <2>3. /\ d \in StreamRecords
        /\ d.at = stream[s].at /\ d.player = stream[s].player
        /\ d.read = stream[s].read /\ d.question = stream[s].question
        /\ d.relayed = stream[s].relayed
        /\ d.channel = Append(stream[s].channel, b.event)
    BY <1>1, <2>1, SentType
  <2> HIDE DEF d
  <2>4. stream'[s] = d /\ \A t \in Calls : t # s => stream'[t] = stream[t]
    BY <2>2, <2>3, StreamType
  <2> QED BY <1>5, <2>3, <2>4 DEF Sent, Others
<1> QED BY <1>1, <1>2, <1>4, <1>5

-----------------------------------------------------------------------------
(* The steps of a behaviour.                                               *)

LEMMA StreamSteps ==
    ASSUME [GameNext]_gameVars
    PROVE  \/ \E c \in Casters : Visit(c)
           \/ MatchStep
           \/ \E s \in Calls : \E p \in GamePlayers : OpenStream(s, p)
           \/ \E s \in Calls : ReadRound(s)
           \/ \E s \in Calls : SendSnapshot(s)
           \/ \E s \in Calls : Relay(s)
           \/ \E s \in Calls : EndStream(s)
           \/ \E s \in Calls : CountRemaining(s) \/ MatchAbandoned(s)
           \/ UNCHANGED gameVars
  BY DEF GameNext, MatchStep

(* A stored channel is a running call's of its player.                     *)
LEMMA StoredStep ==
    ASSUME StreamsTyped, StreamsTyped', StoredStreams, [GameNext]_gameVars
    PROVE  StoredStreams'
<1>0. /\ gameStreams \in [GamePlayers -> Calls \cup {Nobody}]
      /\ gameStreams' \in [GamePlayers -> Calls \cup {Nobody}]
      /\ Nobody \notin Calls /\ Nobody \notin GamePlayers
      /\ \A p \in GamePlayers : gameStreams[p] # Nobody => gameStreams[p] \in Calls
  BY GameAssumption DEF StreamsTyped
<1>1. ASSUME NEW c \in Casters, Visit(c) PROVE StoredStreams'
  <2>1. PICK b \in casting[c], p \in GamePlayers :
             /\ stream' = stream \/ Sent(c, b, p)
             /\ gameStreams' = gameStreams
    BY <1>1, VisitChanges
  <2>2. CASE stream' = stream
    BY <2>1, <2>2 DEF StoredStreams
  <2>3. CASE Sent(c, b, p)
    <3>1. \A t \in Calls : /\ stream'[t].at = stream[t].at
                           /\ stream'[t].player = stream[t].player
      BY <2>3 DEF Sent, Others
    <3>2. stream[gameStreams[p]].at # "new"
      BY <1>0, <2>3 DEF Sent, StoredStreams
    <3>3. \A t \in Calls : stream[t].at = "new" => stream'[t] = stream[t]
      BY <2>3, <3>2 DEF Sent, Others
    <3> QED BY <1>0, <2>1, <3>1, <3>3 DEF StoredStreams
  <2> QED BY <2>1, <2>2, <2>3
<1>2. CASE MatchStep
  BY <1>2, MatchFacts DEF StoredStreams
<1>3. ASSUME NEW s \in Calls, NEW p \in GamePlayers, OpenStream(s, p)
      PROVE  StoredStreams'
  <2>1. \A q \in GamePlayers : gameStreams[q] # s
    BY <1>0, <1>3, OpenFacts DEF StoredStreams
  <2>2. \A t \in Calls : stream'[t].at = "new" => stream'[t] = NewStream
    BY <1>3, OpenFacts DEF StoredStreams, Others
  <2>3. ASSUME NEW q \in GamePlayers, gameStreams'[q] # Nobody
        PROVE  /\ stream'[gameStreams'[q]].player = q
               /\ stream'[gameStreams'[q]].at \in {"stored", "snapshot", "relay"}
    <3>1. CASE q = p
      BY <1>3, <3>1, OpenFacts
    <3>2. CASE q # p
      BY <1>0, <1>3, <2>1, <2>3, <3>2, OpenFacts DEF StoredStreams, Others
    <3> QED BY <3>1, <3>2
  <2> QED BY <2>2, <2>3 DEF StoredStreams
<1>4. ASSUME NEW s \in Calls, Others(s), gameStreams' = gameStreams,
             stream'[s].player = stream[s].player,
             stream'[s].at \in {"snapshot", "relay"}
      PROVE  StoredStreams'
  BY <1>0, <1>4 DEF StoredStreams, Others
<1>5. ASSUME NEW s \in Calls, EndStream(s) PROVE StoredStreams'
  <2>1. \A t \in Calls : stream'[t].at = "new" => stream'[t] = NewStream
    BY <1>5, EndFacts DEF StoredStreams, Others
  <2>2. ASSUME NEW q \in GamePlayers, gameStreams'[q] # Nobody
        PROVE  /\ stream'[gameStreams'[q]].player = q
               /\ stream'[gameStreams'[q]].at \in {"stored", "snapshot", "relay"}
    BY <1>0, <1>5, <2>2, EndFacts DEF StoredStreams, Others
  <2> QED BY <2>1, <2>2 DEF StoredStreams
<1>6. ASSUME NEW s \in Calls, CountRemaining(s) \/ MatchAbandoned(s)
      PROVE  StoredStreams'
  <2>1. /\ stream[s].at \in {"count", "ending"}
        /\ stream'[s].at \in {"ending", "gone"}
        /\ \A t \in Calls : t # s => stream'[t] = stream[t]
        /\ gameStreams' = gameStreams
    BY <1>6, CountFacts DEF Others
  <2>2. \A q \in GamePlayers : gameStreams[q] # Nobody =>
          stream[gameStreams[q]].at \in {"stored", "snapshot", "relay"}
    BY DEF StoredStreams
  <2>3. \A q \in GamePlayers : gameStreams[q] # s
    BY <1>0, <2>1, <2>2
  <2>4. \A t \in Calls : stream'[t].at = "new" => stream'[t] = NewStream
    BY <2>1 DEF StoredStreams
  <2>5. \A q \in GamePlayers : gameStreams[q] # Nobody =>
          stream'[gameStreams[q]] = stream[gameStreams[q]]
    BY <1>0, <2>1, <2>3
  <2> QED BY <2>1, <2>4, <2>5 DEF StoredStreams
<1>7. CASE UNCHANGED gameVars
  BY <1>7 DEF gameVars, StoredStreams
<1> QED
  <2>1. ASSUME NEW s \in Calls, ReadRound(s) \/ SendSnapshot(s) \/ Relay(s)
        PROVE  StoredStreams'
    <3>1. CASE ReadRound(s)
      BY <1>4, <3>1, ReadFacts DEF Keeps
    <3>2. CASE SendSnapshot(s)
      BY <1>4, <3>2, SnapshotFacts DEF Keeps
    <3>3. CASE Relay(s)
      BY <1>4, <3>3, RelayFacts
    <3> QED BY <2>1, <3>1, <3>2, <3>3
  <2> QED BY <1>1, <1>2, <1>3, <1>5, <1>6, <1>7, <2>1, StreamSteps

LEMMA OwnedStep ==
    ASSUME StreamsTyped, StoredStreams, OwnedStreams, [GameNext]_gameVars
    PROVE  OwnedStreams'
<1>1. ASSUME NEW s \in Calls, Others(s),
             \/ stream'[s].player = stream[s].player /\
                stream[s].at \in {"stored", "snapshot", "relay"}
             \/ stream'[s].player \in GamePlayers
             \/ stream'[s].at \in {"ending", "gone"}
      PROVE  OwnedStreams'
  BY <1>1 DEF OwnedStreams, Others
<1>2. ASSUME NEW c \in Casters, Visit(c) PROVE OwnedStreams'
  <2>1. PICK b \in casting[c], p \in GamePlayers : stream' = stream \/ Sent(c, b, p)
    BY <1>2, VisitChanges
  <2>2. \A t \in Calls : /\ stream'[t].at = stream[t].at
                         /\ stream'[t].player = stream[t].player
    BY <2>1 DEF Sent, Others
  <2> QED BY <2>2 DEF OwnedStreams
<1>3. CASE MatchStep
  BY <1>3, MatchFacts DEF OwnedStreams
<1>4. ASSUME NEW s \in Calls, NEW p \in GamePlayers, OpenStream(s, p)
      PROVE  OwnedStreams'
  BY <1>1, <1>4, OpenFacts
<1>5. ASSUME NEW s \in Calls, ReadRound(s) PROVE OwnedStreams'
  BY <1>1, <1>5, ReadFacts DEF Keeps
<1>6. ASSUME NEW s \in Calls, SendSnapshot(s) PROVE OwnedStreams'
  BY <1>1, <1>6, SnapshotFacts DEF Keeps
<1>7. ASSUME NEW s \in Calls, Relay(s) PROVE OwnedStreams'
  BY <1>1, <1>7, RelayFacts
<1>8. ASSUME NEW s \in Calls, EndStream(s) PROVE OwnedStreams'
  BY <1>1, <1>8, EndFacts DEF Keeps
<1>9. ASSUME NEW s \in Calls, CountRemaining(s) \/ MatchAbandoned(s)
      PROVE  OwnedStreams'
  BY <1>1, <1>9, CountFacts
<1>10. CASE UNCHANGED gameVars
  BY <1>10 DEF gameVars, OwnedStreams
<1> QED BY <1>2, <1>3, <1>4, <1>5, <1>6, <1>7, <1>8, <1>9, <1>10, StreamSteps

(* What is broadcast is what the match has come to.                        *)
LEMMA CastsStep ==
    ASSUME StreamsTyped, StreamsTyped', StoredStreams, CastsAgree,
           [GameNext]_gameVars
    PROVE  CastsAgree'
<1>0. /\ casting \in [Casters -> SUBSET Casts] /\ "main" \in Casters
      /\ Calls \subseteq Casters /\ "main" \notin Calls
  BY GameAssumption DEF StreamsTyped, Casters
<1>1. ASSUME NEW c \in Casters, Visit(c) PROVE CastsAgree'
  <2>1. PICK b \in casting[c] :
             /\ \E d \in casting'[c] : casting'[c] = {d} /\ d.event = b.event
             /\ \A d \in Casters : d # c => casting'[d] = casting[d]
             /\ UNCHANGED <<game, redisRound, live, abandoned, unset>>
    BY <1>1, VisitChanges
  <2>2. \A d \in Casters : \A x \in casting'[d] : \E y \in casting[d] : x.event = y.event
    BY <2>1
  <2>3. casting["main"] = {} => casting'["main"] = {}
    BY <1>0, <2>1
  <2> QED BY <1>0, <2>1, <2>2, <2>3 DEF CastsAgree
<1>2. CASE MatchStep
  <2>1. /\ \A d \in Calls : casting'[d] = casting[d]
        /\ abandoned' = abandoned
    BY <1>0, <1>2, MatchFacts DEF Cast, EndCast
  <2>2. \A b \in casting'["main"] :
             \/ game'.at = "asking" /\ b.event = Question(game'.round)
             \/ game'.at = "telling" /\ b.event = Result(game'.round)
             \/ game'.at = "ending" /\ b.event = MatchEnd
    <3>1. \A e : Cast("main", e) => \A b \in casting'["main"] : b.event = e
      BY <1>0 DEF Cast
    <3>2. EndCast("main") => casting'["main"] = {}
      BY <1>0 DEF EndCast
    <3>3. game.at \in {"start", "setRound", "asked"} => casting["main"] = {}
      BY DEF CastsAgree
    <3> QED BY <1>2, <3>1, <3>2, <3>3, MatchFacts
  <2>3. game'.at \in {"asking", "asked"} => redisRound' = game'.round \/ unset'
    BY <1>2, MatchFacts DEF CastsAgree
  <2>4. game'.at \in {"setRound", "asking", "asked"} => live' \in {0, game'.round}
    BY <1>2, MatchFacts DEF CastsAgree
  <2>5. game'.at = "asked" => casting'["main"] = {}
    BY <1>0, <1>2, MatchFacts DEF CastsAgree, EndCast
  <2> QED BY <2>1, <2>2, <2>3, <2>4, <2>5 DEF CastsAgree
<1>3. ASSUME UNCHANGED <<game, redisRound, live, casting, abandoned, unset>>
      PROVE  CastsAgree'
  BY <1>3 DEF CastsAgree
<1>4. ASSUME NEW s \in Calls, CountRemaining(s) \/ MatchAbandoned(s)
      PROVE  CastsAgree'
  <2>1. /\ \/ game' = game
           \/ game.at = "asked" /\ game'.at = "over" /\ game'.round = game.round
        /\ \/ Cast(s, MatchEnd) /\ abandoned' = TRUE
           \/ EndCast(s) /\ abandoned' = abandoned
           \/ UNCHANGED casting /\ abandoned' = abandoned
        /\ UNCHANGED <<redisRound, live, unset>>
    BY <1>4, CountFacts
  <2>2. casting'["main"] = casting["main"]
    BY <1>0, <2>1 DEF Cast, EndCast
  <2>3. \A d \in Calls : \A b \in casting'[d] : b.event = MatchEnd /\ abandoned'
    <3>1. CASE Cast(s, MatchEnd) /\ abandoned' = TRUE
      BY <1>0, <3>1 DEF Cast, CastsAgree
    <3>2. CASE EndCast(s) /\ abandoned' = abandoned
      BY <1>0, <3>2 DEF EndCast, CastsAgree
    <3>3. CASE casting' = casting /\ abandoned' = abandoned
      BY <3>3 DEF CastsAgree
    <3> QED BY <2>1, <3>1, <3>2, <3>3
  <2>4. CASE game' = game
    <3>1. game'.at = game.at /\ game'.round = game.round
      BY <2>4
    <3>2. redisRound' = redisRound /\ live' = live /\ unset' = unset
      BY <2>1
    <3> QED BY <2>2, <2>3, <3>1, <3>2 DEF CastsAgree
  <2>5. CASE game.at = "asked" /\ game'.at = "over"
    BY <2>2, <2>3, <2>5 DEF CastsAgree
  <2> QED BY <2>1, <2>4, <2>5
<1>5. CASE UNCHANGED gameVars
  BY <1>3, <1>5 DEF gameVars
<1> QED
  BY <1>1, <1>2, <1>3, <1>4, <1>5, StreamSteps, OpenFacts, ReadFacts,
     SnapshotFacts, RelayFacts, EndFacts

-----------------------------------------------------------------------------
(* The events of the match come in order.                                  *)

LEMMA LastOfIs ==
    ASSUME NEW at \in GameAt, NEW r \in 1..GameRounds + 1
    PROVE  /\ at \in {"start", "setRound"} => LastOf(at, r) = 2 * r - 2
           /\ at \in {"asking", "asked"} => LastOf(at, r) = 2 * r - 1
           /\ at = "telling" => LastOf(at, r) = 2 * r
           /\ at \in {"ending", "over"} => LastOf(at, r) = 2 * GameRounds + 1
<1>1. r \in Int /\ 2 * (r - 1) = 2 * r - 2
  BY GameAssumption
<1>2. CASE at \in {"start", "setRound"}
  BY <1>1, <1>2 DEF LastOf, Result
<1>3. CASE at \in {"asking", "asked"}
  BY <1>3 DEF LastOf, Question
<1>4. CASE at = "telling"
  BY <1>4 DEF LastOf, Result
<1>5. CASE at \in {"ending", "over"}
  BY <1>5 DEF LastOf, MatchEnd
<1> QED BY <1>2, <1>3, <1>4, <1>5 DEF GameAt

(* What a step of the match begins to broadcast is past all before.        *)
LEMMA MatchGrows ==
    ASSUME StreamsTyped, StreamsTyped', MatchStep
    PROVE  /\ LastEvent \in Nat /\ LastEvent' \in Nat /\ LastEvent <= LastEvent'
           /\ \/ UNCHANGED casting \/ EndCast("main")
              \/ \E e \in Events : Cast("main", e) /\ LastEvent <= e - 1
<1> DEFINE a == game.at  r == game.round  aa == game'.at  rr == game'.round
           G == GameRounds
           L == LastEvent  M == LastEvent'
<1>1. a \in GameAt /\ aa \in GameAt /\ r \in 1..G + 1 /\ rr \in 1..G + 1
  BY DEF StreamsTyped
<1>2. G \in Nat /\ G >= 1 /\ r \in Nat /\ rr \in Nat /\ r <= G + 1 /\ rr <= G + 1
      /\ r >= 1 /\ rr >= 1
  BY <1>1, GameAssumption
<1>3. L = LastOf(a, r) /\ M = LastOf(aa, rr)
  BY DEF LastEvent
<1>4. /\ a \in {"start", "setRound"} => L = 2 * r - 2
      /\ a \in {"asking", "asked"} => L = 2 * r - 1
      /\ a = "telling" => L = 2 * r
      /\ a \in {"ending", "over"} => L = 2 * G + 1
  BY <1>1, <1>3, LastOfIs
<1>5. /\ aa \in {"start", "setRound"} => M = 2 * rr - 2
      /\ aa \in {"asking", "asked"} => M = 2 * rr - 1
      /\ aa = "telling" => M = 2 * rr
      /\ aa \in {"ending", "over"} => M = 2 * G + 1
  BY <1>1, <1>3, LastOfIs
<1>6. a \in {"setRound", "asking", "asked", "telling"} => r <= G
  BY <1>2 DEF StreamsTyped
<1>7. Question(r) = 2 * r - 1 /\ Result(r) = 2 * r /\ MatchEnd = 2 * G + 1
  BY DEF Question, Result, MatchEnd
<1>8. /\ a \in {"setRound", "asked"} => Question(r) \in Events /\ Result(r) \in Events
      /\ MatchEnd \in Events
  BY RoundEvents, EventNumbers
<1>9. \/ /\ a = "start" /\ aa = "over" /\ rr = r /\ UNCHANGED casting
      \/ /\ a = "start" /\ aa = "ending" /\ rr = r /\ Cast("main", MatchEnd)
      \/ /\ a = "start" /\ aa = "setRound" /\ rr = r /\ UNCHANGED casting
      \/ /\ a = "setRound" /\ aa = "asking" /\ rr = r /\ Cast("main", Question(r))
      \/ /\ a = "asking" /\ aa = "asked" /\ rr = r /\ EndCast("main")
      \/ /\ a = "asked" /\ aa = a /\ rr = r /\ UNCHANGED casting
      \/ /\ a = "asked" /\ aa = "telling" /\ rr = r /\ Cast("main", Result(r))
      \/ /\ a = "asked" /\ aa = "over" /\ rr = r /\ UNCHANGED casting
      \/ /\ a = "telling" /\ aa = "start" /\ rr = r + 1 /\ EndCast("main")
      \/ /\ a = "ending" /\ aa = "over" /\ rr = r /\ EndCast("main")
  BY MatchFacts
<1> HIDE DEF a, r, aa, rr, G, L, M
<1>10. /\ L \in Nat /\ M \in Nat /\ L <= M
       /\ \/ UNCHANGED casting \/ EndCast("main")
          \/ \E e \in Events : Cast("main", e) /\ L <= e - 1
  <2>1. CASE a = "start" /\ aa = "over" /\ rr = r /\ UNCHANGED casting
    BY <1>2, <1>4, <1>5, <2>1
  <2>2. CASE a = "start" /\ aa = "ending" /\ rr = r /\ Cast("main", MatchEnd)
    BY <1>2, <1>4, <1>5, <1>7, <1>8, <2>2
  <2>3. CASE a = "start" /\ aa = "setRound" /\ rr = r /\ UNCHANGED casting
    BY <1>2, <1>4, <1>5, <2>3
  <2>4. CASE a = "setRound" /\ aa = "asking" /\ rr = r /\ Cast("main", Question(r))
    BY <1>2, <1>4, <1>5, <1>7, <1>8, <2>4
  <2>5. CASE a = "asking" /\ aa = "asked" /\ rr = r /\ EndCast("main")
    BY <1>2, <1>4, <1>5, <2>5
  <2>6. CASE a = "asked" /\ aa = a /\ rr = r /\ UNCHANGED casting
    BY <1>2, <1>4, <1>5, <2>6
  <2>7. CASE a = "asked" /\ aa = "telling" /\ rr = r /\ Cast("main", Result(r))
    BY <1>2, <1>4, <1>5, <1>7, <1>8, <2>7
  <2>8. CASE a = "asked" /\ aa = "over" /\ rr = r /\ UNCHANGED casting
    BY <1>2, <1>4, <1>5, <1>6, <2>8
  <2>9. CASE a = "telling" /\ aa = "start" /\ rr = r + 1 /\ EndCast("main")
    BY <1>2, <1>4, <1>5, <2>9
  <2>10. CASE a = "ending" /\ aa = "over" /\ rr = r /\ EndCast("main")
    BY <1>2, <1>4, <1>5, <2>10
  <2> QED BY <1>9, <2>1, <2>2, <2>3, <2>4, <2>5, <2>6, <2>7, <2>8, <2>9, <2>10
<1> QED BY <1>10 DEF L, M

LEMMA Numbers ==
    ASSUME NEW c \in StreamRecords
    PROVE  /\ c.channel \in Seq(Events) /\ c.relayed \in Nat
           /\ \A i \in DOMAIN c.channel : c.channel[i] \in Nat
           /\ Events \subseteq Nat
  BY GameAssumption DEF StreamRecords, Events, MatchEnd

LEMMA UpToMore ==
    ASSUME NEW c \in StreamRecords, NEW e \in Int, NEW f \in Int, e <= f, UpTo(c, e)
    PROVE  UpTo(c, f)
<1>1. /\ c.relayed \in Nat /\ c.relayed <= e
      /\ \A i \in DOMAIN c.channel : c.channel[i] \in Nat /\ c.channel[i] <= e
  BY Numbers DEF UpTo
<1>2. \A n \in Nat : n <= e => n <= f
  OBVIOUS
<1> QED BY <1>1, <1>2 DEF UpTo

(* A call that is sent an event past all that it has been sent.            *)
LEMMA SentInOrder ==
    ASSUME NEW c \in StreamRecords, NEW d \in StreamRecords, NEW e \in Events,
           d.channel = Append(c.channel, e), d.relayed = c.relayed,
           Increasing(c), UpTo(c, e - 1)
    PROVE  Increasing(d) /\ UpTo(d, e)
<1> DEFINE q == c.channel  qq == d.channel  n == c.relayed  k == Len(q)
<1>1. q \in Seq(Events) /\ n \in Nat /\ Events \subseteq Nat /\ e \in Nat
  BY Numbers
<1>2. /\ DOMAIN q = 1..k /\ k \in Nat /\ DOMAIN qq = 1..k + 1
      /\ \A i \in 1..k : qq[i] = q[i]
      /\ qq[k + 1] = e
  BY <1>1, SentChannel
<1>3. /\ \A i \in 1..k : q[i] \in Nat /\ n < q[i] /\ q[i] <= e - 1
      /\ \A i, j \in 1..k : i < j => q[i] < q[j]
      /\ n <= e - 1
  BY <1>2, Numbers DEF Increasing, UpTo
<1>4. d.relayed = n
  OBVIOUS
<1> HIDE DEF q, qq, n, k
<1>5. \A i \in 1..k + 1 : i \in 1..k \/ i = k + 1
  BY <1>2
<1>6. \A i \in 1..k + 1 : n < qq[i] /\ qq[i] <= e
  <2>1. \A m \in Nat : m <= e - 1 => m < e /\ m <= e
    BY <1>1
  <2>2. \A i \in 1..k : n < qq[i] /\ qq[i] <= e
    BY <1>2, <1>3, <2>1
  <2>3. n < qq[k + 1] /\ qq[k + 1] <= e
    BY <1>1, <1>2, <1>3, <2>1
  <2> QED BY <1>5, <2>2, <2>3
<1>7. \A i, j \in 1..k + 1 : i < j => qq[i] < qq[j]
  <2> TAKE i, j \in 1..k + 1
  <2> HAVE i < j
  <2>1. i \in 1..k
    BY <1>2
  <2>2. CASE j \in 1..k
    BY <1>2, <1>3, <2>1, <2>2
  <2>3. CASE j = k + 1
    BY <1>1, <1>2, <1>3, <2>1, <2>3
  <2> QED BY <1>5, <2>2, <2>3
<1>8. n <= e
  BY <1>1, <1>3
<1> QED BY <1>2, <1>4, <1>6, <1>7, <1>8 DEF Increasing, UpTo, qq, k

(* A call that relays the first event of its channel.                      *)
LEMMA RelayInOrder ==
    ASSUME NEW c \in StreamRecords, NEW d \in StreamRecords, c.channel # <<>>,
           d.channel = Tail(c.channel), d.relayed = Head(c.channel),
           Increasing(c)
    PROVE  /\ Increasing(d)
           /\ \A e \in Int : UpTo(c, e) => UpTo(d, e)
<1> DEFINE q == c.channel  qq == d.channel  k == Len(q)
<1>1. q \in Seq(Events)
  BY Numbers
<1>2. /\ DOMAIN q = 1..k /\ k \in Nat /\ k >= 1 /\ DOMAIN qq = 1..k - 1
      /\ \A i \in 1..k - 1 : qq[i] = q[i + 1]
      /\ d.relayed = q[1]
  BY <1>1, RelayedChannel
<1>3. \A i, j \in 1..k : i < j => q[i] < q[j]
  BY <1>2 DEF Increasing
<1>4. \A e : UpTo(c, e) => \A i \in 1..k : q[i] <= e
  BY <1>2 DEF UpTo
<1> HIDE DEF q, qq, k
<1>5. \A i \in 1..k - 1 : i + 1 \in 1..k /\ 1 < i + 1
  BY <1>2
<1>6. 1 \in 1..k
  BY <1>2
<1>7. \A i \in 1..k - 1 : q[1] < qq[i]
  BY <1>2, <1>3, <1>5, <1>6
<1>8. \A i, j \in 1..k - 1 : i < j => qq[i] < qq[j]
  <2> TAKE i, j \in 1..k - 1
  <2> HAVE i < j
  <2>1. i + 1 \in 1..k /\ j + 1 \in 1..k /\ i + 1 < j + 1
    BY <1>2
  <2> QED BY <1>2, <1>3, <2>1
<1>9. Increasing(d)
  BY <1>2, <1>7, <1>8 DEF Increasing, qq
<1>10. ASSUME NEW e \in Int, UpTo(c, e) PROVE UpTo(d, e)
  BY <1>2, <1>4, <1>5, <1>6, <1>10 DEF UpTo, qq
<1> QED BY <1>9, <1>10

(* A call that has been sent nothing.                                      *)
LEMMA EmptyInOrder ==
    ASSUME NEW d, d.channel = <<>>, d.relayed = 0
    PROVE  Increasing(d) /\ \A e \in Nat : UpTo(d, e)
<1>1. DOMAIN d.channel = {}
  OBVIOUS
<1>2. \A e \in Nat : d.relayed <= e
  OBVIOUS
<1> QED BY <1>1, <1>2 DEF Increasing, UpTo

(* What is broadcast is the last event that the match has come to.         *)
LEMMA CastIsLast ==
    ASSUME StreamsTyped, CastsAgree, NEW b \in casting["main"]
    PROVE  b.event \in Events /\ b.event = LastEvent
<1>1. b.event \in Events
  BY DEF StreamsTyped, Casters, Casts
<1>2. game.at \in GameAt /\ game.round \in 1..GameRounds + 1
  BY DEF StreamsTyped
<1>3. CASE game.at = "asking" /\ b.event = Question(game.round)
  BY <1>1, <1>2, <1>3, LastOfIs DEF LastEvent, Question
<1>4. CASE game.at = "telling" /\ b.event = Result(game.round)
  BY <1>1, <1>2, <1>4, LastOfIs DEF LastEvent, Result
<1>5. CASE game.at = "ending" /\ b.event = MatchEnd
  BY <1>1, <1>2, <1>5, LastOfIs DEF LastEvent, MatchEnd
<1> QED BY <1>1, <1>3, <1>4, <1>5 DEF CastsAgree

(* One call's part of OrderInv.                                            *)
InOrder(s) ==
    /\ Increasing(stream[s])
    /\ UpTo(stream[s], LastEvent)
    /\ \A b \in casting["main"] :
         stream[s].player \in b.todo => UpTo(stream[s], b.event - 1)

LEMMA OrderStep ==
    ASSUME StreamsTyped, StreamsTyped', StoredStreams, CastsAgree, OrderInv,
           [GameNext]_gameVars
    PROVE  OrderInv'
<1>0. /\ casting \in [Casters -> SUBSET Casts] /\ "main" \in Casters
      /\ stream \in [Calls -> StreamRecords] /\ stream' \in [Calls -> StreamRecords]
      /\ Calls \subseteq Casters /\ "main" \notin Calls /\ Nobody \notin GamePlayers
  BY GameAssumption DEF StreamsTyped, Casters
<1> SUFFICES ASSUME ~ abandoned', NEW t \in Calls PROVE InOrder(t)'
  BY DEF OrderInv, InOrder
<1>m. /\ \A b \in casting["main"] : b.event \in Events /\ b.event = LastEvent
      /\ LastEvent \in Nat
  <2>1. LastEvent \in Nat
    <3>1. game.at \in GameAt /\ game.round \in 1..GameRounds + 1
      BY DEF StreamsTyped
    <3>2. /\ 2 * game.round - 2 \in Nat /\ 2 * game.round - 1 \in Nat
          /\ 2 * game.round \in Nat /\ 2 * GameRounds + 1 \in Nat
      BY <3>1, GameAssumption
    <3> QED BY <3>1, <3>2, LastOfIs DEF LastEvent, GameAt
  <2> QED BY <2>1, CastIsLast
<1>e. Events \subseteq Nat /\ \A e \in Events : e - 1 \in Nat
  BY GameAssumption DEF Events, MatchEnd
<1>1. ASSUME NEW c \in Casters, Visit(c) PROVE InOrder(t)'
  <2>1. PICK b \in casting[c], p \in GamePlayers :
             /\ b.event \in Events /\ p \in b.todo
             /\ casting[c] = {b}
             /\ \E d \in casting'[c] : /\ casting'[c] = {d}
                                       /\ d.event = b.event
                                       /\ d.todo = b.todo \ {p}
             /\ stream' = stream \/ Sent(c, b, p)
             /\ UNCHANGED <<game, abandoned>>
    BY <1>1, VisitChanges
  <2>2. c = "main"
    BY <2>1 DEF CastsAgree, Casters
  <2>3. InOrder(t) /\ LastEvent' = LastEvent
    BY <2>1 DEF OrderInv, InOrder, LastEvent
  <2>4. \A d \in casting'["main"] : d.event = b.event /\ d.todo = b.todo \ {p}
    BY <2>1, <2>2
  <2>5. CASE stream'[t] = stream[t]
    BY <2>1, <2>2, <2>3, <2>4, <2>5 DEF InOrder
  <2>6. CASE Sent(c, b, p) /\ t = gameStreams[p]
    <3>1. stream[t].player = p
      BY <1>0, <2>6, GameAssumption DEF StoredStreams, Sent
    <3>2. Increasing(stream[t]) /\ UpTo(stream[t], b.event - 1)
      BY <2>1, <2>2, <2>3, <3>1 DEF InOrder
    <3>3. /\ stream'[t].channel = Append(stream[t].channel, b.event)
          /\ stream'[t].relayed = stream[t].relayed
          /\ stream'[t].player = stream[t].player
      BY <2>6 DEF Sent
    <3>4. stream[t] \in StreamRecords /\ stream'[t] \in StreamRecords
      BY <1>0
    <3>5. Increasing(stream'[t]) /\ UpTo(stream'[t], b.event)
      BY <2>1, <3>2, <3>3, <3>4, SentInOrder
    <3>6. b.event = LastEvent
      BY <1>m, <2>2
    <3>7. \A d \in casting'["main"] : stream'[t].player \notin d.todo
      BY <2>4, <3>1, <3>3
    <3> QED BY <2>3, <3>5, <3>6, <3>7 DEF InOrder
  <2> QED BY <2>1, <2>5, <2>6 DEF Sent, Others
<1>2. CASE MatchStep
  <2>1. /\ stream' = stream /\ abandoned' = abandoned
        /\ LastEvent \in Nat /\ LastEvent' \in Nat /\ LastEvent <= LastEvent'
        /\ \/ UNCHANGED casting \/ EndCast("main")
           \/ \E e \in Events : Cast("main", e) /\ LastEvent <= e - 1
    BY <1>2, MatchFacts, MatchGrows
  <2>2. InOrder(t)
    BY <2>1 DEF OrderInv, InOrder
  <2>3. stream[t] \in StreamRecords
    BY <1>0
  <2>4. UpTo(stream[t], LastEvent')
    BY <2>1, <2>2, <2>3, UpToMore DEF InOrder
  <2>5. ASSUME NEW b \in casting'["main"], stream[t].player \in b.todo
        PROVE  UpTo(stream[t], b.event - 1)
    <3>1. CASE UNCHANGED casting
      BY <2>2, <2>5, <3>1 DEF InOrder
    <3>2. CASE EndCast("main")
      BY <1>0, <3>2 DEF EndCast
    <3>3. ASSUME NEW e \in Events, Cast("main", e), LastEvent <= e - 1
          PROVE  UpTo(stream[t], b.event - 1)
      <4>1. b.event = e
        BY <1>0, <3>3 DEF Cast
      <4>2. e - 1 \in Int
        BY <1>e
      <4>3. UpTo(stream[t], e - 1)
        BY <2>1, <2>2, <2>3, <3>3, <4>2, UpToMore DEF InOrder
      <4> QED BY <4>1, <4>3
    <3> QED BY <2>1, <3>1, <3>2, <3>3
  <2> QED BY <2>1, <2>2, <2>4, <2>5 DEF InOrder
<1>3. ASSUME UNCHANGED <<game, abandoned>>, casting'["main"] = casting["main"],
             stream'[t] = stream[t]
      PROVE  InOrder(t)'
  BY <1>3 DEF OrderInv, InOrder, LastEvent
<1>4. ASSUME UNCHANGED <<game, abandoned>>, casting'["main"] = casting["main"],
             Keeps(t)
      PROVE  InOrder(t)'
  <2>1. InOrder(t) /\ LastEvent' = LastEvent
    BY <1>4 DEF OrderInv, InOrder, LastEvent
  <2>2. /\ stream'[t].player = stream[t].player
        /\ stream'[t].channel = stream[t].channel
        /\ stream'[t].relayed = stream[t].relayed
    BY <1>4 DEF Keeps
  <2> QED BY <1>4, <2>1, <2>2 DEF InOrder, Increasing, UpTo
<1>5. ASSUME LastEvent' \in Nat, casting'["main"] = casting["main"],
             stream'[t].channel = <<>>, stream'[t].relayed = 0
      PROVE  InOrder(t)'
  <2>1. Increasing(stream'[t]) /\ \A e \in Nat : UpTo(stream'[t], e)
    BY <1>5, EmptyInOrder
  <2> QED BY <1>5, <1>m, <1>e, <2>1 DEF InOrder
<1>6. ASSUME NEW s \in Calls, NEW p \in GamePlayers, OpenStream(s, p)
      PROVE  InOrder(t)'
  <2>1. UNCHANGED <<game, abandoned, casting>>
    BY <1>6, OpenFacts
  <2>2. CASE t = s
    <3>1. LastEvent' \in Nat
      BY <1>m, <2>1 DEF LastEvent
    <3> QED BY <1>5, <1>6, <2>1, <2>2, <3>1, OpenFacts
  <2>3. CASE t # s
    BY <1>3, <1>6, <2>1, <2>3, OpenFacts DEF Others
  <2> QED BY <2>2, <2>3
<1>7. ASSUME NEW s \in Calls, ReadRound(s) \/ SendSnapshot(s) \/ EndStream(s)
      PROVE  InOrder(t)'
  <2>1. Keeps(s) /\ Others(s) /\ UNCHANGED <<game, abandoned, casting>>
    BY <1>7, ReadFacts, SnapshotFacts, EndFacts
  <2> QED BY <1>3, <1>4, <2>1 DEF Others
<1>8. ASSUME NEW s \in Calls, Relay(s) PROVE InOrder(t)'
  <2>1. /\ Others(s) /\ UNCHANGED <<game, abandoned, casting>>
        /\ stream[s].channel # <<>>
        /\ stream'[s].channel = Tail(stream[s].channel)
        /\ stream'[s].relayed = Head(stream[s].channel)
        /\ stream'[s].player = stream[s].player
    BY <1>8, RelayFacts
  <2>2. CASE t = s
    <3>1. InOrder(s) /\ LastEvent' = LastEvent
      BY <2>1 DEF OrderInv, InOrder, LastEvent
    <3>2. stream[s] \in StreamRecords /\ stream'[s] \in StreamRecords
      BY <1>0
    <3>3. /\ Increasing(stream'[s])
          /\ \A e \in Int : UpTo(stream[s], e) => UpTo(stream'[s], e)
      BY <2>1, <3>1, <3>2, RelayInOrder DEF InOrder
    <3>4. UpTo(stream'[s], LastEvent)
      BY <1>m, <3>1, <3>3 DEF InOrder
    <3>5. ASSUME NEW b \in casting["main"], stream[s].player \in b.todo
          PROVE  UpTo(stream'[s], b.event - 1)
      <4>1. b.event - 1 \in Int
        BY <1>m, <1>e
      <4> QED BY <3>1, <3>3, <3>5, <4>1 DEF InOrder
    <3> QED BY <2>1, <2>2, <3>1, <3>3, <3>4, <3>5 DEF InOrder
  <2>3. CASE t # s
    BY <1>3, <2>1, <2>3 DEF Others
  <2> QED BY <2>2, <2>3
<1>9. ASSUME NEW s \in Calls, CountRemaining(s) \/ MatchAbandoned(s)
      PROVE  InOrder(t)'
  <2>1. /\ \/ Keeps(s)
           \/ /\ stream'[s].channel = <<>> /\ stream'[s].relayed = 0
        /\ Others(s)
        /\ \/ game' = game
           \/ /\ game.at = "asked" /\ game'.at = "over"
              /\ game'.round = game.round
        /\ \/ Cast(s, MatchEnd) /\ abandoned' = TRUE
           \/ EndCast(s) /\ abandoned' = abandoned
           \/ UNCHANGED casting /\ abandoned' = abandoned
    BY <1>9, CountFacts
  <2>2. casting'["main"] = casting["main"] /\ abandoned' = abandoned
    BY <1>0, <2>1 DEF Cast, EndCast
  <2>3. LastEvent' \in Nat /\ LastEvent <= LastEvent'
    <3>1. CASE game' = game
      BY <1>m, <3>1 DEF LastEvent
    <3>2. CASE game.at = "asked" /\ game'.at = "over" /\ game'.round = game.round
      <4>1. game.round \in 1..GameRounds /\ game.at \in GameAt
        BY <3>2 DEF StreamsTyped
      <4>2. game.round \in 1..GameRounds + 1 /\ "over" \in GameAt
        BY <4>1, GameAssumption DEF GameAt
      <4>3. LastEvent = 2 * game.round - 1
        BY <3>2, <4>1, <4>2, LastOfIs DEF LastEvent
      <4>4. LastEvent' = 2 * GameRounds + 1
        BY <3>2, <4>2, LastOfIs DEF LastEvent
      <4> QED BY <4>1, <4>3, <4>4, GameAssumption
    <3> QED BY <2>1, <3>1, <3>2
  <2>4. InOrder(t) /\ stream[t] \in StreamRecords
    BY <1>0, <2>2 DEF OrderInv, InOrder
  <2>5. UpTo(stream[t], LastEvent')
    BY <1>m, <2>3, <2>4, UpToMore DEF InOrder
  <2>6. CASE t # s
    <3>1. stream'[t] = stream[t]
      BY <2>1, <2>6 DEF Others
    <3> QED BY <2>2, <2>4, <2>5, <3>1 DEF InOrder
  <2>7. CASE t = s /\ Keeps(s)
    <3>1. /\ stream'[t].player = stream[t].player
          /\ stream'[t].channel = stream[t].channel
          /\ stream'[t].relayed = stream[t].relayed
      BY <2>7 DEF Keeps
    <3> QED BY <2>2, <2>4, <2>5, <3>1 DEF InOrder, Increasing, UpTo
  <2>8. CASE t = s /\ stream'[s].channel = <<>> /\ stream'[s].relayed = 0
    BY <1>5, <2>2, <2>3, <2>8
  <2> QED BY <2>1, <2>6, <2>7, <2>8
<1>10. CASE UNCHANGED gameVars
  BY <1>3, <1>10 DEF gameVars
<1> QED BY <1>1, <1>2, <1>6, <1>7, <1>8, <1>9, <1>10, StreamSteps

-----------------------------------------------------------------------------
(* The question of the round is shown.                                     *)

(* A call that is sent the question of the round.                          *)
LEMMA AskedComesTo ==
    ASSUME NEW c, NEW d, NEW r \in 1..GameRounds, c.channel \in Seq(Events),
           d.channel = Append(c.channel, Question(r))
    PROVE  ComesTo(d, r)
<1> DEFINE q == c.channel  qq == d.channel  k == Len(q)
<1>1. /\ k \in Nat /\ DOMAIN qq = 1..k + 1 /\ qq[k + 1] = Question(r)
  BY EventNumbers, SentChannel
<1> HIDE DEF q, qq, k
<1>2. k + 1 \in DOMAIN qq /\ \A j \in DOMAIN qq : ~ (k + 1 < j)
  BY <1>1
<1> QED BY <1>1, <1>2 DEF ComesTo, qq

(* A call that is sent anything but a question.                            *)
LEMMA ToldComesTo ==
    ASSUME NEW c, NEW d, NEW r, NEW e \in Events, c.channel \in Seq(Events),
           ~ Asks(e), d.channel = Append(c.channel, e), d.at = c.at,
           d.read = c.read, d.question = c.question, ComesTo(c, r)
    PROVE  ComesTo(d, r)
<1> DEFINE q == c.channel  qq == d.channel  k == Len(q)
<1>1. /\ k \in Nat /\ DOMAIN q = 1..k /\ DOMAIN qq = 1..k + 1
      /\ \A i \in 1..k : qq[i] = q[i]
      /\ qq[k + 1] = e
  BY SentChannel
<1>2. \/ \E i \in DOMAIN q :
           q[i] = Question(r) /\ \A j \in DOMAIN q : i < j => ~ Asks(q[j])
      \/ /\ \A i \in DOMAIN q : ~ Asks(q[i])
         /\ \/ d.at = "stored"
            \/ d.at = "snapshot" /\ d.read = r
            \/ d.at = "relay" /\ d.question = r
  BY DEF ComesTo
<1> HIDE DEF q, qq, k
<1>3. \A i \in 1..k + 1 : i \in 1..k \/ i = k + 1
  BY <1>1
<1>4. 1..k \subseteq 1..k + 1
  BY <1>1
<1>5. CASE \E i \in DOMAIN q :
             q[i] = Question(r) /\ \A j \in DOMAIN q : i < j => ~ Asks(q[j])
  <2>1. PICK i \in 1..k : q[i] = Question(r) /\ \A j \in 1..k : i < j => ~ Asks(q[j])
    BY <1>1, <1>5
  <2>2. i \in DOMAIN qq /\ qq[i] = Question(r)
    BY <1>1, <1>4, <2>1
  <2>3. \A j \in DOMAIN qq : i < j => ~ Asks(qq[j])
    BY <1>1, <1>3, <2>1
  <2> QED BY <2>2, <2>3 DEF ComesTo, qq
<1>6. CASE \A i \in DOMAIN q : ~ Asks(q[i])
  <2>1. \A i \in DOMAIN qq : ~ Asks(qq[i])
    BY <1>1, <1>3, <1>6
  <2>2. CASE \E i \in DOMAIN q : q[i] = Question(r)
    BY <1>5, <1>6, <2>2
  <2> QED BY <1>2, <2>1, <2>2 DEF ComesTo, qq
<1> QED BY <1>2, <1>5, <1>6

(* A call that relays the first event of its channel.                      *)
LEMMA RelayComesTo ==
    ASSUME NEW c, NEW d, NEW r \in 1..GameRounds, c.channel \in Seq(Events),
           c.channel # <<>>, d.channel = Tail(c.channel),
           c.at = "relay", d.at = "relay",
           ~ Asks(Head(c.channel)) => d.question = c.question,
           Head(c.channel) = Question(r) => d.question = r,
           ComesTo(c, r)
    PROVE  ComesTo(d, r)
<1> DEFINE q == c.channel  qq == d.channel  k == Len(q)
<1>1. /\ k \in Nat /\ k >= 1 /\ DOMAIN q = 1..k /\ DOMAIN qq = 1..k - 1
      /\ \A i \in 1..k - 1 : qq[i] = q[i + 1]
      /\ Head(q) = q[1]
  BY RelayedChannel
<1>2. /\ ~ Asks(q[1]) => d.question = c.question
      /\ q[1] = Question(r) => d.question = r
  BY <1>1
<1>3. \/ \E i \in DOMAIN q :
           q[i] = Question(r) /\ \A j \in DOMAIN q : i < j => ~ Asks(q[j])
      \/ (\A i \in DOMAIN q : ~ Asks(q[i])) /\ c.question = r
  BY DEF ComesTo
<1> HIDE DEF q, qq, k
<1>4. \A i \in 1..k - 1 : i + 1 \in 1..k /\ 1 < i + 1
  BY <1>1
<1>5. ASSUME NEW i \in 1..k, q[i] = Question(r),
             \A j \in 1..k : i < j => ~ Asks(q[j])
      PROVE  ComesTo(d, r)
  <2>1. CASE i = 1
    <3>1. \A j \in DOMAIN qq : ~ Asks(qq[j])
      BY <1>1, <1>4, <1>5, <2>1
    <3> QED BY <1>2, <1>5, <2>1, <3>1 DEF ComesTo, qq
  <2>2. CASE i # 1
    <3>1. i - 1 \in 1..k - 1 /\ (i - 1) + 1 = i
      BY <1>1, <2>2
    <3>2. qq[i - 1] = Question(r)
      BY <1>1, <1>5, <3>1
    <3>3. \A j \in 1..k - 1 : i - 1 < j => i < j + 1
      BY <1>1
    <3>4. \A j \in 1..k - 1 : i - 1 < j => ~ Asks(qq[j])
      BY <1>1, <1>4, <1>5, <3>3
    <3> QED BY <1>1, <3>1, <3>2, <3>4 DEF ComesTo, qq
  <2> QED BY <2>1, <2>2
<1>6. CASE (\A i \in DOMAIN q : ~ Asks(q[i])) /\ c.question = r
  <2>1. 1 \in 1..k
    BY <1>1
  <2>2. d.question = r
    BY <1>1, <1>2, <1>6, <2>1
  <2>3. \A j \in DOMAIN qq : ~ Asks(qq[j])
    BY <1>1, <1>4, <1>6
  <2> QED BY <2>2, <2>3 DEF ComesTo, qq
<1> QED BY <1>1, <1>3, <1>5, <1>6

(* One player's part of ShownInv.                                          *)
Shows(p) ==
    \/ gameStreams[p] \in dropped \cup {Nobody} \cup Missed(game.round)
    \/ \E b \in casting["main"] : p \in b.todo
    \/ ComesTo(stream[gameStreams[p]], game.round)

LEMMA ShownStep ==
    ASSUME StreamsTyped, StreamsTyped', StoredStreams, StoredStreams', CastsAgree,
           ShownInv, [GameNext]_gameVars
    PROVE  ShownInv'
<1>0. /\ casting \in [Casters -> SUBSET Casts] /\ "main" \in Casters
      /\ stream \in [Calls -> StreamRecords]
      /\ \A s \in Calls : stream[s].channel \in Seq(Events)
      /\ Calls \subseteq Casters /\ "main" \notin Calls
      /\ Nobody \notin GamePlayers /\ Nobody \notin Calls
      /\ \A p \in GamePlayers : gameStreams[p] # Nobody => gameStreams[p] \in Calls
      /\ \A p \in GamePlayers : gameStreams[p] # Nobody =>
           /\ stream[gameStreams[p]].player = p
           /\ stream[gameStreams[p]].at \in {"stored", "snapshot", "relay"}
  BY GameAssumption DEF StreamsTyped, Casters, StreamRecords, StoredStreams
<1> SUFFICES ASSUME game'.at \in {"asking", "asked"}, live' # 0, loaded',
                    NEW q \in GamePlayers
             PROVE  Shows(q)'
  BY DEF ShownInv, Shows
<1>g. ASSUME UNCHANGED <<game, live, loaded>>
      PROVE  /\ Shows(q)
             /\ game'.round = game.round /\ game.round \in 1..GameRounds
             /\ game.at \in {"asking", "asked"} /\ live # 0 /\ loaded
             /\ live = game.round /\ (redisRound = game.round \/ unset)
  <2>1. game'.at = game.at /\ live' = live /\ loaded' = loaded
        /\ game'.round = game.round
    BY <1>g
  <2>2. game.at \in {"asking", "asked"} /\ live # 0 /\ loaded
    BY <2>1
  <2>3. Shows(q)
    BY <2>2 DEF ShownInv, Shows
  <2>4. game.round \in 1..GameRounds
    BY <2>2 DEF StreamsTyped
  <2>5. live = game.round /\ (redisRound = game.round \/ unset)
    BY <2>2 DEF CastsAgree
  <2> QED BY <2>1, <2>2, <2>3, <2>4, <2>5
<1>1. ASSUME NEW c \in Casters, Visit(c) PROVE Shows(q)'
  <2>1. PICK b \in casting[c], p \in GamePlayers :
             /\ b \in Casts /\ b.event \in Events /\ p \in b.todo
             /\ casting[c] = {b}
             /\ \E d \in casting'[c] : /\ casting'[c] = {d}
                                       /\ d.event = b.event
                                       /\ d.todo = b.todo \ {p}
             /\ \A d \in Casters : d # c => casting'[d] = casting[d]
             /\ \/ gameStreams[p] = Nobody /\ stream' = stream /\ dropped' = dropped
                \/ Sent(c, b, p)
                \/ /\ gameStreams[p] \in Calls /\ stream' = stream
                   /\ dropped' = dropped \cup {gameStreams[p]}
             /\ UNCHANGED <<game, redisRound, loaded, live, gameStreams, abandoned,
                            unset, misread>>
    BY <1>1, VisitChanges
  <2>2. /\ Shows(q) /\ game'.round = game.round /\ game.round \in 1..GameRounds
        /\ game.at \in {"asking", "asked"} /\ gameStreams'[q] = gameStreams[q]
    BY <1>g, <2>1
  <2>3. /\ dropped \subseteq dropped'
        /\ Missed(game.round) = Missed(game.round)'
    BY <2>1 DEF Sent, Missed
  <2>4. ASSUME q # p PROVE Shows(q)'
    <3>1. CASE gameStreams[q] \in dropped \cup {Nobody} \cup Missed(game.round)
      BY <2>2, <2>3, <3>1 DEF Shows
    <3>2. CASE \E d \in casting["main"] : q \in d.todo
      BY <1>0, <2>1, <2>4, <3>2 DEF Shows
    <3>3. CASE gameStreams[q] # Nobody /\ ComesTo(stream[gameStreams[q]], game.round)
      <4>1. gameStreams[q] # gameStreams[p]
        BY <1>0, <2>4, <3>3
      <4>2. stream'[gameStreams[q]] = stream[gameStreams[q]]
        BY <1>0, <2>1, <3>3, <4>1 DEF Sent, Others
      <4> QED BY <2>2, <3>3, <4>2 DEF Shows
    <3> QED BY <2>2, <3>1, <3>2, <3>3 DEF Shows
  <2>5. ASSUME q = p PROVE Shows(q)'
    <3>1. CASE gameStreams[p] = Nobody
      BY <2>2, <2>5, <3>1 DEF Shows
    <3>2. CASE dropped' = dropped \cup {gameStreams[p]}
      BY <2>2, <2>5, <3>2 DEF Shows
    <3>3. CASE Sent(c, b, p)
      <4> DEFINE s == gameStreams[p]
      <4>1. /\ s \in Calls /\ stream[s].channel \in Seq(Events)
            /\ stream'[s].at = stream[s].at /\ stream'[s].read = stream[s].read
            /\ stream'[s].question = stream[s].question
            /\ stream'[s].channel = Append(stream[s].channel, b.event)
        BY <1>0, <3>3 DEF Sent
      <4>2. CASE c = "main"
        <5>1. b.event = Question(game.round)
          BY <2>1, <2>2, <4>2 DEF CastsAgree
        <5>2. ComesTo(stream'[s], game.round)
          BY <2>2, <4>1, <5>1, AskedComesTo
        <5> QED BY <2>2, <2>5, <5>2 DEF Shows
      <4>3. CASE c # "main"
        <5>1. ~ Asks(b.event)
          BY <2>1, <4>3, EventNumbers DEF CastsAgree, Casters
        <5>2. CASE gameStreams[q] \in dropped \cup {Nobody} \cup Missed(game.round)
          BY <2>2, <2>3, <5>2 DEF Shows
        <5>3. CASE \E d \in casting["main"] : q \in d.todo
          BY <1>0, <2>1, <4>3, <5>3 DEF Shows
        <5>4. CASE ComesTo(stream[s], game.round)
          <6>1. ComesTo(stream'[s], game.round)
            BY <2>1, <4>1, <5>1, <5>4, ToldComesTo
          <6> QED BY <2>2, <2>5, <6>1 DEF Shows
        <5> QED BY <2>2, <2>5, <5>2, <5>3, <5>4 DEF Shows
      <4> QED BY <4>2, <4>3
    <3> QED BY <2>1, <3>1, <3>2, <3>3
  <2> QED BY <2>4, <2>5
<1>2. CASE MatchStep
  <2>1. /\ UNCHANGED <<gameStreams, stream, dropped, misread>>
        /\ \/ game.at = "setRound" /\ Cast("main", Question(game.round))
           \/ /\ game.at = "asking" /\ game'.at = "asked" /\ CastOver("main")
              /\ game'.round = game.round
              /\ UNCHANGED <<loaded, live>>
    BY <1>2, MatchFacts
  <2>2. CASE Cast("main", Question(game.round))
    <3>1. casting'["main"] = {[event |-> Question(game.round), todo |-> GamePlayers]}
      BY <1>0, <2>2 DEF Cast
    <3>2. \E b \in casting'["main"] : q \in b.todo
      BY <3>1
    <3> QED BY <3>2 DEF Shows
  <2>3. CASE /\ game.at = "asking" /\ CastOver("main") /\ game'.round = game.round
             /\ UNCHANGED <<loaded, live>>
    <3>1. Shows(q)
      BY <2>3 DEF ShownInv, Shows
    <3>2. ~ \E b \in casting["main"] : q \in b.todo
      BY <2>3 DEF CastOver
    <3> QED BY <2>1, <2>3, <3>1, <3>2 DEF Shows, Missed
  <2> QED BY <2>1, <2>2, <2>3
<1>3. ASSUME UNCHANGED <<game, live, loaded, dropped>>,
             \A s \in Calls : misread[s] = game.round => misread'[s] = game.round,
             casting'["main"] = casting["main"],
             gameStreams'[q] = gameStreams[q],
             gameStreams[q] # Nobody /\ ComesTo(stream[gameStreams[q]], game.round) =>
               ComesTo(stream'[gameStreams[q]], game.round)
      PROVE  Shows(q)'
  BY <1>3, <1>g DEF Shows, Missed
<1>4. ASSUME NEW s \in Calls, NEW p \in GamePlayers, OpenStream(s, p)
      PROVE  Shows(q)'
  <2>1. /\ stream[s].at = "new"
        /\ stream'[s].at = "stored" /\ stream'[s].player = p
        /\ stream'[s].channel = <<>> /\ stream'[s].relayed = 0
        /\ Others(s)
        /\ gameStreams'[p] = s
        /\ \A x \in GamePlayers : x # p => gameStreams'[x] = gameStreams[x]
        /\ UNCHANGED <<game, redisRound, loaded, live, casting, abandoned, dropped,
                       unset, misread>>
    BY <1>4, OpenFacts
  <2>2. CASE q = p
    <3>1. \A i \in DOMAIN stream'[s].channel : FALSE
      BY <2>1
    <3>2. ComesTo(stream'[s], game'.round)
      BY <2>1, <3>1 DEF ComesTo
    <3> QED BY <2>1, <2>2, <3>2 DEF Shows
  <2>3. CASE q # p
    <3>1. gameStreams[q] # Nobody => stream'[gameStreams[q]] = stream[gameStreams[q]]
      BY <1>0, <2>1 DEF Others
    <3> QED BY <1>3, <2>1, <2>3, <3>1
  <2> QED BY <2>2, <2>3
<1>5. ASSUME NEW s \in Calls, UNCHANGED <<game, redisRound, loaded, live, gameStreams,
                                          casting, dropped, misread>>, Others(s),
             \A r \in 1..GameRounds : /\ r = game.round /\ live = r /\ live # 0
                                      /\ loaded
                                      /\ ComesTo(stream[s], r)
                                      => ComesTo(stream'[s], r)
      PROVE  Shows(q)'
  <2>1. /\ game.round \in 1..GameRounds /\ live = game.round /\ live # 0 /\ loaded
    BY <1>5, <1>g
  <2>2. CASE gameStreams[q] = s
    BY <1>3, <1>5, <2>1, <2>2
  <2>3. CASE gameStreams[q] # s
    <3>1. gameStreams[q] # Nobody => stream'[gameStreams[q]] = stream[gameStreams[q]]
      BY <1>0, <1>5, <2>3 DEF Others
    <3> QED BY <1>3, <1>5, <3>1
  <2> QED BY <2>2, <2>3
<1>6. ASSUME NEW s \in Calls, ReadRound(s) PROVE Shows(q)'
  <2>1. /\ stream[s].at = "stored"
        /\ stream'[s].channel = stream[s].channel /\ Others(s)
        /\ misread'[s] \in {misread[s], game.round}
        /\ \A t \in Calls : t # s => misread'[t] = misread[t]
        /\ UNCHANGED <<game, redisRound, loaded, live, gameStreams, casting, dropped>>
    BY <1>6, ReadFacts DEF Keeps
  <2>2. /\ Shows(q) /\ game'.round = game.round /\ game.round \in 1..GameRounds
        /\ game.at \in {"asking", "asked"} /\ loaded
        /\ redisRound = game.round \/ unset
    BY <1>g, <2>1
  <2>3. \A t \in Calls : misread[t] = game.round => misread'[t] = game.round
    BY <2>1
  <2>4. CASE gameStreams[q] # s
    <3>1. gameStreams[q] # Nobody => stream'[gameStreams[q]] = stream[gameStreams[q]]
      BY <1>0, <2>1, <2>4 DEF Others
    <3> QED BY <1>3, <2>1, <2>3, <3>1
  <2>5. CASE gameStreams[q] = s
    <3>1. stream[s].player = q
      BY <1>0, <2>5
    <3>2. CASE s \in dropped \cup Missed(game.round)
      BY <2>1, <2>2, <2>3, <2>5, <3>2 DEF Shows, Missed
    <3>3. CASE \E b \in casting["main"] : q \in b.todo
      BY <2>1, <3>3 DEF Shows
    <3>4. CASE \E i \in DOMAIN stream[s].channel :
                 /\ stream[s].channel[i] = Question(game.round)
                 /\ \A j \in DOMAIN stream[s].channel :
                      i < j => ~ Asks(stream[s].channel[j])
      <4>1. ComesTo(stream'[s], game.round)
        BY <2>1, <3>4 DEF ComesTo
      <4> QED BY <2>1, <2>2, <2>5, <4>1 DEF Shows
    <3>5. CASE /\ ~ \E b \in casting["main"] : q \in b.todo
               /\ \A i \in DOMAIN stream[s].channel : ~ Asks(stream[s].channel[i])
      <4>1. PassedBy(s)
        BY <2>2, <3>1, <3>5, EventNumbers DEF PassedBy, At
      <4>2. redisRound = game.round => redisRound >= 1
        BY <2>2
      <4>3. \/ stream'[s].at = "snapshot" /\ stream'[s].read = game.round
            \/ misread'[s] = game.round
        BY <1>6, <2>2, <4>1, <4>2, ReadFacts
      <4>4. CASE stream'[s].at = "snapshot" /\ stream'[s].read = game.round
        <5>1. ComesTo(stream'[s], game.round)
          BY <2>1, <3>5, <4>4 DEF ComesTo
        <5> QED BY <2>1, <2>2, <2>5, <5>1 DEF Shows
      <4>5. CASE misread'[s] = game.round
        BY <2>1, <2>2, <2>5, <4>5 DEF Shows, Missed
      <4> QED BY <4>3, <4>4, <4>5
    <3>6. s # Nobody
      BY <1>0
    <3> QED BY <2>2, <2>5, <3>2, <3>3, <3>4, <3>5, <3>6 DEF Shows, ComesTo
  <2> QED BY <2>4, <2>5
<1>7. ASSUME NEW s \in Calls, SendSnapshot(s) PROVE Shows(q)'
  <2>1. /\ stream[s].at = "snapshot" /\ stream'[s].at = "relay"
        /\ live # 0 => stream'[s].question = stream[s].read
        /\ stream'[s].channel = stream[s].channel /\ Others(s)
        /\ UNCHANGED <<game, redisRound, loaded, live, gameStreams, casting, dropped,
                       misread>>
    BY <1>7, SnapshotFacts DEF Keeps
  <2>2. ASSUME NEW r \in 1..GameRounds, live # 0, ComesTo(stream[s], r)
        PROVE  ComesTo(stream'[s], r)
    BY <2>1, <2>2 DEF ComesTo
  <2> QED BY <1>5, <2>1, <2>2
<1>8. ASSUME NEW s \in Calls, Relay(s) PROVE Shows(q)'
  <2>1. /\ Others(s)
        /\ UNCHANGED <<game, redisRound, loaded, live, gameStreams, casting, dropped,
                       misread>>
    BY <1>8, RelayFacts
  <2>2. ASSUME NEW r \in 1..GameRounds, ComesTo(stream[s], r)
        PROVE  ComesTo(stream'[s], r)
    BY <1>8, <2>2, RelayFacts, RelayComesTo
  <2> QED BY <1>5, <2>1, <2>2
<1>9. ASSUME NEW s \in Calls, EndStream(s) PROVE Shows(q)'
  <2>1. /\ Others(s) /\ UNCHANGED <<game, redisRound, loaded, live, casting, dropped,
                                     misread>>
        /\ stream[s].player \in GamePlayers => gameStreams'[stream[s].player] = Nobody
        /\ q # stream[s].player => gameStreams'[q] = gameStreams[q]
    BY <1>9, EndFacts
  <2>2. CASE q = stream[s].player
    BY <2>1, <2>2 DEF Shows
  <2>3. CASE q # stream[s].player
    <3>1. gameStreams[q] # Nobody => stream'[gameStreams[q]] = stream[gameStreams[q]]
      BY <1>0, <2>1, <2>3 DEF Others
    <3> QED BY <1>3, <2>1, <2>3, <3>1
  <2> QED BY <2>2, <2>3
<1>10. ASSUME NEW s \in Calls, CountRemaining(s) \/ MatchAbandoned(s)
       PROVE  Shows(q)'
  <2>1. /\ stream[s].at \in {"count", "ending"} /\ Others(s)
        /\ \/ game' = game
           \/ game.at = "asked" /\ game'.at = "over"
        /\ loaded' = loaded \/ loaded' = FALSE
        /\ \/ Cast(s, MatchEnd) \/ EndCast(s) \/ UNCHANGED casting
        /\ UNCHANGED <<redisRound, live, gameStreams, dropped, unset, misread>>
    BY <1>10, CountFacts
  <2>2. game' = game /\ loaded' = loaded
    BY <2>1
  <2>3. casting'["main"] = casting["main"]
    BY <1>0, <2>1 DEF Cast, EndCast
  <2>4. gameStreams[q] # Nobody => stream'[gameStreams[q]] = stream[gameStreams[q]]
    BY <1>0, <2>1 DEF Others
  <2> QED BY <1>3, <2>1, <2>2, <2>3, <2>4
<1>11. CASE UNCHANGED gameVars
  BY <1>3, <1>11 DEF gameVars
<1> QED BY <1>1, <1>2, <1>4, <1>6, <1>7, <1>8, <1>9, <1>10, <1>11, StreamSteps

-----------------------------------------------------------------------------
(* The invariant holds, and says what it has to.                           *)

LEMMA StreamInit ==
    ASSUME GameInit
    PROVE  StreamInv
<1>1. NewStream \in StreamRecords /\ NewStream.at = "new" /\ NewStream.channel = <<>>
      /\ NewStream.relayed = 0
  BY NewType
<1>2. game.at = "start" /\ game.round = 1
      /\ game \in [at : GameAt, round : 1..GameRounds + 1]
  <2>1. 1 \in 1..GameRounds + 1 /\ "start" \in GameAt
    BY GameAssumption DEF GameAt
  <2> QED BY <2>1 DEF GameInit
<1>3. \A s \in Calls : stream[s] = NewStream
  BY DEF GameInit
<1>4. \A c \in Casters : casting[c] = {}
  BY DEF GameInit
<1>5. "main" \in Casters /\ Calls \subseteq Casters
  BY DEF Casters
<1>6. StreamsTyped
  <2>1. 0 \in 0..GameRounds
    BY GameAssumption
  <2>2. casting \in [Casters -> SUBSET Casts]
    BY DEF GameInit
  <2>3. stream \in [Calls -> StreamRecords]
    BY <1>1 DEF GameInit
  <2>4. gameStreams \in [GamePlayers -> Calls \cup {Nobody}]
    BY DEF GameInit
  <2>5. /\ redisRound = 0 /\ loaded = TRUE /\ live = 0 /\ halted = FALSE
        /\ abandoned = FALSE /\ dropped = {} /\ unset = FALSE
    BY DEF GameInit
  <2>6. misread \in [Calls -> 0..GameRounds]
    BY <2>1 DEF GameInit
  <2> QED BY <1>2, <1>4, <2>1, <2>2, <2>3, <2>4, <2>5, <2>6 DEF StreamsTyped
<1>7. StoredStreams
  BY <1>3 DEF StoredStreams, GameInit
<1>8. CastsAgree /\ OwnedStreams
  BY <1>1, <1>2, <1>3, <1>4, <1>5 DEF CastsAgree, OwnedStreams
<1>9. OrderInv
  <2>1. LastEvent \in Nat
    <3>1. 1 \in 1..GameRounds + 1 /\ "start" \in GameAt
      BY GameAssumption DEF GameAt
    <3>2. LastEvent = 0
      BY <1>2, <3>1, LastOfIs DEF LastEvent
    <3> QED BY <3>2
  <2>2. \A s \in Calls : Increasing(stream[s]) /\ UpTo(stream[s], LastEvent)
    BY <1>1, <1>3, <2>1, EmptyInOrder
  <2> QED BY <1>4, <1>5, <2>2 DEF OrderInv
<1>10. ShownInv
  BY <1>2 DEF ShownInv
<1> QED BY <1>6, <1>7, <1>8, <1>9, <1>10 DEF StreamInv

LEMMA InOrderSaid ==
    ASSUME NEW c \in StreamRecords, Increasing(c)
    PROVE  LET said == <<c.relayed>> \o c.channel
           IN \A m, n \in DOMAIN said : m < n => said[m] < said[n]
<1> DEFINE q == c.channel  k == Len(q)  said == <<c.relayed>> \o q
<1>1. q \in Seq(Events) /\ c.relayed \in Nat
  BY Numbers
<1>2. DOMAIN q = 1..k /\ k \in Nat
  BY <1>1, SentChannel
<1>3. <<c.relayed>> \in Seq({c.relayed} \cup Events) /\ q \in Seq({c.relayed} \cup Events)
  BY <1>1
<1>4. /\ DOMAIN said = 1..k + 1 /\ said[1] = c.relayed
      /\ \A i \in 2..k + 1 : said[i] = q[i - 1]
  BY <1>1, <1>2, <1>3
<1>5. /\ \A i \in 1..k : c.relayed < q[i]
      /\ \A i, j \in 1..k : i < j => q[i] < q[j]
  BY <1>2 DEF Increasing
<1> HIDE DEF q, k, said
<1>6. \A i \in 1..k + 1 : i = 1 \/ (i \in 2..k + 1 /\ i - 1 \in 1..k)
  BY <1>2
<1>7. ASSUME NEW m \in 1..k + 1, NEW n \in 1..k + 1, m < n
      PROVE  said[m] < said[n]
  <2>1. n \in 2..k + 1 /\ n - 1 \in 1..k
    BY <1>2, <1>7
  <2>2. CASE m = 1
    BY <1>4, <1>5, <2>1, <2>2
  <2>3. CASE m \in 2..k + 1 /\ m - 1 \in 1..k
    <3>1. m - 1 < n - 1
      BY <1>2, <1>7
    <3> QED BY <1>4, <1>5, <2>1, <2>3, <3>1
  <2> QED BY <1>6, <2>2, <2>3
<1> QED BY <1>4, <1>7 DEF said, q

LEMMA StreamInvSafe ==
    ASSUME StreamInv
    PROVE  StreamSafety
<1> USE DEF StreamInv
<1>1. GameTypeOK
  <2>1. ASSUME NEW s \in Calls
        PROVE  /\ stream[s].at \in StreamAt
               /\ stream[s].player \in GamePlayers \cup {Nobody}
               /\ stream[s].channel \in Seq(Events)
               /\ {stream[s].read, stream[s].question} \subseteq 0..GameRounds
               /\ stream[s].relayed \in Events \cup {0}
    <3>1. stream[s] \in StreamRecords
      BY DEF StreamsTyped
    <3> QED BY <3>1 DEF StreamRecords
  <2>2. ASSUME NEW c \in Casters
        PROVE  casting[c] \subseteq Casts /\ Cardinality(casting[c]) <= 1
    <3>1. casting[c] \subseteq Casts
      BY DEF StreamsTyped
    <3>2. CASE casting[c] = {}
      <4>1. Cardinality(casting[c]) = 0
        BY <3>2, FS_EmptySet
      <4> QED BY <3>1, <4>1
    <3>3. ASSUME NEW b \in casting[c]
          PROVE  Cardinality(casting[c]) <= 1
      <4>1. casting[c] = {b}
        BY DEF StreamsTyped
      <4>2. Cardinality({b}) = 1
        BY FS_Singleton
      <4> QED BY <4>1, <4>2
    <3> QED BY <3>1, <3>2, <3>3
  <2> QED BY <2>1, <2>2 DEF StreamsTyped, GameTypeOK
<1>2. CurrentQuestionIsShown
  <2> SUFFICES ASSUME game.at = "asked", live # 0, loaded, NEW s \in Calls \ dropped,
                      stream[s].at = "relay", stream[s].channel = <<>>,
                      gameStreams[stream[s].player] = s, misread[s] # live
               PROVE  stream[s].question = live
    BY DEF CurrentQuestionIsShown, At
  <2>1. stream[s].player \in GamePlayers
    BY DEF OwnedStreams
  <2> DEFINE p == stream[s].player
  <2>2. \/ gameStreams[p] \in dropped \cup {Nobody} \cup Missed(game.round)
        \/ \E b \in casting["main"] : p \in b.todo
        \/ ComesTo(stream[gameStreams[p]], game.round)
    BY <2>1 DEF ShownInv
  <2>3. s # Nobody /\ casting["main"] = {} /\ live = game.round
    BY GameAssumption DEF CastsAgree
  <2>4. ComesTo(stream[s], game.round)
    BY <2>2, <2>3 DEF Missed
  <2>5. \A i \in DOMAIN stream[s].channel : FALSE
    OBVIOUS
  <2> QED BY <2>3, <2>4, <2>5 DEF ComesTo
<1>3. EventsInOrder
  <2>1. ASSUME ~ abandoned, NEW s \in Calls
        PROVE  stream[s] \in StreamRecords /\ Increasing(stream[s])
    BY <2>1 DEF StreamsTyped, OrderInv
  <2> QED BY <2>1, InOrderSaid DEF EventsInOrder
<1> QED BY <1>1, <1>2, <1>3 DEF StreamSafety

(* Whatever streams come, go and are replaced, in the middle of whichever  *)
(* broadcast: the questions, the results and the end of the match reach    *)
(* each stream in their order while no stream's end finishes the match,    *)
(* and while a round can be answered a stream that has relayed all of its  *)
(* channel shows its question, unless its channel was full, or unless the  *)
(* question had passed by when it was stored and either setting the round  *)
(* or reading it for the snapshot failed.                                  *)
THEOREM StreamsSafe == GameSpec => []StreamSafety
<1>1. GameInit => StreamInv
  BY StreamInit
<1>2. StreamInv /\ [GameNext]_gameVars => StreamInv'
  BY StreamsTypeStep, StoredStep, OwnedStep, CastsStep, OrderStep, ShownStep DEF StreamInv
<1>3. StreamInv => StreamSafety
  BY StreamInvSafe
<1> QED BY <1>1, <1>2, <1>3, PTL DEF GameSpec
=============================================================================

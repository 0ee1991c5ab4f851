-------------------------- MODULE QuizRoom_proofs --------------------------
(***************************************************************************)
(* Theorems about QuizRoom, for every number of rounds, players, streams   *)
(* and goroutines: the type invariant, that the rounds of a match follow   *)
(* each other along one thread of events and in order, that a              *)
(* match.finished with the full number of rounds is truthful, and that a   *)
(* match nobody leaves is finished at most once.                           *)
(***************************************************************************)
EXTENDS QuizRoom, TLAPS

USE DEF setupVars, connVars

(* Every goroutine that carries a round carries one of the match.          *)
RoundBound == \A g \in Slots : Carries(g) => thread[g].round \in 1..Rounds

TypeInv == TypeOK /\ RoundBound

-----------------------------------------------------------------------------
(* What the three ways a goroutine moves do to `thread`.                   *)

(* A goroutine that goes to its next step keeps its round and signal.      *)
LEMMA GotoThread ==
    ASSUME thread \in [Threads -> ThreadState],
           NEW t \in Threads, NEW l \in ThreadAt, Goto(t, l)
    PROVE  /\ thread' \in [Threads -> ThreadState]
           /\ thread'[t].at = l
           /\ thread'[t].round = thread[t].round
           /\ thread'[t].signal = thread[t].signal
           /\ \A s \in Threads \ {t} : thread'[s] = thread[s]
<1> DEFINE r == [thread[t] EXCEPT !.at = l]
<1>1. /\ r \in ThreadState
      /\ r.at = l /\ r.round = thread[t].round /\ r.signal = thread[t].signal
  BY DEF ThreadState
<1>2. thread' = [thread EXCEPT ![t] = r]
  BY DEF Goto
<1> HIDE DEF r
<1> QED BY <1>1, <1>2

(* A goroutine that ends stands nowhere, or is gone for good.              *)
LEMMA ExitThread ==
    ASSUME thread \in [Threads -> ThreadState],
           NEW t \in Threads, Exit(t)
    PROVE  /\ thread' \in [Threads -> ThreadState]
           /\ thread'[t].at \in {"idle", "gone"}
           /\ t \in Conns => thread'[t].at = "gone"
           /\ \A s \in Threads \ {t} : thread'[s] = thread[s]
<1> DEFINE r == IF t \in Conns THEN [Idle EXCEPT !.at = "gone"] ELSE Idle
<1>1. /\ r \in ThreadState /\ r.at \in {"idle", "gone"}
      /\ t \in Conns => r.at = "gone"
  BY RoundsAssumption DEF ThreadState, Idle, ThreadAt, Signals
<1>2. thread' = [thread EXCEPT ![t] = r]
  BY DEF Exit
<1> HIDE DEF r
<1> QED BY <1>1, <1>2

(* A spawned round sleeps in a slot that was free.                         *)
LEMMA SpawnThread ==
    ASSUME thread \in [Threads -> ThreadState],
           NEW n \in 1..Rounds, Spawn(thread, n)
    PROVE  \E g \in Slots :
             /\ thread[g] = Idle
             /\ thread' \in [Threads -> ThreadState]
             /\ thread'[g].at = "sleep" /\ thread'[g].round = n
             /\ thread'[g].signal = 0
             /\ \A s \in Threads \ {g} : thread'[s] = thread[s]
<1> PICK g \in Slots : /\ thread[g] = Idle
                       /\ thread' = [thread EXCEPT ![g] =
                            [at |-> "sleep", round |-> n, signal |-> 0]]
  BY DEF Spawn
<1> DEFINE r == [at |-> "sleep", round |-> n, signal |-> 0]
<1>1. /\ r \in ThreadState
      /\ r.at = "sleep" /\ r.round = n /\ r.signal = 0
  BY RoundsAssumption DEF ThreadState, ThreadAt, Signals
<1>2. thread' = [thread EXCEPT ![g] = r] /\ g \in Threads
  BY DEF Threads
<1> HIDE DEF r
<1> QED BY <1>1, <1>2

(* A goroutine sent on its way with a signal for finishMatch.              *)
SentTo(t, l, n) == [thread EXCEPT ![t].at = l, ![t].signal = n]

(* It keeps its round, and nobody else moves.                              *)
LEMMA SignalThread ==
    ASSUME thread \in [Threads -> ThreadState],
           NEW t \in Threads, NEW l \in ThreadAt, NEW n \in Signals
    PROVE  /\ SentTo(t, l, n) \in [Threads -> ThreadState]
           /\ SentTo(t, l, n)[t].at = l
           /\ SentTo(t, l, n)[t].round = thread[t].round
           /\ SentTo(t, l, n)[t].signal = n
           /\ \A s \in Threads \ {t} : SentTo(t, l, n)[s] = thread[s]
<1> DEFINE r == [thread[t] EXCEPT !.at = l]
           q == [r EXCEPT !.signal = n]
           f == [thread EXCEPT ![t] = r]
<1>1. /\ q \in ThreadState
      /\ q.at = l /\ q.round = thread[t].round /\ q.signal = n
  BY DEF ThreadState
<1>2. SentTo(t, l, n) = [f EXCEPT ![t].signal = n]
  BY DEF SentTo
<1>3. f \in [Threads -> ThreadState] /\ f[t] = r
  BY DEF ThreadState
<1> HIDE DEF f
<1>4. SentTo(t, l, n) = [f EXCEPT ![t] = q]
  BY <1>2, <1>3
<1> HIDE DEF q, r
<1>5. \A s \in Threads \ {t} : f[s] = thread[s]
  BY DEF f
<1> QED BY <1>1, <1>3, <1>4, <1>5

-----------------------------------------------------------------------------
(* Type correctness.                                                       *)

(* A step of consumeMatchCreated keeps the state typed.                    *)
LEMMA SetupType == TypeInv /\ SetupNext => TypeInv'
<1> SUFFICES ASSUME TypeInv, SetupNext PROVE TypeInv'
  OBVIOUS
<1> USE RoundsAssumption, MaxSelectedAssumption
        DEF TypeInv, TypeOK, RoundBound, Carries
<1>1. CASE SetupDeliver
  BY <1>1 DEF SetupDeliver
<1>2. CASE SetupSelect
  BY <1>2 DEF SetupSelect
<1>3. CASE SetupPush
  BY <1>3 DEF SetupPush, Pushed
<1>4. CASE SetupStore
  BY <1>4 DEF SetupStore
<1>5. CASE SetupRound
  BY <1>5 DEF SetupRound
<1>6. CASE SetupAck
  <2>1. PICK g \in Slots :
          /\ thread' \in [Threads -> ThreadState]
          /\ thread'[g].at = "sleep" /\ thread'[g].round = 1
          /\ \A s \in Threads \ {g} : thread'[s] = thread[s]
    BY <1>6, SpawnThread DEF SetupAck
  <2>2. Slots \subseteq Threads
    BY DEF Threads
  <2>3. RoundBound'
    <3>1. RoundBound
      BY DEF TypeInv
    <3> HIDE DEF TypeInv, TypeOK
    <3> QED BY <2>1, <2>2, <3>1
  <2>4. created' = "acked" /\ setup' = "idle"
    BY <1>6 DEF SetupAck
  <2>5. UNCHANGED <<selected, listed, loaded, redisRound, closedKeys, completed,
                    roomTimer, connVars, process, asked, finished>>
    BY <1>6 DEF SetupAck
  <2> HIDE DEF RoundBound
  <2> QED BY <2>1, <2>3, <2>4, <2>5
<1> QED BY <1>1, <1>2, <1>3, <1>4, <1>5, <1>6 DEF SetupNext

(* A step of startRound, of a round timer or of closeRound keeps the state *)
(* typed.                                                                  *)
LEMMA RoundType ==
    ASSUME TypeInv, NEW g \in Slots, RoundNext(g)
    PROVE  TypeInv'
<1> USE RoundsAssumption DEF TypeInv, TypeOK, RoundBound, Carries
<1>a. g \in Threads /\ Slots \subseteq Threads
  BY DEF Threads
<1>b. {"load", "announce", "arm", "timer", "closing", "result", "complete",
       "end"} \subseteq ThreadAt
  BY DEF ThreadAt
<1>1. CASE StartCheck(g)
  BY <1>1, <1>a, <1>b, GotoThread, ExitThread DEF StartCheck
<1>2. CASE StartLoad(g)
  <2>1. CASE Goto(g, "announce")
    BY <1>2, <2>1, <1>a, <1>b, GotoThread DEF StartLoad
  <2>2. CASE thread' = [thread EXCEPT ![g].at = "end",
                          ![g].signal = IF loaded = 0 THEN 0 ELSE Rounds]
    <3> DEFINE n == IF loaded = 0 THEN 0 ELSE Rounds
    <3>1. n \in Signals
      BY DEF Signals
    <3> HIDE DEF n
    <3>2. thread' = SentTo(g, "end", n)
      BY <2>2 DEF n, SentTo
    <3>3. /\ thread' \in [Threads -> ThreadState] /\ thread'[g].at = "end"
          /\ \A s \in Threads \ {g} : thread'[s] = thread[s]
      BY <3>1, <3>2, <1>a, <1>b, SignalThread
    <3> QED BY <1>2, <3>3, <1>a DEF StartLoad
  <2> QED BY <1>2, <2>1, <2>2 DEF StartLoad
<1>3. CASE StartAnnounce(g)
  <2>1. thread[g].round \in 1..Rounds
    BY <1>3 DEF StartAnnounce
  <2>2. asked' \in Seq(1..Rounds)
    BY <1>3, <2>1 DEF StartAnnounce
  <2>3. redisRound' \in 0..Rounds
    BY <1>3, <2>1 DEF StartAnnounce
  <2> QED BY <1>3, <2>2, <2>3, <1>a, <1>b, GotoThread DEF StartAnnounce
<1>4. CASE StartArm(g)
  BY <1>4, <1>a, <1>b, GotoThread DEF StartArm
<1>5. CASE TimerFires(g)
  BY <1>5, <1>a, <1>b, GotoThread DEF TimerFires
<1>6. CASE CloseTry(g)
  BY <1>6, <1>a, <1>b, GotoThread, ExitThread DEF CloseTry
<1>7. CASE CloseResult(g)
  BY <1>7, <1>a, <1>b, GotoThread, ExitThread DEF CloseResult
<1>8. CASE CloseComplete(g)
  <2>1. thread[g].round \in 1..Rounds
    BY <1>8 DEF CloseComplete, CompleteWith
  <2>2. completed' \in Seq(1..Rounds)
    <3>1. Append(completed, thread[g].round) \in Seq(1..Rounds)
      BY <2>1
    <3> QED BY <1>8, <3>1 DEF CloseComplete, CompleteWith
  <2> QED BY <1>8, <2>2, <1>a, ExitThread DEF CloseComplete, CompleteWith
<1> QED BY <1>1, <1>2, <1>3, <1>4, <1>5, <1>6, <1>7, <1>8 DEF RoundNext

(* A step of consumeRoundCompleted keeps the state typed: the next round   *)
(* is spawned only below the last one.                                     *)
LEMMA ConsumeType == TypeInv /\ ConsumeCompleted => TypeInv'
<1> SUFFICES ASSUME TypeInv, ConsumeCompleted PROVE TypeInv'
  OBVIOUS
<1> USE RoundsAssumption, ThreadsAssumption
        DEF TypeInv, TypeOK, RoundBound, Carries
<1> DEFINE r == Head(completed)
<1>1. /\ r \in 1..Rounds /\ Tail(completed) \in Seq(1..Rounds)
      /\ completed' = Tail(completed)
      /\ Advance(r, r + 1)
  BY DEF ConsumeCompleted, ConsumeWith
<1>2. UNCHANGED <<setupVars, loaded, redisRound, closedKeys, roomTimer,
                  connVars, process, asked, finished>>
  BY DEF ConsumeCompleted, ConsumeWith
<1>3. Slots \subseteq Threads /\ Consumer \in Threads /\ Consumer \notin Slots
  BY DEF Threads
<1> HIDE DEF r
<1>4. thread' \in [Threads -> ThreadState] /\ RoundBound'
  <2>1. CASE UNCHANGED thread
    BY <2>1
  <2>2. CASE r < Rounds /\ Spawn(thread, r + 1)
    <3>1. r + 1 \in 1..Rounds
      BY <1>1, <2>2
    <3>2. PICK g \in Slots :
            /\ thread' \in [Threads -> ThreadState]
            /\ thread'[g].at = "sleep" /\ thread'[g].round = r + 1
            /\ \A s \in Threads \ {g} : thread'[s] = thread[s]
      <4>1. thread \in [Threads -> ThreadState]
        BY DEF TypeInv, TypeOK
      <4> HIDE DEF TypeInv, TypeOK, RoundBound
      <4> QED BY <2>2, <3>1, <4>1, SpawnThread
    <3>3. RoundBound
      BY DEF TypeInv
    <3> HIDE DEF TypeInv, TypeOK
    <3> QED BY <1>3, <3>1, <3>2, <3>3
  <2>3. CASE thread' = [thread EXCEPT ![Consumer] =
                          [at |-> "end", round |-> r, signal |-> r]]
    <3>1. [at |-> "end", round |-> r, signal |-> r] \in ThreadState
      BY <1>1 DEF ThreadState, ThreadAt, Signals
    <3> QED BY <1>3, <2>3, <3>1
  <2> QED BY <1>1, <2>1, <2>2, <2>3 DEF Advance, Finishing
<1> HIDE DEF RoundBound
<1> QED BY <1>1, <1>2, <1>4

(* A step of finishMatch keeps the state typed.                            *)
LEMMA FinishType ==
    ASSUME TypeInv, NEW t \in Threads, FinishNext(t)
    PROVE  TypeInv'
<1> USE DEF TypeInv, TypeOK, RoundBound, Carries
<1>a. Slots \subseteq Threads /\ {"publish", "cleanup"} \subseteq ThreadAt
  BY DEF Threads, ThreadAt
<1>1. CASE FinishEnd(t)
  BY <1>1, <1>a, GotoThread DEF FinishEnd
<1>2. CASE FinishPublish(t)
  <2>1. thread[t].signal \in Signals
    BY DEF ThreadState
  <2>2. Append(finished, thread[t].signal) \in Seq(Signals)
    BY <2>1
  <2>3. finished' \in Seq(Signals)
    BY <1>2, <2>2 DEF FinishPublish
  <2> QED BY <1>2, <2>3, <1>a, GotoThread DEF FinishPublish
<1>3. CASE FinishCleanup(t)
  BY <1>3, <1>a, ExitThread, MaxSelectedAssumption DEF FinishCleanup
<1> QED BY <1>1, <1>2, <1>3 DEF FinishNext

(* What StreamCount does to the goroutines: the call goes on, or ends, and *)
(* a slot whose timer it stopped is free.                                  *)
LEMMA CountThread ==
    ASSUME TypeInv, NEW c \in Conns, StreamCount(c)
    PROVE  /\ thread' \in [Threads -> ThreadState]
           /\ thread'[c].at \in {"gone", "ask"}
           /\ thread'[c].signal \in {0, -1}
           /\ \A s \in Threads \ {c} : thread'[s] \in {thread[s], Idle}
<1> DEFINE n == IF Cardinality(Connected) = 0 THEN 0 ELSE -1
<1>a. /\ c \in Threads /\ c \notin Slots /\ Slots \subseteq Threads
      /\ thread \in [Threads -> ThreadState] /\ "ask" \in ThreadAt
      /\ roomTimer \in Slots \cup {None} /\ n \in Signals /\ n \in {0, -1}
      /\ Idle \in ThreadState
  BY ThreadsAssumption, RoundsAssumption
     DEF Threads, TypeInv, TypeOK, ThreadAt, Signals, Idle, ThreadState
<1> HIDE DEF n
<1>1. CASE Exit(c)
  <2>1. thread'[c].signal = 0
    BY <1>1, <1>a DEF Exit, Idle
  <2> QED BY <1>1, <2>1, <1>a, ExitThread
<1>2. CASE thread' = SentTo(c, "ask", n)
  BY <1>2, <1>a, SignalThread
<1>3. CASE /\ roomTimer # None
           /\ thread' = [SentTo(c, "ask", n) EXCEPT ![roomTimer] = Idle]
  <2> DEFINE f == SentTo(c, "ask", n)
  <2>1. /\ f \in [Threads -> ThreadState] /\ f[c].at = "ask"
        /\ f[c].signal = n
        /\ \A s \in Threads \ {c} : f[s] = thread[s]
    BY <1>a, SignalThread
  <2> HIDE DEF f
  <2>2. thread' = [f EXCEPT ![roomTimer] = Idle] /\ roomTimer \in Slots
    BY <1>3, <1>a DEF f
  <2> QED BY <1>a, <2>1, <2>2
<1> QED BY <1>1, <1>2, <1>3 DEF StreamCount, SentTo, n

(* A step of a StreamGameEvents call keeps the state typed.                *)
LEMMA StreamType ==
    ASSUME TypeInv, NEW c \in Conns, StreamNext(c)
    PROVE  TypeInv'
<1> USE DEF TypeInv, TypeOK, RoundBound, Carries
<1>a. /\ c \in Threads /\ c \notin Slots /\ Slots \subseteq Threads
      /\ {"open", "count", "end"} \subseteq ThreadAt
  BY ThreadsAssumption DEF Threads, ThreadAt
<1>1. ASSUME NEW p \in Players, StreamOpen(c, p) PROVE TypeInv'
  BY <1>1, <1>a, GotoThread DEF StreamOpen
<1>2. CASE StreamEnd(c)
  BY <1>2, <1>a, GotoThread DEF StreamEnd
<1>3. CASE StreamCount(c)
  <2>1. roomTimer' \in Slots \cup {None}
    BY <1>3 DEF StreamCount
  <2>2. RoundBound'
    BY <1>3, <1>a, CountThread DEF Idle
  <2> QED BY <1>3, <2>1, <2>2, CountThread DEF StreamCount
<1>4. CASE StreamAsk(c)
  BY <1>4, <1>a, GotoThread, ExitThread DEF StreamAsk
<1> QED BY <1>1, <1>2, <1>3, <1>4 DEF StreamNext

(* What a restart leaves of the goroutines.                                *)
LEMMA RestartThread ==
    ASSUME thread \in [Threads -> ThreadState], Restart
    PROVE  /\ thread' \in [Threads -> ThreadState]
           /\ \A t \in Threads : /\ thread'[t].at \in {"idle", "gone"}
                                  /\ thread'[t].signal = 0
  BY RoundsAssumption DEF Restart, Idle, ThreadState, ThreadAt, Signals

(* The inductive form of type correctness: without RoundBound a goroutine  *)
(* could ask, close or announce a round past the last question.            *)
LEMMA TypeInvariance == Spec => []TypeInv
<1>1. Init => TypeInv
  BY RoundsAssumption, MaxSelectedAssumption
     DEF Init, TypeInv, TypeOK, RoundBound, Carries, ThreadState, Idle,
         ThreadAt, Signals, Threads
<1>2. TypeInv /\ [Next]_vars => TypeInv'
  <2> SUFFICES ASSUME TypeInv, [Next]_vars PROVE TypeInv'
    OBVIOUS
  <2>1. CASE SetupNext
    BY <2>1, SetupType
  <2>2. ASSUME NEW g \in Slots, RoundNext(g) PROVE TypeInv'
    BY <2>2, RoundType
  <2>3. CASE ConsumeCompleted
    BY <2>3, ConsumeType
  <2>4. ASSUME NEW t \in Threads, FinishNext(t) PROVE TypeInv'
    BY <2>4, FinishType
  <2>5. ASSUME NEW c \in Conns, StreamNext(c) PROVE TypeInv'
    BY <2>5, StreamType
  <2>6. SendPanics \/ Crash => Restart
    BY DEF SendPanics, Crash
  <2>7. CASE Restart
    <3>1. Slots \subseteq Threads
      BY DEF Threads
    <3>2. thread' \in [Threads -> ThreadState] /\ RoundBound'
      BY <2>7, <3>1, RestartThread DEF TypeInv, TypeOK, RoundBound, Carries
    <3>3. /\ loaded' \in 0..MaxSelected
          /\ streams' \in [Players -> Conns \cup {None}]
          /\ roomTimer' = None /\ setup' = "idle"
          /\ created' \in {"queued", "acked"}
          /\ process' = "restarted"
      BY <2>7, MaxSelectedAssumption DEF Restart
    <3> HIDE DEF RoundBound
    <3> QED BY <2>7, <3>2, <3>3 DEF Restart, TypeInv, TypeOK
  <2>8. CASE UNCHANGED vars
    BY <2>8 DEF vars, TypeInv, TypeOK, RoundBound, Carries
  <2> QED BY <2>1, <2>2, <2>3, <2>4, <2>5, <2>6, <2>7, <2>8 DEF Next
<1> QED BY <1>1, <1>2, PTL DEF Spec

(* Every reachable state is well typed: in particular no question, no key  *)
(* and no message of a round outside 1..Rounds exists.                     *)
THEOREM TypeCorrect == Spec => []TypeOK
<1>1. TypeInv => TypeOK
  BY DEF TypeInv
<1> QED BY <1>1, TypeInvariance, PTL

-----------------------------------------------------------------------------
(* One round at a time, in order.                                          *)

(* While a match.created is being handled it is not acked.                 *)
SetupHolds == setup # "idle" => created = "delivered"

OrderInv == SetupHolds /\ OneRoundAtATime /\ RoundsInOrder

(* A step that touches nothing OrderInv speaks of, but for goroutines that *)
(* stop carrying a round, or stand on the same side of their question.     *)
LEMMA OrderFrame ==
    ASSUME OrderInv,
           UNCHANGED <<created, setup, completed, asked>>,
           \A g \in Slots : Carries(g)' =>
               /\ Carries(g) /\ thread'[g].round = thread[g].round
               /\ BeforeQuestion(g)' <=> BeforeQuestion(g)
    PROVE  OrderInv'
  BY DEF OrderInv, SetupHolds, OneRoundAtATime, RoundsInOrder

(* Handling match.created keeps the order: only its Ack starts a round,    *)
(* and before it none was asked.                                           *)
LEMMA SetupOrder == TypeInv /\ OrderInv /\ SetupNext => OrderInv'
<1> SUFFICES ASSUME TypeInv, OrderInv, SetupNext PROVE OrderInv'
  OBVIOUS
<1> USE DEF OrderInv, SetupHolds, OneRoundAtATime, RoundsInOrder, Carries,
            BeforeQuestion
<1>1. CASE SetupDeliver
  BY <1>1 DEF SetupDeliver
<1>2. CASE SetupSelect
  BY <1>2 DEF SetupSelect
<1>3. CASE SetupPush
  BY <1>3 DEF SetupPush
<1>4. CASE SetupStore
  BY <1>4 DEF SetupStore
<1>5. CASE SetupRound
  BY <1>5 DEF SetupRound
<1>6. CASE SetupAck
  <2>1. /\ created' = "acked" /\ setup' = "idle" /\ asked = <<>>
        /\ completed = <<>> /\ UNCHANGED <<asked, completed>>
        /\ \A g \in Slots : ~ Carries(g)
    BY <1>6 DEF SetupAck
  <2>2. PICK g \in Slots :
          /\ thread'[g].at = "sleep" /\ thread'[g].round = 1
          /\ \A s \in Threads \ {g} : thread'[s] = thread[s]
    BY <1>6, SpawnThread, RoundsAssumption DEF SetupAck, TypeInv, TypeOK
  <2>3. \A s \in Slots \ {g} : thread'[s] = thread[s]
    BY <2>2 DEF Threads
  <2>4. Len(asked) = 0
    BY <2>1
  <2> QED BY <2>1, <2>2, <2>3, <2>4
<1> QED BY <1>1, <1>2, <1>3, <1>4, <1>5, <1>6 DEF SetupNext

(* A round moves on, is asked, or hands over to its round.completed.       *)
LEMMA RoundOrder ==
    ASSUME TypeInv, OrderInv, NEW g \in Slots, RoundNext(g)
    PROVE  OrderInv'
<1>a. /\ thread \in [Threads -> ThreadState] /\ g \in Threads
      /\ Slots \subseteq Threads
      /\ {"load", "announce", "arm", "timer", "closing", "result",
          "complete", "end"} \subseteq ThreadAt
  BY DEF TypeInv, TypeOK, Threads, ThreadAt
<1> USE DEF Carries, BeforeQuestion
<1>1. CASE StartCheck(g)
  BY <1>1, <1>a, GotoThread, ExitThread, OrderFrame DEF StartCheck
<1>2. CASE StartLoad(g)
  <2>1. CASE Goto(g, "announce")
    BY <1>2, <2>1, <1>a, GotoThread, OrderFrame DEF StartLoad
  <2>2. CASE ~ Goto(g, "announce")
    <3> DEFINE n == IF loaded = 0 THEN 0 ELSE Rounds
    <3>1. n \in Signals
      BY RoundsAssumption DEF Signals
    <3>2. thread' = SentTo(g, "end", n)
      BY <1>2, <2>2 DEF StartLoad, SentTo
    <3> HIDE DEF n
    <3>3. /\ thread'[g].at = "end"
          /\ \A s \in Threads \ {g} : thread'[s] = thread[s]
      BY <3>1, <3>2, <1>a, SignalThread
    <3> QED BY <1>2, <3>3, <1>a, OrderFrame DEF StartLoad
  <2> QED BY <2>1, <2>2
<1>3. CASE StartAnnounce(g)
  <2>1. /\ thread[g].at = "announce" /\ thread'[g].at = "arm"
        /\ thread'[g].round = thread[g].round
        /\ \A s \in Threads \ {g} : thread'[s] = thread[s]
    BY <1>3, <1>a, GotoThread DEF StartAnnounce
  <2>2. /\ created = "acked" /\ completed = <<>>
        /\ thread[g].round = Len(asked) + 1
        /\ \A h \in Slots \ {g} : ~ Carries(h)
    BY <2>1 DEF OrderInv, OneRoundAtATime
  <2>3. asked' = Append(asked, Len(asked) + 1) /\ asked \in Seq(1..Rounds)
    BY <1>3, <2>2 DEF StartAnnounce, TypeInv, TypeOK
  <2>4. Len(asked') = Len(asked) + 1 /\ RoundsInOrder'
    BY <2>3 DEF OrderInv, RoundsInOrder
  <2>5. UNCHANGED <<created, setup, completed>>
    BY <1>3 DEF StartAnnounce, setupVars
  <2> QED BY <1>a, <2>1, <2>2, <2>4, <2>5
          DEF OrderInv, SetupHolds, OneRoundAtATime
<1>4. CASE StartArm(g)
  BY <1>4, <1>a, GotoThread, OrderFrame DEF StartArm
<1>5. CASE TimerFires(g)
  BY <1>5, <1>a, GotoThread, OrderFrame DEF TimerFires
<1>6. CASE CloseTry(g)
  BY <1>6, <1>a, GotoThread, ExitThread, OrderFrame DEF CloseTry
<1>7. CASE CloseResult(g)
  BY <1>7, <1>a, GotoThread, ExitThread, OrderFrame DEF CloseResult
<1>8. CASE CloseComplete(g)
  <2>1. /\ thread[g].at = "complete" /\ ~ Carries(g)'
        /\ \A s \in Threads \ {g} : thread'[s] = thread[s]
        /\ completed' \in {completed, Append(completed, thread[g].round)}
        /\ UNCHANGED <<created, setup, asked>>
    BY <1>8, <1>a, ExitThread DEF CloseComplete, CompleteWith, setupVars
  <2>2. /\ created = "acked" /\ completed = <<>>
        /\ thread[g].round = Len(asked)
        /\ \A h \in Slots \ {g} : ~ Carries(h)
    BY <2>1 DEF OrderInv, OneRoundAtATime
  <2>3. completed' \in {<<>>, <<Len(asked)>>}
    BY <2>1, <2>2
  <2> QED BY <1>a, <2>1, <2>2, <2>3
          DEF OrderInv, SetupHolds, OneRoundAtATime, RoundsInOrder
<1> QED BY <1>1, <1>2, <1>3, <1>4, <1>5, <1>6, <1>7, <1>8 DEF RoundNext

(* consumeRoundCompleted passes the match on: the message it takes away is *)
(* the only one, and the round it spawns the next.                         *)
LEMMA ConsumeOrder == TypeInv /\ OrderInv /\ ConsumeCompleted => OrderInv'
<1> SUFFICES ASSUME TypeInv, OrderInv, ConsumeCompleted PROVE OrderInv'
  OBVIOUS
<1>a. /\ thread \in [Threads -> ThreadState] /\ Slots \subseteq Threads
      /\ Consumer \notin Slots
  BY ThreadsAssumption DEF TypeInv, TypeOK, Threads
<1> USE DEF Carries, BeforeQuestion
<1>1. /\ created = "acked" /\ completed = <<Len(asked)>>
      /\ \A g \in Slots : ~ Carries(g)
  BY DEF ConsumeCompleted, ConsumeWith, OrderInv, OneRoundAtATime
<1>2. /\ completed' = <<>> /\ Advance(Len(asked), Len(asked) + 1)
      /\ UNCHANGED <<created, setup, asked>>
  BY <1>1 DEF ConsumeCompleted, ConsumeWith, setupVars
<1>3. \/ \A g \in Slots : ~ Carries(g)'
      \/ \E g \in Slots : /\ thread'[g].at = "sleep"
                          /\ thread'[g].round = Len(asked) + 1
                          /\ \A h \in Slots \ {g} : ~ Carries(h)'
  <2>1. CASE Len(asked) < Rounds /\ Spawn(thread, Len(asked) + 1)
    <3>1. Len(asked) + 1 \in 1..Rounds
      BY <2>1, RoundsAssumption DEF TypeInv, TypeOK
    <3>2. PICK g \in Slots :
            /\ thread'[g].at = "sleep" /\ thread'[g].round = Len(asked) + 1
            /\ \A s \in Threads \ {g} : thread'[s] = thread[s]
      BY <1>a, <2>1, <3>1, SpawnThread
    <3> QED BY <1>1, <1>a, <3>2
  <2>2. CASE ~ (Len(asked) < Rounds /\ Spawn(thread, Len(asked) + 1))
    <3>1. \A g \in Slots : thread'[g] = thread[g]
      BY <1>2, <1>a, <2>2 DEF Advance, Finishing
    <3> QED BY <1>1, <3>1
  <2> QED BY <2>1, <2>2
<1> QED BY <1>1, <1>2, <1>3
        DEF OrderInv, SetupHolds, OneRoundAtATime, RoundsInOrder

(* Finishing the match starts no round.                                    *)
LEMMA FinishOrder ==
    ASSUME TypeInv, OrderInv, NEW t \in Threads, FinishNext(t)
    PROVE  OrderInv'
<1>a. /\ thread \in [Threads -> ThreadState] /\ Slots \subseteq Threads
      /\ {"publish", "cleanup"} \subseteq ThreadAt
  BY DEF TypeInv, TypeOK, Threads, ThreadAt
<1> USE DEF Carries, BeforeQuestion
<1>1. CASE FinishEnd(t)
  BY <1>1, <1>a, GotoThread, OrderFrame DEF FinishEnd
<1>2. CASE FinishPublish(t)
  BY <1>2, <1>a, GotoThread, OrderFrame DEF FinishPublish
<1>3. CASE FinishCleanup(t)
  BY <1>3, <1>a, ExitThread, OrderFrame DEF FinishCleanup
<1> QED BY <1>1, <1>2, <1>3 DEF FinishNext

(* A player who comes or goes starts no round either; the last ones to go  *)
(* stop the timer.                                                         *)
LEMMA StreamOrder ==
    ASSUME TypeInv, OrderInv, NEW c \in Conns, StreamNext(c)
    PROVE  OrderInv'
<1>a. /\ thread \in [Threads -> ThreadState] /\ Slots \subseteq Threads
      /\ c \in Threads /\ c \notin Slots
      /\ {"open", "count", "end"} \subseteq ThreadAt
  BY ThreadsAssumption DEF TypeInv, TypeOK, Threads, ThreadAt
<1> USE DEF Carries, BeforeQuestion
<1>1. ASSUME NEW p \in Players, StreamOpen(c, p) PROVE OrderInv'
  BY <1>1, <1>a, GotoThread, OrderFrame DEF StreamOpen
<1>2. CASE StreamEnd(c)
  BY <1>2, <1>a, GotoThread, OrderFrame DEF StreamEnd
<1>3. CASE StreamCount(c)
  BY <1>3, <1>a, CountThread, OrderFrame DEF StreamCount, Idle
<1>4. CASE StreamAsk(c)
  BY <1>4, <1>a, GotoThread, ExitThread, OrderFrame DEF StreamAsk
<1> QED BY <1>1, <1>2, <1>3, <1>4 DEF StreamNext

(* The order of the rounds is inductive given the types.                   *)
LEMMA OrderInvariance == Spec => []OrderInv
<1>1. Init => OrderInv
  BY DEF Init, Idle, Threads, OrderInv, SetupHolds, OneRoundAtATime,
         RoundsInOrder, Carries
<1>2. TypeInv /\ OrderInv /\ [Next]_vars => OrderInv'
  <2> SUFFICES ASSUME TypeInv, OrderInv, [Next]_vars PROVE OrderInv'
    OBVIOUS
  <2>1. CASE SetupNext
    BY <2>1, SetupOrder
  <2>2. ASSUME NEW g \in Slots, RoundNext(g) PROVE OrderInv'
    BY <2>2, RoundOrder
  <2>3. CASE ConsumeCompleted
    BY <2>3, ConsumeOrder
  <2>4. ASSUME NEW t \in Threads, FinishNext(t) PROVE OrderInv'
    BY <2>4, FinishOrder
  <2>5. ASSUME NEW c \in Conns, StreamNext(c) PROVE OrderInv'
    BY <2>5, StreamOrder
  <2>6. SendPanics \/ Crash => Restart
    BY DEF SendPanics, Crash
  <2>7. CASE Restart
    <3>1. \A g \in Slots : ~ Carries(g)'
      BY <2>7, RestartThread DEF Carries, Threads, TypeInv, TypeOK
    <3> QED BY <2>7, <3>1
            DEF Restart, OrderInv, SetupHolds, OneRoundAtATime, RoundsInOrder
  <2>8. CASE UNCHANGED vars
    BY <2>8, OrderFrame DEF vars, Carries, BeforeQuestion
  <2> QED BY <2>1, <2>2, <2>3, <2>4, <2>5, <2>6, <2>7, <2>8 DEF Next
<1> QED BY <1>1, <1>2, TypeInvariance, PTL DEF Spec

(* Players are asked round 1, 2, 3, ... each once, and the match is never  *)
(* in two rounds at a time: whoever connects or leaves, whatever Redis and *)
(* RabbitMQ refuse, and however often the process restarts.                *)
THEOREM RoundSafety == Spec => [](OneRoundAtATime /\ RoundsInOrder)
<1>1. OrderInv => OneRoundAtATime /\ RoundsInOrder
  BY DEF OrderInv
<1> QED BY <1>1, OrderInvariance, PTL

(* One goroutine, timer or message carries the match at a time, with the   *)
(* round that the questions asked so far call for.                         *)
COROLLARY OneCarrier == Spec => []OneRoundAtATime
<1> QED BY RoundSafety, PTL

-----------------------------------------------------------------------------
(* The count of a match.finished.                                          *)

(* Whoever is about to announce the full count has seen the last round.    *)
FullSignal(t) ==
    thread[t].at \in {"ask", "end", "publish"} /\ thread[t].signal = Rounds

SignalTrue == \A t \in Threads : FullSignal(t) => Len(asked) = Rounds

CountInv == SignalTrue /\ FullCountMeansAllAsked

(* A step after which nobody newly stands before the publication with the  *)
(* full count, but truthfully, and that asks nothing after the last round. *)
LEMMA CountFrame ==
    ASSUME CountInv, UNCHANGED finished,
           Len(asked) = Rounds => UNCHANGED asked,
           \A t \in Threads :
               FullSignal(t)' => FullSignal(t) \/ Len(asked') = Rounds
    PROVE  CountInv'
  BY DEF CountInv, SignalTrue, FullCountMeansAllAsked

(* Only consumeRoundCompleted sends a full count on its way, for the last  *)
(* round's message; a round past the last is never started.                *)
LEMMA RoundCount ==
    ASSUME TypeInv, OrderInv, CountInv, NEW g \in Slots, RoundNext(g)
    PROVE  CountInv'
<1>a. /\ thread \in [Threads -> ThreadState] /\ g \in Threads
      /\ {"load", "announce", "arm", "timer", "closing", "result",
          "complete", "end"} \subseteq ThreadAt
  BY DEF TypeInv, TypeOK, Threads, ThreadAt
<1>b. Carries(g) => thread[g].round \in 1..Rounds
  BY DEF TypeInv, RoundBound
<1> USE DEF FullSignal
<1>1. CASE StartCheck(g)
  BY <1>1, <1>a, GotoThread, ExitThread, CountFrame DEF StartCheck
<1>2. CASE StartLoad(g)
  <2>1. CASE Goto(g, "announce")
    BY <1>2, <2>1, <1>a, GotoThread, CountFrame DEF StartLoad
  <2>2. CASE ~ Goto(g, "announce")
    <3>1. loaded = 0
      BY <1>2, <2>2, <1>b, RoundsAssumption DEF StartLoad, Carries
    <3>2. thread' = SentTo(g, "end", 0)
      BY <1>2, <2>2, <3>1 DEF StartLoad, SentTo
    <3>3. /\ thread'[g].signal = 0
          /\ \A s \in Threads \ {g} : thread'[s] = thread[s]
      BY <3>2, <1>a, SignalThread, RoundsAssumption DEF Signals
    <3> QED BY <1>2, <3>3, CountFrame, RoundsAssumption DEF StartLoad
  <2> QED BY <2>1, <2>2
<1>3. CASE StartAnnounce(g)
  <2>1. Len(asked) # Rounds
    BY <1>3, <1>b, RoundsAssumption
       DEF StartAnnounce, Carries, BeforeQuestion, OrderInv, OneRoundAtATime,
           TypeInv, TypeOK
  <2> QED BY <1>3, <2>1, <1>a, GotoThread, CountFrame DEF StartAnnounce
<1>4. CASE StartArm(g)
  BY <1>4, <1>a, GotoThread, CountFrame DEF StartArm
<1>5. CASE TimerFires(g)
  BY <1>5, <1>a, GotoThread, CountFrame DEF TimerFires
<1>6. CASE CloseTry(g)
  BY <1>6, <1>a, GotoThread, ExitThread, CountFrame DEF CloseTry
<1>7. CASE CloseResult(g)
  BY <1>7, <1>a, GotoThread, ExitThread, CountFrame DEF CloseResult
<1>8. CASE CloseComplete(g)
  BY <1>8, <1>a, ExitThread, CountFrame DEF CloseComplete, CompleteWith
<1> QED BY <1>1, <1>2, <1>3, <1>4, <1>5, <1>6, <1>7, <1>8 DEF RoundNext

(* The consumer's full count comes from the message of the last round.     *)
LEMMA ConsumeCount ==
    TypeInv /\ OrderInv /\ CountInv /\ ConsumeCompleted => CountInv'
<1> SUFFICES ASSUME TypeInv, OrderInv, CountInv, ConsumeCompleted
             PROVE  CountInv'
  OBVIOUS
<1>a. thread \in [Threads -> ThreadState] /\ Consumer \in Threads
  BY DEF TypeInv, TypeOK, Threads
<1> USE DEF FullSignal
<1>1. completed = <<Len(asked)>> /\ Len(asked) \in 1..Rounds
  <2>1. completed = <<Len(asked)>> /\ completed \in Seq(1..Rounds)
    BY DEF ConsumeCompleted, ConsumeWith, OrderInv, OneRoundAtATime, TypeInv,
           TypeOK
  <2>2. Head(completed) \in 1..Rounds
    BY <2>1
  <2> QED BY <2>1, <2>2
<1>2. Advance(Len(asked), Len(asked) + 1) /\ UNCHANGED <<asked, finished>>
  BY <1>1 DEF ConsumeCompleted, ConsumeWith
<1>3. CASE UNCHANGED thread
  BY <1>2, <1>3, CountFrame
<1>4. CASE Len(asked) < Rounds /\ Spawn(thread, Len(asked) + 1)
  <2>1. Len(asked) + 1 \in 1..Rounds
    BY <1>1, <1>4, RoundsAssumption
  <2>2. PICK g \in Slots :
          /\ thread'[g].at = "sleep"
          /\ \A s \in Threads \ {g} : thread'[s] = thread[s]
    BY <1>a, <1>4, <2>1, SpawnThread
  <2> QED BY <1>2, <2>2, CountFrame
<1>5. CASE /\ Len(asked) >= Rounds
           /\ thread' = [thread EXCEPT ![Consumer] =
                [at |-> "end", round |-> Len(asked), signal |-> Len(asked)]]
  <2>1. Len(asked) = Rounds
    BY <1>1, <1>5, RoundsAssumption
  <2> QED BY <1>2, <2>1, CountFrame
<1> QED BY <1>2, <1>3, <1>4, <1>5 DEF Advance, Finishing

(* A match.finished that claims the full number of rounds follows the last *)
(* question, whatever failed and whoever left.                             *)
THEOREM CountSafety == Spec => []FullCountMeansAllAsked
<1>1. Init => CountInv
  BY RoundsAssumption
     DEF Init, Idle, Threads, CountInv, SignalTrue, FullSignal,
         FullCountMeansAllAsked
<1>2. TypeInv /\ OrderInv /\ CountInv /\ [Next]_vars => CountInv'
  <2> SUFFICES ASSUME TypeInv, OrderInv, CountInv, [Next]_vars PROVE CountInv'
    OBVIOUS
  <2>a. thread \in [Threads -> ThreadState]
    BY DEF TypeInv, TypeOK
  <2> USE DEF FullSignal
  <2>1. CASE SetupNext
    <3>1. CASE SetupAck
      <4>1. PICK g \in Slots :
              /\ thread'[g].at = "sleep"
              /\ \A s \in Threads \ {g} : thread'[s] = thread[s]
        BY <2>a, <3>1, SpawnThread, RoundsAssumption DEF SetupAck
      <4> QED BY <3>1, <4>1, CountFrame DEF SetupAck
    <3>2. CASE ~ SetupAck
      BY <2>1, <3>2, CountFrame
         DEF SetupNext, SetupDeliver, SetupSelect, SetupPush, SetupStore,
             SetupRound
    <3> QED BY <3>1, <3>2
  <2>2. ASSUME NEW g \in Slots, RoundNext(g) PROVE CountInv'
    BY <2>2, RoundCount
  <2>3. CASE ConsumeCompleted
    BY <2>3, ConsumeCount
  <2>4. ASSUME NEW t \in Threads, FinishNext(t) PROVE CountInv'
    <3>a. {"publish", "cleanup"} \subseteq ThreadAt
      BY DEF ThreadAt
    <3>1. CASE FinishEnd(t)
      BY <2>a, <3>a, <3>1, GotoThread, CountFrame DEF FinishEnd
    <3>2. CASE FinishPublish(t)
      <4>1. /\ thread[t].at = "publish" /\ UNCHANGED asked
            /\ finished' \in {finished, Append(finished, thread[t].signal)}
            /\ \A s \in Threads : FullSignal(s)' => FullSignal(s)
        BY <2>a, <3>a, <3>2, GotoThread DEF FinishPublish
      <4>2. \A i \in 1..Len(finished') :
               finished'[i] = Rounds => Len(asked) = Rounds
        <5>1. /\ finished \in Seq(Signals) /\ t \in Threads
              /\ \A i \in 1..Len(finished) :
                    finished[i] = Rounds => Len(asked) = Rounds
              /\ thread[t].signal = Rounds => Len(asked) = Rounds
          BY <4>1 DEF CountInv, SignalTrue, FullCountMeansAllAsked, TypeInv,
                      TypeOK
        <5>2. CASE finished' = finished
          BY <5>1, <5>2
        <5>3. CASE finished' = Append(finished, thread[t].signal)
          <6> DEFINE n == thread[t].signal
          <6>1. finished' = Append(finished, n)
            BY <5>3
          <6> HIDE DEF n
          <6>2. \A i \in 1..Len(finished') :
                   finished'[i] = IF i = Len(finished) + 1 THEN n
                                                          ELSE finished[i]
            BY <5>1, <6>1
          <6>3. Len(finished') = Len(finished) + 1 /\ Len(finished) \in Nat
            BY <5>1, <6>1
          <6> QED BY <5>1, <6>2, <6>3 DEF n
        <5> QED BY <4>1, <5>2, <5>3
      <4> QED BY <4>1, <4>2
              DEF CountInv, SignalTrue, FullCountMeansAllAsked
    <3>3. CASE FinishCleanup(t)
      BY <2>a, <3>3, ExitThread, CountFrame DEF FinishCleanup
    <3> QED BY <2>4, <3>1, <3>2, <3>3 DEF FinishNext
  <2>5. ASSUME NEW c \in Conns, StreamNext(c) PROVE CountInv'
    <3>a. c \in Threads /\ {"open", "count", "end"} \subseteq ThreadAt
      BY DEF Threads, ThreadAt
    <3>1. ASSUME NEW p \in Players, StreamOpen(c, p) PROVE CountInv'
      BY <2>a, <3>a, <3>1, GotoThread, CountFrame DEF StreamOpen
    <3>2. CASE StreamEnd(c)
      BY <2>a, <3>a, <3>2, GotoThread, CountFrame DEF StreamEnd
    <3>3. CASE StreamCount(c)
      <4>1. /\ thread'[c].signal # Rounds
            /\ \A s \in Threads \ {c} : thread'[s] \in {thread[s], Idle}
        BY <3>3, CountThread, RoundsAssumption
      <4>2. Idle.at = "idle"
        BY DEF Idle
      <4>3. \A s \in Threads : FullSignal(s)' => FullSignal(s)
        BY <4>1, <4>2
      <4> QED BY <3>3, <4>3, CountFrame DEF StreamCount
    <3>4. CASE StreamAsk(c)
      BY <2>a, <3>a, <3>4, GotoThread, ExitThread, CountFrame DEF StreamAsk
    <3> QED BY <2>5, <3>1, <3>2, <3>3, <3>4 DEF StreamNext
  <2>6. SendPanics \/ Crash => Restart
    BY DEF SendPanics, Crash
  <2>7. CASE Restart
    BY <2>7, <2>a, RestartThread, CountFrame DEF Restart
  <2>8. CASE UNCHANGED vars
    BY <2>8, CountFrame DEF vars
  <2> QED BY <2>1, <2>2, <2>3, <2>4, <2>5, <2>6, <2>7, <2>8 DEF Next
<1>3. CountInv => FullCountMeansAllAsked
  BY DEF CountInv
<1> QED BY <1>1, <1>2, <1>3, TypeInvariance, OrderInvariance, PTL DEF Spec

-----------------------------------------------------------------------------
(* How often the match is finished while every stream stays open.          *)

Stays == \A c \in Conns : thread[c].at \in {"idle", "open"}

(* A goroutine that has yet to publish match.finished.                     *)
Ending(t) == thread[t].at \in {"end", "publish"}

(* No goroutine, timer or message carries the match any more.              *)
Over == /\ created = "acked" /\ completed = <<>>
        /\ \A g \in Slots : ~ Carries(g)

(* Whoever finishes the match is what carried it, so nothing else does,    *)
(* before the publication and after.                                       *)
EndInv ==
    Stays => /\ \A t \in Threads : Ending(t) => Over
             /\ \A s, t \in Threads : Ending(s) /\ Ending(t) => s = t
             /\ Len(finished) <= 1
             /\ finished # <<>> => Over /\ \A t \in Threads : ~ Ending(t)

(* A step that finishes nothing and after which nobody newly ends.         *)
LEMMA EndFrame ==
    ASSUME EndInv, UNCHANGED finished,
           Stays' => Stays /\ \A t \in Threads : Ending(t)' => Ending(t),
           Over => Over'
    PROVE  EndInv'
<1> HIDE DEF Stays, Over, Ending
<1> QED BY DEF EndInv

(* A step of what carries the match, which alone may end it.               *)
LEMMA CarrierFrame ==
    ASSUME EndInv, ~ Over, UNCHANGED finished, NEW g \in Threads,
           Stays' => Stays,
           \A t \in Threads \ {g} : thread'[t] = thread[t],
           Ending(g)' => Over'
    PROVE  EndInv'
<1> SUFFICES ASSUME Stays' PROVE EndInv'
  BY DEF EndInv
<1>1. finished = <<>> /\ \A t \in Threads : ~ Ending(t)
  BY DEF EndInv
<1>2. \A t \in Threads \ {g} : ~ Ending(t)'
  BY <1>1 DEF Ending
<1>3. Len(finished') <= 1 /\ finished' = <<>>
  BY <1>1
<1> HIDE DEF Stays, Over, Ending
<1> QED BY <1>2, <1>3 DEF EndInv

(* What is done to slots and consumer ends no stream.                      *)
LEMMA OthersStay ==
    ASSUME \A t \in Conns : thread'[t] = thread[t]
    PROVE  Stays' => Stays
BY DEF Stays

(* Handling match.created: nothing is over before its Ack.                 *)
LEMMA SetupEnd == TypeInv /\ OrderInv /\ EndInv /\ SetupNext => EndInv'
<1> SUFFICES ASSUME TypeInv, OrderInv, EndInv, SetupNext PROVE EndInv'
  OBVIOUS
<1>1. UNCHANGED finished /\ ~ Over
  BY DEF SetupNext, SetupDeliver, SetupSelect, SetupPush, SetupStore, SetupRound,
         SetupAck, OrderInv, SetupHolds, Over
<1>2. CASE UNCHANGED thread
  BY <1>1, <1>2, EndFrame DEF Stays, Ending
<1>3. CASE SetupAck
  <2>1. PICK g \in Slots :
          /\ thread'[g].at = "sleep"
          /\ \A s \in Threads \ {g} : thread'[s] = thread[s]
    BY <1>3, SpawnThread, RoundsAssumption DEF SetupAck, TypeInv, TypeOK
  <2>2. g \in Threads /\ Conns \subseteq Threads \ {g} /\ ~ Ending(g)'
    BY <2>1, ThreadsAssumption DEF Threads, Ending
  <2> QED BY <1>1, <2>1, <2>2, CarrierFrame, OthersStay
<1> QED BY <1>2, <1>3
        DEF SetupNext, SetupDeliver, SetupSelect, SetupPush, SetupStore, SetupRound

(* A round, its timer and its end: startRound may find the room gone and   *)
(* finish the match; then nothing carries it any more.                     *)
LEMMA RoundEnd ==
    ASSUME TypeInv, OrderInv, EndInv, NEW g \in Slots, RoundNext(g)
    PROVE  EndInv'
<1>a. /\ thread \in [Threads -> ThreadState] /\ g \in Threads
      /\ Conns \subseteq Threads \ {g} /\ Slots \subseteq Threads
      /\ {"load", "announce", "arm", "timer", "closing", "result",
          "complete", "end"} \subseteq ThreadAt
  BY ThreadsAssumption DEF TypeInv, TypeOK, Threads, ThreadAt
<1>b. /\ Carries(g) /\ UNCHANGED finished
  BY DEF RoundNext, StartCheck, StartLoad, StartAnnounce, StartArm, TimerFires,
         CloseTry, CloseResult, CloseComplete, CompleteWith, Carries
<1>c. ~ Over
  BY <1>b DEF Over
<1>1. ASSUME NEW l \in ThreadAt, l \notin {"end", "publish"},
             Goto(g, l) \/ Exit(g)
      PROVE  EndInv'
  <2>1. /\ ~ Ending(g)'
        /\ \A s \in Threads \ {g} : thread'[s] = thread[s]
    BY <1>a, <1>1, GotoThread, ExitThread DEF Ending
  <2> QED BY <1>a, <1>b, <1>c, <2>1, CarrierFrame, OthersStay
<1>2. CASE StartLoad(g) /\ ~ Goto(g, "announce")
  <2> DEFINE n == IF loaded = 0 THEN 0 ELSE Rounds
  <2>1. n \in Signals
    BY RoundsAssumption DEF Signals
  <2>2. thread' = SentTo(g, "end", n)
    BY <1>2 DEF StartLoad, SentTo
  <2> HIDE DEF n
  <2>3. /\ thread'[g].at = "end"
        /\ \A s \in Threads \ {g} : thread'[s] = thread[s]
    BY <1>a, <2>1, <2>2, SignalThread
  <2>4. Over'
    <3>1. /\ created = "acked" /\ completed = <<>>
          /\ \A h \in Slots \ {g} : ~ Carries(h)
      BY <1>b DEF OrderInv, OneRoundAtATime
    <3>2. UNCHANGED <<created, completed>>
      BY <1>2 DEF StartLoad, setupVars
    <3>3. \A h \in Slots : ~ Carries(h)'
      BY <1>a, <2>3, <3>1 DEF Carries
    <3> QED BY <3>1, <3>2, <3>3 DEF Over
  <2> QED BY <1>a, <1>b, <1>c, <2>3, <2>4, CarrierFrame, OthersStay
<1>3. CASE StartCheck(g)
  BY <1>1, <1>3, <1>a DEF StartCheck
<1>4. CASE StartLoad(g)
  BY <1>1, <1>2, <1>4, <1>a
<1>5. CASE StartAnnounce(g)
  BY <1>1, <1>5, <1>a DEF StartAnnounce
<1>6. CASE StartArm(g)
  BY <1>1, <1>6, <1>a DEF StartArm
<1>7. CASE TimerFires(g)
  BY <1>1, <1>7, <1>a DEF TimerFires
<1>8. CASE CloseTry(g)
  BY <1>1, <1>8, <1>a DEF CloseTry
<1>9. CASE CloseResult(g)
  BY <1>1, <1>9, <1>a DEF CloseResult
<1>10. CASE CloseComplete(g)
  BY <1>1, <1>10, <1>a DEF CloseComplete, CompleteWith
<1> QED BY <1>3, <1>4, <1>5, <1>6, <1>7, <1>8, <1>9, <1>10 DEF RoundNext

(* round.completed is taken away: the next round carries the match on, or  *)
(* the consumer finishes it.                                               *)
LEMMA ConsumeEnd == TypeInv /\ OrderInv /\ EndInv /\ ConsumeCompleted => EndInv'
<1> SUFFICES ASSUME TypeInv, OrderInv, EndInv, ConsumeCompleted PROVE EndInv'
  OBVIOUS
<1>a. /\ thread \in [Threads -> ThreadState] /\ Consumer \in Threads
      /\ Conns \subseteq Threads \ {Consumer} /\ Slots \subseteq Threads \ {Consumer}
      /\ Slots \cap Conns = {}
  BY ThreadsAssumption DEF TypeInv, TypeOK, Threads
<1>1. /\ completed = <<Len(asked)>> /\ Len(asked) \in 1..Rounds
      /\ created = "acked" /\ \A g \in Slots : ~ Carries(g)
  <2>1. /\ completed = <<Len(asked)>> /\ completed \in Seq(1..Rounds)
        /\ created = "acked" /\ \A g \in Slots : ~ Carries(g)
    BY DEF ConsumeCompleted, ConsumeWith, OrderInv, OneRoundAtATime, TypeInv,
           TypeOK
  <2>2. Head(completed) \in 1..Rounds
    BY <2>1
  <2> QED BY <2>1, <2>2
<1>2. /\ Advance(Len(asked), Len(asked) + 1) /\ completed' = <<>>
      /\ UNCHANGED <<created, asked, finished>>
  BY <1>1 DEF ConsumeCompleted, ConsumeWith, setupVars
<1>3. ~ Over
  BY <1>1 DEF Over
<1>4. CASE UNCHANGED thread
  BY <1>2, <1>3, <1>4, EndFrame DEF Stays, Ending
<1>5. CASE Len(asked) < Rounds /\ Spawn(thread, Len(asked) + 1)
  <2>1. Len(asked) + 1 \in 1..Rounds
    BY <1>1, <1>5, RoundsAssumption
  <2>2. PICK g \in Slots :
          /\ thread'[g].at = "sleep"
          /\ \A s \in Threads \ {g} : thread'[s] = thread[s]
    BY <1>a, <1>5, <2>1, SpawnThread
  <2>3. g \in Threads /\ Conns \subseteq Threads \ {g} /\ ~ Ending(g)'
    BY <1>a, <2>2 DEF Ending
  <2> QED BY <1>2, <1>3, <2>2, <2>3, CarrierFrame, OthersStay
<1>6. CASE thread' = [thread EXCEPT ![Consumer] =
                [at |-> "end", round |-> Len(asked), signal |-> Len(asked)]]
  <2>1. \A s \in Threads \ {Consumer} : thread'[s] = thread[s]
    BY <1>a, <1>6
  <2>2. Over'
    BY <1>a, <1>1, <1>2, <2>1 DEF Over, Carries
  <2> QED BY <1>a, <1>2, <1>3, <2>1, <2>2, CarrierFrame, OthersStay
<1> QED BY <1>2, <1>4, <1>5, <1>6 DEF Advance, Finishing

(* finishMatch publishes once, for whoever runs it.                        *)
LEMMA FinishEnds ==
    ASSUME TypeInv, EndInv, NEW t \in Threads, FinishNext(t)
    PROVE  EndInv'
<1>a. /\ thread \in [Threads -> ThreadState] /\ Slots \subseteq Threads
      /\ {"publish", "cleanup"} \subseteq ThreadAt /\ Conns \subseteq Threads
      /\ finished \in Seq(Signals)
  BY DEF TypeInv, TypeOK, Threads, ThreadAt
<1>1. /\ UNCHANGED <<created, completed>>
      /\ thread[t].at \in {"end", "publish", "cleanup"}
  BY DEF FinishNext, FinishEnd, FinishPublish, FinishCleanup, setupVars
<1>2. /\ \A s \in Threads \ {t} : thread'[s] = thread[s]
      /\ thread'[t].at \in {"publish", "cleanup", "idle", "gone"}
      /\ t \in Conns => thread'[t].at # "idle"
  BY <1>a, GotoThread, ExitThread
     DEF FinishNext, FinishEnd, FinishPublish, FinishCleanup
<1>3. Stays' => Stays
  BY <1>a, <1>2 DEF Stays
<1>4. Over => Over'
  BY <1>a, <1>1, <1>2 DEF Over, Carries
<1>5. CASE FinishEnd(t) \/ FinishCleanup(t)
  <2>1. UNCHANGED finished
    BY <1>5 DEF FinishEnd, FinishCleanup
  <2>2. Ending(t)' => Ending(t)
    BY <1>a, <1>5, GotoThread, ExitThread DEF FinishEnd, FinishCleanup, Ending
  <2>3. \A s \in Threads : Ending(s)' => Ending(s)
    BY <1>2, <2>2 DEF Ending
  <2> QED BY <1>3, <1>4, <2>1, <2>3, EndFrame
<1>6. CASE FinishPublish(t)
  <2> SUFFICES ASSUME Stays' PROVE EndInv'
    BY DEF EndInv
  <2>1. Ending(t) /\ thread'[t].at = "cleanup"
    BY <1>a, <1>6, GotoThread DEF FinishPublish, Ending
  <2>2. Over /\ finished = <<>> /\ \A s \in Threads \ {t} : ~ Ending(s)
    BY <1>3, <2>1 DEF EndInv
  <2>3. \A s \in Threads : ~ Ending(s)'
    BY <1>2, <2>1, <2>2 DEF Ending
  <2>4. Len(finished') <= 1
    <3>1. Append(finished, thread[t].signal) = <<thread[t].signal>>
      BY <2>2
    <3>2. CASE finished' = <<>>
      BY <3>2
    <3>3. CASE finished' = <<thread[t].signal>>
      BY <3>3
    <3> QED BY <1>6, <2>2, <3>1, <3>2, <3>3 DEF FinishPublish
  <2> HIDE DEF Stays, Over, Ending
  <2> QED BY <1>4, <2>2, <2>3, <2>4 DEF EndInv
<1> QED BY <1>5, <1>6 DEF FinishNext

(* A stream that ends does not stay; one that opens changes nothing.       *)
LEMMA StreamEnds ==
    ASSUME TypeInv, EndInv, NEW c \in Conns, StreamNext(c)
    PROVE  EndInv'
<1>a. /\ thread \in [Threads -> ThreadState]
      /\ c \in Threads /\ c \notin Slots /\ Slots \subseteq Threads
      /\ Conns \subseteq Threads
      /\ {"open", "count", "end"} \subseteq ThreadAt
  BY ThreadsAssumption DEF TypeInv, TypeOK, Threads, ThreadAt
<1>1. CASE \E p \in Players : StreamOpen(c, p)
  <2>1. /\ thread[c].at = "idle" /\ thread'[c].at = "open"
        /\ \A s \in Threads \ {c} : thread'[s] = thread[s]
        /\ UNCHANGED <<created, completed, finished>>
    BY <1>1, <1>a, GotoThread DEF StreamOpen, setupVars
  <2>2. Stays' => Stays /\ \A t \in Threads : Ending(t)' => Ending(t)
    BY <1>a, <2>1 DEF Stays, Ending
  <2>3. Over => Over'
    BY <1>a, <2>1 DEF Over, Carries
  <2> QED BY <2>1, <2>2, <2>3, EndFrame
<1>2. CASE ~ \E p \in Players : StreamOpen(c, p)
  <2>1. thread'[c].at \in {"count", "ask", "gone", "end"}
    BY <1>2, <1>a, GotoThread, ExitThread, CountThread
       DEF StreamNext, StreamEnd, StreamAsk
  <2>2. ~ Stays'
    BY <2>1 DEF Stays
  <2> QED BY <2>2 DEF EndInv
<1> QED BY <1>1, <1>2

(* While no stream has ended the match is finished at most once, whatever  *)
(* fails and however often the process restarts: what finishes the match   *)
(* is the one goroutine, timer or message that carried it.                 *)
THEOREM FinishedOnce == Spec => []FinishedOnceIfAllStay
<1>1. Init => EndInv
  BY DEF Init, Idle, Threads, EndInv, Ending, Over
<1>2. TypeInv /\ OrderInv /\ EndInv /\ [Next]_vars => EndInv'
  <2> SUFFICES ASSUME TypeInv, OrderInv, EndInv, [Next]_vars PROVE EndInv'
    OBVIOUS
  <2>1. CASE SetupNext
    BY <2>1, SetupEnd
  <2>2. ASSUME NEW g \in Slots, RoundNext(g) PROVE EndInv'
    BY <2>2, RoundEnd
  <2>3. CASE ConsumeCompleted
    BY <2>3, ConsumeEnd
  <2>4. ASSUME NEW t \in Threads, FinishNext(t) PROVE EndInv'
    BY <2>4, FinishEnds
  <2>5. ASSUME NEW c \in Conns, StreamNext(c) PROVE EndInv'
    BY <2>5, StreamEnds
  <2>9. SendPanics \/ Crash => Restart
    BY DEF SendPanics, Crash
  <2>6. CASE UNCHANGED vars
    <3>1. UNCHANGED <<created, completed, thread, finished>>
      BY <2>6 DEF vars, setupVars
    <3>2. Over => Over'
      BY <3>1 DEF Over, Carries
    <3> QED BY <3>1, <3>2, EndFrame DEF Stays, Ending
  <2>7. CASE Restart
    <3>a. /\ Conns \subseteq Threads /\ Slots \subseteq Threads
          /\ thread \in [Threads -> ThreadState]
      BY DEF Threads, TypeInv, TypeOK
    <3>1. UNCHANGED <<completed, finished>> /\ (created = "acked" => created' = "acked")
      BY <2>7 DEF Restart
    <3>2. \A t \in Threads : thread'[t].at \in {"idle", "gone"}
      BY <2>7, <3>a, RestartThread
    <3>3. Stays' => Stays
      <4>1. ASSUME NEW c \in Conns, thread'[c].at \in {"idle", "open"}
            PROVE  thread[c].at = "idle"
        BY <2>7, <3>a, <4>1 DEF Restart, Idle
      <4> QED BY <4>1 DEF Stays
    <3>4. \A t \in Threads : Ending(t)' => Ending(t)
      BY <3>2 DEF Ending
    <3>5. Over => Over'
      BY <3>a, <3>1, <3>2 DEF Over, Carries
    <3> QED BY <3>1, <3>3, <3>4, <3>5, EndFrame
  <2> QED BY <2>1, <2>2, <2>3, <2>4, <2>5, <2>6, <2>7, <2>9 DEF Next
<1>3. EndInv => FinishedOnceIfAllStay
  BY DEF EndInv, Stays, FinishedOnceIfAllStay
<1> QED BY <1>1, <1>2, <1>3, TypeInvariance, OrderInvariance, PTL DEF Spec
=============================================================================

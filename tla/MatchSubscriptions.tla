------------------------- MODULE MatchSubscriptions -------------------------
(***************************************************************************)
(* The SubscribeToMatch streams of services/matchmaking/main.go: the       *)
(* sync.Map `subscribers` (user -> channel) and the handler goroutines     *)
(* that put channels into it, drain them and take them out again.          *)
(*                                                                         *)
(* One element of Streams is one call of SubscribeToMatch with the channel *)
(* it made.  A stream is used once.  The sender of the channels is the     *)
(* poller of module Matchmaking, which extends this module.                *)
(***************************************************************************)
EXTENDS Naturals, Sequences, FiniteSets

CONSTANTS
    Users,       \* the players
    Rooms,       \* room identifiers (uuid.New in createRoom)
    Streams,     \* the SubscribeToMatch calls of a behaviour
    ChanCap,     \* capacity of a subscriber channel, 10 in the code
    None         \* no user, no stream, no room

ASSUME ChanCapAssumption == ChanCap \in Nat \ {0}
ASSUME NoneAssumption == None \notin Users \cup Rooms \cup Streams

VARIABLES
    subscribers, \* the sync.Map: the stream whose channel is stored for a user
    stream,      \* the handler goroutine and its channel
    heard        \* rooms each client has been told about (stream.Send done)

subVars == <<subscribers, stream, heard>>

(* Where a handler stands.  "close": LoadAndDelete done, the old channel   *)
(* not yet closed; "store": before Store; "wait": in the select loop;      *)
(* "return": the loop is left, the deferred Delete is still to run;        *)
(* "dead": the process died under the handler.                             *)
StreamAt == {"unused", "close", "store", "wait", "return", "gone", "dead"}

StreamState == [at     : StreamAt,
                user   : Users \cup {None},
                old    : Streams \cup {None},
                closed : BOOLEAN,
                buf    : Seq(Rooms)]

UnusedStream == [at |-> "unused", user |-> None, old |-> None,
                 closed |-> FALSE, buf |-> <<>>]

SubTypeOK ==
    /\ subscribers \in [Users -> Streams \cup {None}]
    /\ stream \in [Streams -> StreamState]
    /\ heard \in [Users -> SUBSET Rooms]

SubInit ==
    /\ subscribers = [u \in Users |-> None]
    /\ stream = [s \in Streams |-> UnusedStream]
    /\ heard = [u \in Users |-> {}]

-----------------------------------------------------------------------------
(* SubscribeToMatch, one action per access to shared state.                *)

(* A handler that looks the old channel up but leaves it in the map.       *)
SubscribeOpen_LoadOnly(s, u) ==
    /\ stream[s].at = "unused"
    /\ LET old == subscribers[u] IN
         stream' = [stream EXCEPT ![s] =
              [@ EXCEPT !.user = u, !.old = old,
                        !.at = IF old = None THEN "store" ELSE "close"]]
    /\ UNCHANGED <<subscribers, heard>>

(* make(chan) and LoadAndDelete of the channel stored for the user.        *)
SubscribeOpen(s, u) ==
    /\ stream[s].at = "unused"
    /\ LET old == subscribers[u] IN
         /\ stream' = [stream EXCEPT ![s] =
              [@ EXCEPT !.user = u, !.old = old,
                        !.at = IF old = None THEN "store" ELSE "close"]]
         /\ subscribers' = [subscribers EXCEPT ![u] = None]
    /\ UNCHANGED heard

SubscribeCloseOld(s) ==
    /\ stream[s].at = "close"
    /\ stream' = [stream EXCEPT ![s].at = "store",
                                ![stream[s].old].closed = TRUE]
    /\ UNCHANGED <<subscribers, heard>>

SubscribeStore(s) ==
    /\ stream[s].at = "store"
    /\ subscribers' = [subscribers EXCEPT ![stream[s].user] = s]
    /\ stream' = [stream EXCEPT ![s].at = "wait"]
    /\ UNCHANGED heard

(* The select loop receives an event and stream.Send hands it to the       *)
(* client.                                                                 *)
SubscribeDeliver(s) ==
    /\ stream[s].at = "wait"
    /\ stream[s].buf # <<>>
    /\ heard' = [heard EXCEPT ![stream[s].user] = @ \cup {Head(stream[s].buf)}]
    /\ stream' = [stream EXCEPT ![s].buf = Tail(@)]
    /\ UNCHANGED subscribers

(* The channel is closed and drained, so the loop returns.                 *)
SubscribeChannelClosed(s) ==
    /\ stream[s].at = "wait"
    /\ stream[s].closed /\ stream[s].buf = <<>>
    /\ stream' = [stream EXCEPT ![s].at = "return"]
    /\ UNCHANGED <<subscribers, heard>>

(* The client went away: the stream's context is done, or Send failed.     *)
SubscribeClientGone(s) ==
    /\ stream[s].at = "wait"
    /\ stream' = [stream EXCEPT ![s].at = "return"]
    /\ UNCHANGED <<subscribers, heard>>

(* The deferred subscribers.Delete(userID), which deletes by user.         *)
SubscribeReturn(s) ==
    /\ stream[s].at = "return"
    /\ subscribers' = [subscribers EXCEPT ![stream[s].user] = None]
    /\ stream' = [stream EXCEPT ![s].at = "gone"]
    /\ UNCHANGED heard

-----------------------------------------------------------------------------
(* The sender's side, used by createRoom: a select with a default branch.  *)

(* The channel of stream s takes room r, or drops it when it is full.      *)
SendOrDrop(s, r) ==
    stream' = IF Len(stream[s].buf) < ChanCap
                THEN [stream EXCEPT ![s].buf = Append(@, r)]
                ELSE stream

(* The process dies: every handler is gone and the map is empty.           *)
SubCrash ==
    /\ subscribers' = [u \in Users |-> None]
    /\ stream' = [s \in Streams |->
                    IF stream[s].at \in {"unused", "gone"} THEN stream[s]
                    ELSE [UnusedStream EXCEPT !.at = "dead",
                                              !.user = stream[s].user]]
    /\ UNCHANGED heard

SubNext ==
    \E s \in Streams :
        \/ \E u \in Users : SubscribeOpen(s, u)
        \/ SubscribeCloseOld(s)
        \/ SubscribeStore(s)
        \/ SubscribeDeliver(s)
        \/ SubscribeChannelClosed(s)
        \/ SubscribeClientGone(s)
        \/ SubscribeReturn(s)

-----------------------------------------------------------------------------
(* A channel that is in the map, or about to be put there, is open: the    *)
(* handler that replaces a subscription takes the old channel out of the   *)
(* map (LoadAndDelete) before it closes it, so a send can only meet a      *)
(* closed channel in the window between the sender's Load and its send.    *)
RegisteredChannelOpen ==
    /\ \A u \in Users : subscribers[u] # None => ~ stream[subscribers[u]].closed
    /\ \A s \in Streams : stream[s].at \in {"unused", "close", "store"}
                            => ~ stream[s].closed

(* close is called at most once on a channel (a second close panics): no   *)
(* two handlers are about to close the same channel, and none is about to  *)
(* close a channel that is closed already.                                 *)
ClosedOnce ==
    \A s \in Streams : stream[s].at = "close" =>
        /\ ~ stream[stream[s].old].closed
        /\ \A t \in Streams \ {s} :
               stream[t].at = "close" => stream[t].old # stream[s].old

(* No handler of SubscribeToMatch panics on the channels of others.        *)
ChannelSafety == RegisteredChannelOpen /\ ClosedOnce
=============================================================================

----------------------------- MODULE MCScoring -----------------------------
(***************************************************************************)
(* Model-checking instance of MatchHistory.  What is submitted in a        *)
(* behaviour is one of the following, chosen initially; what the services  *)
(* do with it, and their failures, are not restricted.                     *)
(*                                                                         *)
(*   "answers" - three late answers to any round, the second one perhaps   *)
(*               to none of the list; the first one is player 1's (players *)
(*               are equal).  Nothing is asked, as scoring does not look   *)
(*   "history" - two fast answers to the first question, the first one     *)
(*               right, and the ends of the match                          *)
(*   "early"   - after the first question player 2 answers the second one, *)
(*               rightly, and then perhaps the first; the match ends once  *)
(***************************************************************************)
EXTENDS MatchHistory

VARIABLE scenario

MCInit == Init /\ scenario \in {"answers", "history", "early"}

(* Two answers and two ends only while nothing has failed.                 *)
FewEvents == Len(answer') + published' <= 3 \/ faults' = 0

Submitted(elapsed) == \A i \in DOMAIN answer' : answer'[i].elapsed \in elapsed

MCNext ==
    /\ Next
    /\ UNCHANGED scenario
    /\ \/ /\ scenario = "answers"
          /\ asked' = 0 /\ published' = 0 /\ ends' = <<>>
          /\ Submitted({15001})
          /\ answer' # <<>> => answer'[1].player = 1
          /\ \A i \in DOMAIN answer' : i = 2 \/ answer'[i].round <= Rounds
       \/ /\ scenario \in {"history", "early"}
          /\ asked' <= 1 /\ Len(answer') <= 2 /\ FewEvents
          /\ Submitted({4000})
          /\ answer' # <<>> => answer'[1].correct
          /\ IF scenario = "history"
               THEN \A i \in DOMAIN answer' : answer'[i].round = 1
               ELSE /\ published' <= 1
                    /\ \A i \in DOMAIN answer' :
                          answer'[i].player = 2 /\ answer'[i].round = 3 - i
          /\ \A i \in DOMAIN answer' : answer'[i].round = 1 => ~ answer'[i].early

MCSpec == MCInit /\ [][MCNext]_<<vars, scenario>> /\ Fairness
=============================================================================

------------------------- MODULE QuestionSelection -------------------------
(***************************************************************************)
(* How the quiz service selects the questions of a match                   *)
(* (services/quiz/main.go): the topics that the players' plans allow, as   *)
(* consumeMatchCreated works them out, then selectQuestions, which draws   *)
(* questions by difficulty, shuffles them, and moves equal topics apart.   *)
(*                                                                         *)
(* A question is its topic here; how many there are of each difficulty and *)
(* topic is the bank, which does not change.                               *)
(***************************************************************************)
EXTENDS Naturals, Sequences, SequencesExt

CONSTANTS
    Topics,     \* topics in the bank
    FreeTopics, \* freeTopics: those of rooms with a free player
    Roommates,  \* the players of the room
    Banks       \* banks that a match may meet: the number of questions of
                \* each difficulty and topic

ASSUME FreeTopicsAssumption == Topics # {} /\ FreeTopics \subseteq Topics

VARIABLES
    bank,
    premium,  \* players whose plan is premium, as it is cached or stored
    allowed,  \* allowedTopics
    drawing,  \* what comes next
    selected, \* the questions so far
    drawn,    \* history: the questions in the order they were drawn
    position  \* i, of the final pass

selectVars == <<bank, premium, allowed, drawing, selected, drawn, position>>

Difficulty == <<"easy", "medium", "hard">>

ASSUME BanksAssumption == Banks \subseteq [ToSet(Difficulty) -> [Topics -> Nat]]

Drawn(d) == CASE d = "easy" -> 1 [] d = "medium" -> 3 [] d = "hard" -> 1
Phases == {"plans", "shuffle", "pass", "done"} \cup ToSet(Difficulty)

Occurrences(t, s) == Cardinality({i \in DOMAIN s : s[i] = t})
SameQuestions(r, s) == \A t \in Topics : Occurrences(t, r) = Occurrences(t, s)

SelectTypeOK ==
    /\ bank \in Banks
    /\ premium \subseteq Roommates
    /\ allowed \subseteq Topics
    /\ drawing \in Phases
    /\ selected \in Seq(Topics) /\ Len(selected) <= 5
    /\ drawn \in Seq(Topics)
    /\ position \in 2..6

SelectInit ==
    /\ bank \in Banks
    /\ premium \in SUBSET Roommates
    /\ allowed = {}
    /\ drawing = "plans"
    /\ selected = <<>>
    /\ drawn = <<>>
    /\ position = 2

-----------------------------------------------------------------------------
(* One free player restricts the room.  A player whose plan can be read    *)
(* neither from Redis nor from MongoDB counts as one.                      *)
AllowTopics ==
    /\ drawing = "plans" /\ drawing' = "easy"
    /\ \/ premium = Roommates /\ allowed' = Topics
       \/ allowed' = FreeTopics
    /\ UNCHANGED <<bank, premium, selected, drawn, position>>

(* $match and $sample: as many questions as there are, up to the number    *)
(* wanted, of topics that are allowed and not the last batch's last.       *)
Eligible == allowed \ IF selected = <<>> THEN {} ELSE {Last(selected)}

Samples(d, topics) ==
    LET fits(s) == \A t \in topics : Occurrences(t, s) <= bank[d][t]
        upTo == UNION {{s \in [1..n -> topics] : fits(s)} : n \in 0..Drawn(d)}
    IN {s \in upTo : \A t \in upTo : Len(t) <= Len(s)}

NextPhase(d) == CASE d = "easy" -> "medium" [] d = "medium" -> "hard"
                  [] d = "hard" -> "shuffle"

DrawBatch(d) ==
    /\ drawing = d /\ drawing' = NextPhase(d)
    /\ \E s \in Samples(d, Eligible) :
         /\ selected' = selected \o s
         /\ drawn' = drawn \o s
    /\ UNCHANGED <<bank, premium, allowed, position>>

Shuffle ==
    /\ drawing = "shuffle" /\ drawing' = "pass"
    /\ \E s \in [DOMAIN selected -> ToSet(selected)] :
         SameQuestions(s, selected) /\ selected' = s
    /\ UNCHANGED <<bank, premium, allowed, drawn, position>>

-----------------------------------------------------------------------------
(* The final pass: a topic that repeats the one before it is swapped with  *)
(* the next different one.                                                 *)

Swapped(s, i, j) == [s EXCEPT ![i] = s[j], ![j] = s[i]]

SpaceOut_Skips(s, i) ==
    LET others == {j \in DOMAIN s : j > i + 1 /\ s[j] # s[i - 1]}
    IN IF s[i] # s[i - 1] \/ others = {} THEN s
       ELSE Swapped(s, i, CHOOSE j \in others : \A k \in others : j <= k)

SpaceOut(s, i) ==
    LET others == {j \in DOMAIN s : j > i /\ s[j] # s[i - 1]}
    IN IF s[i] # s[i - 1] \/ others = {} THEN s
       ELSE Swapped(s, i, CHOOSE j \in others : \A k \in others : j <= k)

PassOver ==
    /\ drawing = "pass" /\ position <= Len(selected)
    /\ selected' = SpaceOut(selected, position)
    /\ position' = position + 1
    /\ UNCHANGED <<bank, premium, allowed, drawing, drawn>>

EndPass ==
    /\ drawing = "pass" /\ position > Len(selected)
    /\ drawing' = "done"
    /\ UNCHANGED <<bank, premium, allowed, selected, drawn, position>>

SelectNext ==
    \/ AllowTopics
    \/ \E i \in DOMAIN Difficulty : DrawBatch(Difficulty[i])
    \/ Shuffle \/ PassOver \/ EndPass

SelectSpec == SelectInit /\ [][SelectNext]_selectVars

-----------------------------------------------------------------------------
(* A room with a free player is asked about free topics only.              *)
TopicsAreAllowed ==
    premium # Roommates => ToSet(selected) \subseteq FreeTopics

(* The final pass loses no question and asks none twice.                   *)
PassKeepsQuestions ==
    drawing \in {"pass", "done"} => SameQuestions(selected, drawn)

(* "Final pass: ensure no adjacent topics repeat": it looks ahead only, so *)
(* it ensures that a repeated topic is followed by no other topic.         *)
RepeatsAreLast ==
    drawing = "done" =>
        \A i \in 2..Len(selected) : selected[i] = selected[i - 1] =>
            \A j \in i..Len(selected) : selected[j] = selected[i]

(* There are five questions when the bank has enough of each difficulty    *)
(* whichever topic the last batch ended with.                              *)
FullMatch ==
    drawing = "done" /\ Len(selected) < 5 =>
        \E i \in DOMAIN Difficulty :
            LET d == Difficulty[i] IN
            \E last \in Topics : \A t \in allowed \ {last} : bank[d][t] < Drawn(d)

SelectionSafety ==
    /\ SelectTypeOK
    /\ TopicsAreAllowed
    /\ PassKeepsQuestions
    /\ RepeatsAreLast
    /\ FullMatch
=============================================================================

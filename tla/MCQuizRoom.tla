----------------------------- MODULE MCQuizRoom -----------------------------
(* Model-checking instances of QuizRoom: the .cfg files give the constants *)
(* and this module the symmetry of the safety runs.                        *)
EXTENDS QuizRoom, TLC

RoomSymmetry ==
    Permutations(Players) \cup Permutations(Slots) \cup Permutations(Conns)
=============================================================================

-------------------------- MODULE MCQuizSelection --------------------------
(* Small instances of QuizSelection for TLC. *)
EXTENDS QuizSelection

CONSTANTS c1, s1, s2, a, b

\* The compiled-in set and what is stored of it.
TwoDefaults == <<s1, s2>>
SeedAndOne == <<a, s1>>
=============================================================================

---------------------------- MODULE MCQuizStore ----------------------------
(* Small instances of QuizStore for TLC. *)
EXTENDS QuizStore, TLC

CONSTANTS c1, c2, c3, u1, u2, q1, q2, q3

\* q1 is a seeded question, q2 a question u1 wrote, q3 an id not used yet.
SeedAndUserQuestion == q1 :> System @@ q2 :> u1
UserQuestion == q2 :> u1

CallSymmetry == Permutations(Calls)
=============================================================================

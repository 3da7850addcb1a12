---------------------------- MODULE MCQuizScreen ----------------------------
(* Three questions of two choices: one excluded, one loaded, one to be      *)
(* loaded instead.                                                          *)
EXTENDS QuizScreen, TLC

Symmetry == Permutations(Questions)
=============================================================================

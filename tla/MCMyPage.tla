------------------------------ MODULE MCMyPage ------------------------------
(* A small instance of MyPage for TLC. *)
EXTENDS MyPage, TLC

CONSTANTS c1, c2, u1, q2, q3, l1

\* q2 is a question of u1, q3 an id not used yet.
UserQuestion == q2 :> u1
=============================================================================

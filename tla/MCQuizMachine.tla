---------------------------- MODULE MCQuizMachine ----------------------------
(* Finite instances of QuizMachine for TLC. *)
EXTENDS QuizMachine, TLC

CONSTANTS t1, t2, t3

AnyThread == Permutations(Threads)
=============================================================================

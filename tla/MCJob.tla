---------------------------------- MODULE MCJob ----------------------------------
(***************************************************************************)
(* Two processes, one job.  A tick is a minute: a heartbeat every tick and *)
(* a tolerance of four, as in the code.                                    *)
(***************************************************************************)
EXTENDS JobProps, TLC

Symmetry == Permutations(Worker) \cup Permutations(Operator)
===============================================================================

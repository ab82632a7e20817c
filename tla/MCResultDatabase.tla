-------------------------- MODULE MCResultDatabase ---------------------------
(* Instances of ResultDatabase for TLC: four jobs, of one process or of      *)
(* several, and two configurations of the test.                              *)
EXTENDS ResultDatabase

CONSTANTS p, q, r, s,   \* jobs
          old, new      \* configurations
=============================================================================

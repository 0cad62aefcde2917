------------------------------ MODULE MCQueue ------------------------------
(* TLC instance of the queue.                                              *)
EXTENDS Queue

MCItems == { 10, 20 }
=============================================================================

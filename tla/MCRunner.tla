------------------------------ MODULE MCRunner ------------------------------
(* Instance of WorkerPace: all tasks on one host, one of a domain that does
   not ask for robots.txt to be respected. *)
EXTENDS WorkerPace, TLC

CONSTANTS t1, t2, t3, host

MCHostOf == [t \in Task |-> host]
MCPolite == {t1, t2}
=============================================================================

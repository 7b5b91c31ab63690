----------------------------- MODULE MCShutdown -----------------------------
(* Two workers, two IO threads that can want the mutex together, and a     *)
(* signal.                                                                 *)
EXTENDS Shutdown

CONSTANTS w1, w2, io1, io2, int

MCWorkers == {w1, w2}
MCIOs == {io1, io2}
MCHandlers == {int}
=============================================================================

---------------------------- MODULE MCEventLoop ----------------------------
(* Two worker threads that queue three tasks between them, one thread that *)
(* stops the loop, the alarm and one client; epoll_wait() returns one or   *)
(* two of the three descriptors.                                           *)
EXTENDS EventLoop

CONSTANTS w1, w2, main, a, b, c, client

MCPosters == {w1, w2}
MCStoppers == {main}
MCTasks == {a, b, c}
MCSources == {client}
=============================================================================

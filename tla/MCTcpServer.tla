---------------------------- MODULE MCTcpServer -----------------------------
(* Three clients for two descriptors, so that a descriptor is asked for    *)
(* again and accept4() can fail; the two descriptors belong to two loops.  *)
EXTENDS TcpServer

CONSTANTS c1, c2, c3, f1, f2, l1, l2

MCConns == {c1, c2, c3}
MCFds == {f1, f2}
MCLoops == {l1, l2}
MCLoopOf == [f \in MCFds |-> IF f = f1 THEN l1 ELSE l2]
=============================================================================

---------------------------- MODULE MCConnection ----------------------------
(* Up to two workers, or none; a few chunks through a send buffer of one,  *)
(* so that a reply needs several writes; none of them with a zero byte, or *)
(* the first, which has the header of a message.                           *)
EXTENDS Connection

CONSTANTS w1, w2

MCWorkers == {w1, w2}
MCNoZero == {}
MCZero == {1}
=============================================================================

----------------------------- MODULE MCFraming -----------------------------
(* Bytes with four values, so that a length of four needs two bytes of the *)
(* header; an empty message, a short one, and one of that length.          *)
EXTENDS Framing

MCMessages == {<<>>, <<1>>, <<1, 0, 0, 2>>}
=============================================================================

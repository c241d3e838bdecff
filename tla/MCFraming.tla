----------------------------- MODULE MCFraming -----------------------------
(* An instance of Framing for TLC: every type of frame, a HELLO of another *)
(* channel, batches of one record and of too many, a body that is not a    *)
(* frame, and sizes around both limits.                                    *)
EXTENDS Framing

MCBodies ==
  {<<HELLO>>, <<HELLO, 1>>, <<DATA_BATCH, 5>>, <<DATA_BATCH, 0, 0, 0, 0, 0>>,
   <<END_OF_STREAM>>, <<HEARTBEAT, 0>>, <<Malformed>>,
   <<DATA_BATCH, 0, 0, 0, 0, 0, 0>>, <<DATA_BATCH, 0, 0, 0, 0, 0, 0, 0>>}
=============================================================================

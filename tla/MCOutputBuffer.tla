---------------------------- MODULE MCOutputBuffer ----------------------------
(* An instance of OutputBuffer for TLC.  TarsReserveBuf asks for 3 bytes at   *)
(* least, so that chunks of up to 2 fit, fill and exceed what was reserved.   *)
EXTENDS OutputBuffer

MCChunks == {<<1>>, <<1, 2>>}

AllRules == Rules
=============================================================================

--------------------------- MODULE MCMemoryCache ---------------------------
(***************************************************************************)
(* MemoryCache for TLC, with a bare payload and an enveloped one.          *)
(***************************************************************************)
EXTENDS MemoryCache

MCVals == {Payload(0), wrapEnvelope(1, 0)}
=============================================================================

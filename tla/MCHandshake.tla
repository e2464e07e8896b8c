---------------------------- MODULE MCHandshake ----------------------------
(* Model checking of DecodeHandshake, with its refinement of SendService.  *)
EXTENDS DecodeHandshake
=============================================================================

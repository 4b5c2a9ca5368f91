----------------------------- MODULE MCEndpoint -----------------------------
(* A small instance of Endpoint for TLC: three request threads, one request  *)
(* each, a loop for every startup that may time out, and a pool of two       *)
(* threads, one of which a slow tool may hold for ever.                      *)
EXTENDS Endpoint
=============================================================================

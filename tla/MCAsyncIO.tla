----------------------------- MODULE MCAsyncIO -----------------------------
(* Instance of AsyncIO for TLC. *)
EXTENDS AsyncIO
=============================================================================

----------------------------- MODULE MCPublishing -----------------------------
(* Publishing on two exchanges, each with a channel of its own.            *)
EXTENDS Publishing

=============================================================================

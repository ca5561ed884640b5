---------------------------- MODULE MCTs6Streams ----------------------------
(* Small instances of Ts6Streams for TLC. *)
EXTENDS Ts6Streams
=============================================================================

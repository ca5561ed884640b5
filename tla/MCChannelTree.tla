--------------------------- MODULE MCChannelTree ---------------------------
(* Small instances of ChannelTree for TLC. *)
EXTENDS ChannelTree
=============================================================================

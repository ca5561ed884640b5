----------------------------- MODULE MCMusicBot -----------------------------
(* Model values for MusicBot. *)
EXTENDS MusicBot
=============================================================================

---------------------------- MODULE MCAudioEngine ---------------------------
(* Model values for AudioEngine: one song, which every bot made under the id
   has as its first; no track at all stands for any other song. *)
EXTENDS AudioEngine

MCTracks == {[id |-> 1, url |-> 1]}
=============================================================================

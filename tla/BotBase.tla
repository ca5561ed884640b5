------------------------------ MODULE BotBase -------------------------------
(***************************************************************************)
(* What the commands for music bots and the audio engine have in common:   *)
(* the clients made for bots and the states of a player.                   *)
(***************************************************************************)
EXTENDS Naturals

CONSTANT MaxClient   \* bound on the clients ever made for bots

ClientIds == 1..MaxClient
States    == {"stopped", "playing", "paused"}
NoTrack   == [id |-> 0, url |-> 0]

VARIABLE clients     \* how many clients were made for bots; theirs are 1..clients
=============================================================================

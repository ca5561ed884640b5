---------------------------- MODULE MCRtcManager ----------------------------
(***************************************************************************)
(* Small instances of RtcManager for TLC: a viewer with a camera, a        *)
(* broadcaster with camera and screen, and a TS6 client with a screen.     *)
(* The viewer sends up to three tracks: two video sections are offered, a  *)
(* later offer brings a third track, and one offer has three sections, the *)
(* first of them without a track.                                          *)
(***************************************************************************)
EXTENDS RtcManager

CONSTANTS v, b, s

MCBroadcasts == {<<v, 0>>, <<b, 0>>, <<b, 1>>, <<s, 1>>}
MCOffers == {<<>>, <<1, 2>>, <<2, 1>>, <<3>>, <<None, 2, 3>>}
=============================================================================

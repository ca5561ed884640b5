--------------------------- MODULE MCDesktopView ---------------------------
(* Two addresses: one of a TeaSpeak client, one of a TeamSpeak 3 or 6 client. *)
EXTENDS DesktopView

MCAddrs   == {"p", "q"}
MCKindsAt == [a \in MCAddrs |-> IF a = "p" THEN {"teaspeak"} ELSE {"ts3", "ts6"}]
=============================================================================

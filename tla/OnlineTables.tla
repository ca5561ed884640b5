---------------------------- MODULE OnlineTables ----------------------------
(***************************************************************************)
(* What the connections of query clients and of desktop clients share: the *)
(* tables of the channels, of the clients that are online and of the music *)
(* bots among them.                                                        *)
(***************************************************************************)
EXTENDS ChannelOps

CONSTANTS
    MaxChannelId,   \* bound on channel ids
    ParentsUsed     \* parents that channelcreate is asked for

ChannelIds == 1..MaxChannelId

VARIABLES
    channels,   \* the channel table, see ChannelOps
    where,      \* channel_id of every client in online_clients, 0 if absent
    bots        \* the clients that are music bots
=============================================================================

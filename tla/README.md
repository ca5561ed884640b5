# A verification project for BlackTeaSpeak

BlackTeaSpeak is a TeamSpeak-compatible voice server in Rust, with a desktop and
a web client. These TLA+ modules model the server's own core logic, the parts
where several connections, threads, the housekeeping and restarts meet in shared
state. Paths without a prefix are below `src/BlackTeaSpeak-Server/src/`.

## 1. Inventory

### How the server works

All server state is one `BaselineRuntime` behind one mutex. Its
`InMemoryStore` holds the channels, clients, groups, keys, bans and so on. Every
transport keeps a `QuerySessionState` per connection, outside of the mutex's
data, and hands it to the runtime with each command:

1. `execute_request_with_notifications` (transport/notifications.rs:4) takes the mutex;
2. `execute_request` (runtime/dispatch.rs:5) drops expired bans, charges flood
   points, dispatches to a handler, copies the session into the account's
   snapshot (`sync_session_snapshot`), writes the session's position over the
   client's entry in `online_clients` (`sync_session_client`), cleans up a
   temporary channel that was left, and rewrites `runtime-state.json`;
3. the reply and the notifications leave.

A thread runs `run_housekeeping` every ten seconds (main.rs:500) and saves. SQLite
(`database/`) is written row by row from inside some handlers.

Beside that there are the UDP loop, which serves all desktop clients (TS3, TS6,
TeaSpeak) and takes the mutex several times in one command; the loop of the audio
engine with up to three threads per stream; the threads of the file transfer
server, which work on files without a lock; and the tasks behind WebRTC
connections, with tables and locks of their own.

So a query command is atomic in memory and not on disk, and everything else is not
even atomic in memory. What is hard is: state kept twice (session copy and
online entry, memory and two stores, broadcasts in four tables), ids that are
handed out again, cleanup that happens on some exits and not on others, copies
that are written back after they are outdated, and crashes between writes.

### Components

| component | state | operations | interacts with | hard behaviour | what makes it correct |
|---|---|---|---|---|---|
| channel tree (handlers/channel.rs, catalog_and_utils.rs, protocols/.../channel_and_runtime_dispatch.rs) | `channels` per server: parent, order, kind, default flag | create, delete, edit, move, cleanup of temporary channels; create, delete, edit by UDP clients | presence (occupants), music bots, SQLite | two sets of handlers on one table, of which one checks and relinks nothing; edits that fail half way, deletes of subtrees, sibling chains | one default; a forest with complete chains and nobody stranded, but for what a UDP command left |
| presence and sessions (session_and_identity.rs, client_and_ban_state.rs, handlers/client.rs, handlers/session_and_instance.rs, transport/, protocols/serverquery, protocols/btea) | `online_clients`, `QuerySessionState`, snapshots, id counters | connect, login, logout, use, move, kick, quit, disconnect, time-out, housekeeping, chat commands that move | channel tree, bots, all transports | stale session copies, ghosts, kicked clients that come back | unique ids, positions that exist, ghosts leave |
| desktop clients over UDP (protocols/ts3, ts6, teaspeak) | sessions by address, queue of notifications | handshake, commands, delivery of events | presence, channel tree | answers overtake notifications, change and announcement under two locks | what a client sees is what is |
| persistence (runtime/persistence.rs, state.rs, database/, runtime/mod.rs) | `runtime-state.json`, SQLite | save after each command and every 10 s, load | everything | crash between two writes, torn file | replies survive |
| privilege keys (handlers/token.rs, server_groups.rs) | `tokens`, `next_token_id` | add, edit, delete, use, initial key, permreset | groups, persistence | use counted after the groups are saved | no key used more often than allowed |
| bans, complaints, flood control (bans_and_complain.rs, client_and_ban_state.rs) | `active_bans`, complaints, points per address | ban, unban, expiry, complaint, ban after complaints | presence, persistence | counts at their limit, restarts | what was confirmed stays |
| permissions and groups (runtime/permissions) | groups, memberships, assignments, permissions of accounts, clients, channels | evaluation of five tiers, add, copy, delete, rename, permreset | all handlers, persistence | ids used again, saved lists, restarts | nobody has a right that was not given, given rights last, tiers decide as promised |
| music bots (runtime/musicbot) | bots, queues, playlists, streams | create, delete, queue, reorder, play, chat commands; engine loop, stream threads | presence, broadcasts | late reports, threads of deleted bots | a bot plays what its queue says, one stream at a time |
| broadcasts and streams (ts6/stream_manager.rs, ts6/webrtc_bridge.rs, teaspeak/rtc_manager.rs, teaspeak/webrtc_bridge.rs, webrtc_and_broadcast.rs) | `active_broadcasts`, stream registry, bridges, slots, track types | set up, update, stop, join, leave, describe, re-offer | presence, UDP loop | four tables under four locks, tasks that outlive their stream | the tables agree, slots show what is on air |
| file transfer (file_transfer/, handlers/file_transfer.rs) | registry of transfers, files, avatar flags | init, stop, delete, rename, serve | sockets | threads on one file without a lock, names that change under way | uploads whole, downloads as announced |
| virtual server lifecycle (server_lifecycle_and_snapshots.rs) | `virtual_servers`, listeners | create, start, stop, delete, snapshot, deploy | channels, keys, transports | deploy half done | nothing of a deleted server remains |
| web sessions (web/) | phase, visibility, subscriptions | handshake, login, commands | presence | notifications out of order | only logged-in sessions act |
| messaging (messaging_and_chat.rs) | offline messages, conversations | add, read, delete | persistence | restarts | as stored |
| query accounts, logs, TSDNS | tables | insert, list, delete | permissions | few | as stored |
| desktop and web clients | user interface, audio | | the server | | not modelled |

PROJECT.json has the same list with the status of each part, and the hazards by line.

## 2. Modules

| module | models | composes |
|---|---|---|
| ChannelOps | pure operators on a channel table: sibling chains, add, move, delete, cleanup | |
| ChannelTree | the channel tree under the channel commands of the runtime and of the UDP transport, with occupants | ChannelOps |
| OnlineTables | what query and desktop connections share: the channel table, who is online, the bots | ChannelOps |
| Presence | connections, sessions, online entries, bots, chat commands, housekeeping, over these tables | OnlineTables |
| DesktopView | the UDP loop: sessions by address, and what each client is told of channels and clients | OnlineTables |
| Durability | keys, groups, bans, complaints, messages and query accounts over memory, JSON file and SQLite, with crashes | |
| PermissionTiers | pure operators: how five tiers of permissions combine, and the tests of the handlers | |
| Permissions | groups, memberships and permissions under all commands, connections and restarts | PermissionTiers |
| BotBase | what the two halves of the music bots share: the clients made for bots, the states of a player | |
| BotQueue | pure operators on the record of a music bot: what each command does to its queue | |
| BotPlayer | abstract: what the engine may rely on about the bot behind an id | BotBase |
| MusicBot | all bots and playlists under all commands; implements BotPlayer for every id | BotQueue, BotBase, BotPlayer |
| AudioEngine | the engine loop and the threads of its streams | BotPlayer |
| Ts6Streams | broadcasts, streams, bridges and feeds across four locks | |
| RtcManager | the slots and track types of one TeaSpeak client | |
| FileTransfer | the registry of transfers, the threads that serve them, files and avatar flags | |
| ...Proofs | the theorems about ChannelTree, Presence, Durability, Permissions, MusicBot, Ts6Streams, RtcManager and FileTransfer; those about AudioEngine are in MusicBotProofs, those about DesktopView in PresenceProofs | the module, TLAPS |
| MC... | instances for TLC; the cfg files give the constants | |

A refused command changes nothing and is a stuttering step in every module,
unless the code changes something before it refuses, which is then an action.

### ChannelOps and ChannelTree

`channels` is a function from the ids in use to records `parent`, `order`,
`kind`, `dflt`, the fields of `Channel` that decide its place. `where[k]` is the
`channel_id` of client k in `online_clients`, 0 when it is not there.
`OrderedSiblingIds` follows the chain of `order` links and falls back on the
order of ids when it is broken, as `ordered_sibling_ids` does;
`RelinkSiblingOrders` writes the chain back. A channel id is the largest one plus
one, so an id can come back.

Two sets of handlers change the table. Those of the runtime (handlers/channel.rs)
serve queries, web clients and `/ch`: one action per command, and
`ChannelEditRefused`, because channeledit writes `flag_default` before it checks
the position (handlers/channel.rs:635). Deletion with `force=1` takes the subtree
and moves its clients; moving, kicking or leaving ends with the cleanup of the
channel left, in the same step, and `ClientQuit` does not, as in the code.

The handlers of the UDP transport (protocols/ts3, ts6 and teaspeak,
channel_and_runtime_dispatch.rs) write the table themselves. `UdpChannelCreate`
stores `cpid` and `channel_order` as they come, `UdpChannelEdit` the order;
neither looks anything up nor relinks. `UdpChannelDelete` removes the channel,
whatever it is and whatever hangs below it, and, in a second critical section,
`UdpVacate` moves the client that gave the command (for TeaSpeak the bots, too) to
the default channel looked up in the first; `deleting` holds what the handler
knows between the two. The UDP loop serves one client at a time, so no other UDP
command comes between, and every other one may. `ClientPutBack` is the next
command of a UDP client that was dropped: `build_ts3_query_session` gives it
channel 1. UDP clients move channels with the runtime's channelmove.

Three variables are histories: `loose` are the channels whose parent link a UDP
command made without a check, or left behind by removing the parent, `unlinked`
the parents below which a UDP command was the last to put, renumber or remove a
channel, and `commands` counts against the bound. A channel leaves `loose`, and a parent
`unlinked`, when a command of the runtime places the channel or relinks below the
parent (`Mended`). `WalkEnds` is the guard that the code does not have: where
`channel_is_descendant` would walk along a cycle for ever, the command has no step.
The family count of clientmove would, too; it is skipped for clients that may
ignore maxclients, so `ClientMove` has no such guard.

Left out here: the session copies of positions (Presence), channels of further
virtual servers (section 6), and the gap between the permission check of a UDP
command, under an earlier lock, and its write. The check decides only whether the
command comes at all.

### Presence

The position of a client is modelled twice: `where` is shared, `session[s].cur`
belongs to the connection. `FinishCommand` is the end of `execute_request`: the
session's copy is written over the shared one, the account's snapshot is
replaced and a left channel is cleaned up. Telnet, ssh and BTEA desktop
connections differ in how they end: telnet has both quit and a hook on the end of
the connection, ssh has neither (`SshClose` leaves the entry behind), BTEA
executes a quit for the client. Query clients and bots take ids from one
counter, desktop clients from another that starts higher. `stale` marks the
clients that have not been seen for a minute; `Housekeeping` is the whole of
`run_housekeeping`, both loops, in one step, because it holds the mutex.

The chat commands (`Chat...`) are text messages that the server carries out
itself: they change `online_clients` directly, clean up nothing, and end like
every command of the invoker. `ChatAdminSession` is the made-up serveradmin
session under which `/ch create` runs. channeledit and channelmove are left to
ChannelTree, channels other than temporary ones are made by `/ch create` only
if `ChatKinds` says so, and every query session logs in to the one seeded
account. The seeded demonstration clients 40 to 42 are left out.

### DesktopView

`task` is where the UDP loop stands between two locks, `queue` the notifications
that wait, `view[a]` what the notifications sent to address a make its client
believe. The handlers of the UDP loop for connecting, leaving, moving, kicking, away
and the channel commands have an action each, named alike for the three dialects
where their code is the same, and so have the query commands that change the same
tables; the announcement is a second action under a later lock. Not in the module:
chat commands and music bots' own events over UDP, banclient, channelmove. A second
clientinit clears the away flag in the model and leaves it in the code, and the
second half of a TeaSpeak channeldelete cleans up nothing in the model even when the
channel's id was given again in between (ChannelTree has that case). `excused` names the objects on
which a client may be wrong, each by one of six causes in the code: a change nobody announces
(`Silent`), a change and its announcement under two locks with another change between (`Torn`), the
client's own answer before an older notification (`Overtaken`), an object announced as gone while it
is there (`Denied`), a notification about an earlier owner of an id (`Outdated`), and what a
TeaSpeak client did itself and is neither answered nor told (`Withheld`). A resent packet is another
command: the transport answers duplicates by their id before the handlers see them.

### Durability

`tokens`, `granted`, `nextToken`, `bans`, `complaints`, `mail` and their counters
are memory, `json` is the file (absent, whole, or torn), `sqlite` the rows of the
table of tokens. `step` says where the holder of the mutex is, because a crash
can come between writes: after a handler and before the file is written
(`save`), and, when a web or desktop client redeems a key, before (`grant`) and
after (`count`) the extra save of `persist_web_client_server_groups`. `fs::write`
truncates the file, so a crash in a write may leave it torn, and then no start is
enabled, because `load_persisted_state` returns the error. `StartWithAdminToken`
and `StartAndMakeAdminToken` are the start with `ensure_initial_admin_token`.
`ComplainAdd` turns the complaints about a client into a ban when they reach
`virtualserver_complain_autoban_count`. Query accounts (`accounts`, with the counter
`nextDbId` that music bots share) are in the file, and the client records that go
with them (`clients` in memory, `rows` on disk) in SQLite. `SavedClient` is
`save_client`, whose `ON CONFLICT` is about the unique identifier only: a database
id that has a row refuses the insertion, and the error is ignored. `promises` records what replies
have confirmed, `maxima`, `cut`, `asked` and `foreign` what the properties compare with, `kinds`
which commands were used; the program has no such variables. A save that fails while the server goes
on (`persist_state_best_effort` logs the error and the reply is sent all the same,
runtime/persistence.rs:665) is left out: every save succeeds or ends in a crash. Groups given by
other commands than tokenuse and taken by others than permreset are in Permissions.

### PermissionTiers and Permissions

The names of the catalogue are abstracted to the parts they play: the right a
handler asks for, the powers it compares, and the two flags that the evaluation
itself reads. `EffectivePermissions` is the merge of
`effective_permissions_for_client_in_channel_context`, tier by tier, as it is
coded. Permissions keeps the five places where a right lives, the list of groups
saved for the next connection, and what a restart does to all of them. `given` is
the history of rights that somebody gave and nobody took back; `orphans`, `stale`
and `outdated` name what the code leaves behind. Who is known
(`known_client_database_ids`) matters, because every normalisation drops the rights
in channels of anybody else: clientdbdelete, and clientdelperm of the last
permission of a client that only its permissions made known
(`KnownWithoutTarget`), turn rights into orphans.

### BotBase, BotQueue, BotPlayer, MusicBot, AudioEngine

Three sets of commands (query, playlist, chat) work on the same queue with code of
their own; BotQueue has one operator per change, MusicBot one action per
command. BotPlayer is the contract between the two halves: MusicBot is checked
to implement it for every bot id through the mapping `Seen`
(`ImplementsPlayer`), and AudioEngine is checked against every behaviour BotPlayer
allows. So the engine is verified for every sequence of commands without the
product of the two state spaces. In AudioEngine a stream has an audio and a video
thread, looked up by bot id and song id alone, as in the code; the engine
decides on `desired`, the copy it read under an earlier lock. `MetadataFail` and
`EndOfLoop` join the `swap` of the stop flag (audio_engine.rs:483, 715) with the
critical section that follows it.

### Ts6Streams and RtcManager

Ts6Streams keeps the four tables that say what is on air, `loop` as the place of
the UDP loop between two locks, and `tasks`, the bridges being set up beside it.
RtcManager has one viewer: `slots`, the negotiations `nego` with the copy of the
slots that a re-offer carries over its awaits, and the two tables of track types.
`Registered` is `register_incoming_ssrc_type`: all tracks that have the type are given
the other one, and which of them becomes its track is up to the order of a HashMap, so
the result is a set. `Offers` are the video sections of the offers there may be, in
any number and also without a track. The tables forget nothing, so `Ssrcs` are all
tracks the client sends in all its negotiations. The first packet of a track whose type is
known enters it in one step (the read guard lives through the body of the `if let`,
rtc_manager.rs:223-234); one without a type goes through three locks (`StartResolve`,
`ResolveTrack`, `ResolveType`; `fresh` and `given` say how far it is), any number of tracks at
once.

### FileTransfer

A file is an object that names point to, so that an open file survives the
deletion of its name. `transfers` is the registry, `conns` the threads, each with
its open file and position; a write or a read of one unit is a step. The commands
run under the runtime mutex and are one step each; ftrenamefile tests for the target
and renames in one step, though a thread that serves an upload could make the target in
between (registry.rs:174-183). File system errors other than a
missing file, directories, icons and permissions are left out.

## 3. Runs

| run | instance | states | result |
|---|---|---|---|
| channel_tree | 3 channel ids, one client, one bot, temporary channels; TS3 and TeaSpeak clients; 3 channel commands | 167,753 | pass |
| channel_tree_default | permanent and temporary channels, no UDP clients, 3 channel commands | | violation, finding 1 |
| presence | one ssh, one desktop connection, 3 channel ids, 2 query ids (one for a bot), temporary channels nested below channel 2 | 134,420 | pass |
| desktop_view | one TeaSpeak, one TS3 or TS6 address, a query client, a bot, 2 channel ids, 3 commands, 2 notifications waiting | 588,449 | pass |
| durability | one account, two members, 2 keys with max_uses 0 (no limit) or 1; one accused client with two accusers, 1 ban, 2 message ids; 2 logins, 2 database ids | 2,817,494 up to symmetry | pass |
| durability_bans | the same, bans and complaints only | | violation, finding 2 |
| permissions | serveradmin and one client, server groups 6 to 9, channel groups up to 10, 2 channels, 3 commands of which 2 edit permissions | 220,308 | pass |
| music_queue | 2 bots or playlists, 2 clients, 2 song ids | 85,553 | pass |
| audio_engine | 2 clients, 2 tracks, 2 streams at a time | 468,430 | pass |
| ts6_streams | 2 TS6 clients, one of another transport, 2 streams, 1 task at a time, 4 commands | 293,479 | pass |
| rtc_manager | a viewer with 3 tracks, a broadcaster, a TS6 client, 2 negotiations with up to 3 video sections, 2 then 3 slots, 4 commands | 1,126,859 | pass |
| file_transfer | 2 clients, 1 file, 2 transfers of up to 2 units, 2 other commands | 2,180,401 | pass |

**channel_tree** shows `AtMostOneDefault`, and of both sets of handlers together:
`TreeWellFormed` (every parent that does not exist, and every cycle, in which
`channel_is_descendant` would spin with the mutex held, goes back to a channel in
`loose`), `SiblingChain` (each parent's children form one complete chain unless the
parent is in `unlinked`) and `NobodyStranded` (while the channel that serves as default
survives, a step leaves a client in a channel that is gone only in three ways: a UDP
channeldelete by somebody else, its second part when the default channel it looked up
is gone by then, the command of a dropped UDP client). So the runtime's commands
break nothing whatever the UDP commands left, and repair what they touch; what the
UDP commands do break is in "Seen on the way".

**presence** shows `UniqueClientIds` (a session keeps its id through logout, kick
and time-out, while the id is not online), `OnlyStaleSessionsStrand` (the only
ways into a channel that is gone are the client's own stale session copy and, for
a bot, a summons or chat command that names a channel nobody checks), and under
fairness `GhostsLeave` and `AbandonedChannelsGo`: clients without a connection
go, and so do temporary channels that only bots are in, also after the exits that
clean up nothing.

**desktop_view** shows `ViewsAgree` (once everything is delivered, every client
sees channels, clients and away flags as they are, but for the six causes),
`SessionsOnline` (a session that goes on has its client online, or is about to
read that it has not, or was dropped for silence) and `OnlyOwnLeavingEnds` (a
notification ends a session only when it is the client's own or about an
earlier stay under its id).

**durability** shows `RepliesSurviveCrashes` (a confirmed key, grant, complaint,
message or deletion holds whenever the server serves again, although SQLite keeps
the rows of deleted keys and does not have those that tokenadd makes, and no id
comes back) and `OverusedOnlyByCrash` (a key reaches more clients than `max_uses`
only when a crash cuts a redemption by a web or desktop client between its two
writes; that window is real and the property delimits it exactly).
`RecordsLostOnlyByCollision` says that a database id stands for one account or bot
unless a querycreate named it, and that an account keeps its own client record over
restarts unless another record was in the way when it was created: the row of an
account that a crash undid, or of an earlier account of the same name.

**permissions** shows `RightsWereGiven` (nobody has a right that was not given to
it for the group and channel that have the id now), `RightsLast` (what was given
lasts through connections, restarts and normalisations), `LayersDecide` (the merge
of the five tiers equals a definition stated without reference to its order of
evaluation) and `FallsBackToGuest` (an account without groups becomes a guest,
not an administrator). Each names the exceptions the code has.

**music_queue** shows `CurrentStaysQueued`, `PlaysSomething` (a bot loses its
current song, or plays nothing, in one named way each) and `ImplementsPlayer`.
**audio_engine** shows `OneLiveStream`, `BroadcastBacked` (a video broadcast of a
client that is there has a thread that will end it) and, under fairness,
`WantedIsPlayed`.

**ts6_streams** shows `StreamsMatchBroadcasts`, `BroadcastsListed`,
`BridgesFollowStreams` and `BridgesAreFed`: when the loop is at rest, what TS6
clients stream is what they broadcast, every broadcast is listed for TS6 clients,
no bridge outlives its stream, and each bridge has its feed. **rtc_manager** shows
`SlotsShowBroadcasts`, `RemoteViewsKept` (the view of a broadcast that stays on
air is lost only in the named ways) and `TracksKeepTypes` (the track of a type has that
type, a type in use has a track, and tracks share one type only if another track has the
other, so that two tracks never collide; but for a registration between the locks of a
resolve).

**file_transfer** shows `UploadsDoNotMix` and `CompleteUploadsWhole` (a file holds
one upload, and one reported complete over HTTP is whole, unless two uploads had
the file at the same time), `DownloadsAsPromised` (a download delivers what was
announced from the position asked for, unless the file changed) and
`AvatarFlagsTrue` (the flag of a client says whether it has an avatar, unless
somebody else handled it, ftstop or ftrenamefile took the file, or a late upload
made it again).

The type invariants of DesktopView, Durability, AudioEngine, Ts6Streams and FileTransfer hold
in these instances as well; they are not part of the runs.

Each property has a mutant in PROJECT.json: a plausible bug in a definition that
makes the run fail.

### Bounds

- `MaxChannelId = 3`, `MaxCommands = 3`: the seeded pair and one more is enough for
  chains of three, nesting of depth three, cycles of one and of two, an ancestor of the
  default channel, and an id that comes back; three commands for one that breaks, one
  that builds on it and one that must mend or not make it worse. Moves, kicks,
  departures and cleanups are not counted. Before the UDP handlers were added the
  runtime's commands alone were checked without a bound (17,872 states). `RawIds =
  {1, 3}`: as a parent, a channel that may be there or not and the id that is about to be
  given; as an order, a sibling and none. Permanent channels are in the violation
  run and in the two seeded ones; TS6 clients have the handlers of TS3.
- `Clients = {u, b}`, `Bots = {b}`: the cleanup tells bots from others and an
  empty channel from one with both.
- `MaxQueryId`, `MaxClientId`: the room between the id counters. The code
  starts desktop ids at 1001 and never compares the counters; the models stop
  where query ids would reach it.
- DesktopView `MaxOps = 3`, `MaxQueue = 2`: every one of the six causes needs at
  most two commands of two actors and one notification that waits; the third
  command and the second notification show that they do not hide others.
- Durability: two keys, so that an id can be freed and asked for again; two
  members, so that a key with one use can be redeemed twice over a crash;
  `AutobanCount = 2` in place of 5, which two accusers reach; two message ids.
  Two logins and two database ids are enough for a collision of either.
  `Mixes` keeps the commands on keys, those on bans, complaints and messages, and
  those on accounts in behaviours of their own: they meet in the save, the crash and the start, and
  read nothing of each other.
- Permissions `MaxOps = 3`, `MaxEdits = 2`: give, delete and create again, the
  sequence by which a right could pass to another group under the same id.
  `MaxServerGroup = 9`: the four seeded groups, of which the last can be deleted
  and made again.
- MusicBot: two songs for a successor, a reorder and an id beyond the queue; two
  bots for an assignment of one's playlist to the other. AudioEngine: two streams,
  an old one that ends late and a new one.
- Ts6Streams `MaxOps = 4`. With one TS6 client, one other and 6 commands (1,688,986
  states) it passes as well; that instance showed two more ways in which a retyped
  synthetic stream parts a bridge from its slot, which `BridgesAreFed` now names.
  RtcManager 2 and 3 slots in place of 3 and 8, so that slots run out; three tracks, because with
  a third one a renegotiation brings new tracks beside the old ones and one type is shared. With
  5 commands (5,969,562 states) it passes as well.
- FileTransfer: two transfers of two units, so that an upload meets another one or
  a download half way. Three transfers of one unit (one client, one file, one
  command; 3,624,302 states) pass as well.
- `ForceValues = {0, 1}`: the values of the protocol. Others leave orphans (see
  the hazards).

Deadlock is checked where the system goes on by itself. It is off in durability
(with a torn file there is no start) and where a bound on commands ends the
behaviour: desktop_view, permissions, ts6_streams, rtc_manager, file_transfer.

### Fairness

presence and audio_engine assume some. The housekeeping thread sleeps ten seconds
and takes the mutex (main.rs:500-509), which is weak fairness of `Housekeeping`. A
client that nobody refreshes goes stale because time passes: weak fairness of
`Expire` for ghosts. No connection is obliged to act. The engine loop runs
forever with a sleep of fixed length, and the threads of a stream run until they
end: weak fairness of the loop and of each thread. No command, and no successful
download, is promised.

### Findings

1. `channeldelete` refuses the default channel, "default channel cannot be
   deleted in baseline" (handlers/channel.rs:473), but looks at the named channel
   only; a forced delete of an ancestor takes the default channel along.
2. "All persistent configurations are stored in `blackteaspeak.db`"
   (docs/reference/database_schema.md:1), the table `bans` among them (:112); no
   command writes that table, and a restart forgets every ban.

### Seen on the way

These are exceptions that the properties name, or facts met while modelling, each
at its place in the code:

- Channels: the UDP handlers do what the runtime's refuse. channelcreate takes any
  cpid, where channelmove answers "parent channel not found" and "channel cannot be
  moved below itself" (handlers/channel.rs:898-907): with cpid one above the largest
  id a channel becomes its own parent, and the next channelmove or channeledit that
  names it as the parent, or clientmove into it that counts families, walks round the
  cycle for ever with the runtime mutex held. channeldelete ignores "default channel cannot be
  deleted in baseline", "channel has child channels" and "channel is not empty"
  (handlers/channel.rs:473-482): it leaves orphans, and every client in the channel but the one that
  gave the command. The orphans become children of whatever channel gets the id next.
- Presence: "Move any clients in deleted channels to default channel"
  (handlers/channel.rs:512) holds until the moved client's next command, whose
  session copy puts it back into the deleted channel. `/ch join`, `/nick` and
  `/away` of a client with a session are undone by the end of the same command.
  `/ch create` replaces the account's snapshot and the invoker's entry by those of
  its made-up session. Chat kicks go to channel 1 and clean up nothing.
- Persistence: a torn `runtime-state.json` needs a manual repair;
  `next_client_database_id` from the file wins over the one derived from SQLite
  (runtime/persistence.rs:527), so that an id may be given out whose row is another
  account's; an account that is deleted and created again loses its client record
  with the next restart, and a record that clientdbdelete removed comes back with
  it (database/clients.rs:5); a used-up initial key is replaced at every start;
  `should_persist_command` (catalog_and_utils.rs:125) has no caller.
- Moderation: `web_ban_reason_for_client` (runtime/web.rs:64) has no caller, so a
  ban does not keep anybody from connecting.
- Permissions: after a restart the next clientaddperm panics on an unwrap with the
  mutex held (permissions/entity_permissions.rs:57), which poisons it, while
  main.rs:163 says "Type `permreset` here at any time if locked out!"; deleting
  the guest group 7 makes accounts without groups administrators; a saved list
  of groups may name groups deleted since. A channel group given to a client
  outlives clientdbdelete as long as the client has a permission of its own, and
  goes with the next normalisation after clientdelperm took the last of these
  (five commands; the attempt to prove `RightsLast` showed it, not a run).
- Music: a reorder behind an unknown song answers "song not found" after it took
  the song out; an empty playlist assigned to a playing bot leaves it playing.
- Streams: a change of type by updatestream, or a stop by somebody else, leaves a
  broadcast behind; a broadcast that stops and resumes before the loop looks
  leaves TS6 viewers without a feed; a stopped TS6 stream keeps the slots of
  TeaSpeak viewers; a re-offer enters an outdated copy of the slots. "so Camera (0) and
  Screen (1) never collide on the same `bt`" (rtc_manager.rs:197) holds for two tracks. After a
  renegotiation, or a broadcastvideo with another ssrc, a third one stays in the table, and of
  three two share a type; and since a registration enters a displaced track as that of the other
  type, broadcastvideo for the camera may make a track of an earlier negotiation the screen's, to
  which requests for key frames of the screen then go (rtc_manager.rs:209-211, 404).
- Files: a raw upload whose peer goes away is reported complete; transfers never
  expire; ftinitupload empties the old file before a byte arrives; a request with
  the wrong method uses up the key; the avatar flag is that of the client that
  gives the command, whoever the avatar is of.

## 4. Proofs

Eight modules of theorems, checked by TLAPS for every value of the constants that
the assumptions allow.

| module | theorem | states |
|---|---|---|
| ChannelTreeProofs | TypeCorrect | `Spec => []TypeOK` |
| | TreeStaysWellFormed | `Spec => []TreeWellFormed` |
| | DefaultStaysUnique | `Spec => []AtMostOneDefault` |
| | NobodyIsStranded | `Spec => NobodyStranded` |
| | SiblingsStayChained | `Spec => []SiblingChain` |
| PresenceProofs | TypeCorrect | `Spec => []TypeOK` |
| | ClientIdsAreUnique | `Spec => []UniqueClientIds` |
| | OnlySessionsAndBotsStrand | `Spec => OnlyStaleSessionsStrand` |
| | OnlineWhileListening | `ViewSpec => []SessionsOnline`, of DesktopView |
| | SessionsEndByOwnLeaving | `ViewSpec => OnlyOwnLeavingEnds` |
| | ViewsShowTables | `ViewSpec => []ViewsAgree` |
| DurabilityProofs | TypeCorrect | `Spec => []TypeOK` |
| | RepliesSurvive | `Spec => []RepliesSurviveCrashes` |
| | RecordsSurvive | `Spec => []RecordsLostOnlyByCollision` |
| | OnlyCrashesOveruse | `Spec => []OverusedOnlyByCrash` |
| PermissionsProofs | TypeCorrect | `Spec => []TypeOK` |
| | RightsGiven | `Spec => []RightsWereGiven` |
| | RightsRemain | `Spec => []RightsLast` |
| | GuestFallback | `Spec => FallsBackToGuest` |
| | TiersDecide | `Spec => []LayersDecide` |
| MusicBotProofs | TypeCorrect | `Spec => []TypeOK` |
| | CurrentStays | `Spec => CurrentStaysQueued` |
| | BotsPlaySomething | `Spec => PlaysSomething` |
| | BotsImplementPlayer | `Spec => ImplementsPlayer`, the refinement of BotPlayer |
| | EngineTypeCorrect | `EngineSpec => []EngineTypeOK`, of AudioEngine |
| | OneStreamLives | `EngineSpec => []OneLiveStream` |
| | BroadcastsAreBacked | `EngineSpec => []BroadcastBacked` |
| Ts6StreamsProofs | TypeCorrect | `Spec => []TypeOK` |
| | StreamsAreBroadcast | `Spec => []StreamsMatchBroadcasts` |
| | BroadcastsAreListed | `Spec => []BroadcastsListed` |
| | BridgesEndWithStreams | `Spec => []BridgesFollowStreams` |
| | BridgesHaveFeeds | `Spec => []BridgesAreFed` |
| RtcManagerProofs | TypeCorrect | `Spec => []TypeOK` |
| | SlotsAreTrue | `Spec => []SlotsShowBroadcasts` |
| | TablesOfTracksAgree | `Spec => []TracksKeepTypes` |
| | RemoteViewsAreKept | `Spec => RemoteViewsKept` |
| FileTransferProofs | TypeCorrect | `Spec => []TypeOK` |
| | UploadsStayApart | `Spec => []UploadsDoNotMix` |
| | AvatarFlagsStayTrue | `Spec => []AvatarFlagsTrue` |
| | DownloadsKeepPromises | `Spec => []DownloadsAsPromised` |
| | CompleteUploadsAreWhole | `Spec => CompleteUploadsWhole` |

Every one of them but the type invariants of Durability, AudioEngine, Ts6Streams
and FileTransfer is a property of a run too.

### Assumptions

They stand in the modules that declare the constants, and TLC evaluates them in
each run. Besides the bounds being natural numbers:

- ChannelTree: `MaxChannelId >= 2` (two channels are seeded), `Bots \subseteq
  Clients`, `KindsUsed \subseteq Kinds`, `ForceValues \subseteq {0, 1}`; known dialects
  (`UdpAssumption`), and parents and orders that UDP clients ask for in the range of ids
  (`RawIdsAssumption`; a larger one behaves as one that is not in use).
- Presence: `MaxChannelId >= 2`; `MaxQueryId <= MaxClientId`, the bound that keeps
  the counter of the query clients below the ids of the desktop clients (section
  3, Bounds); every session has one transport; requests name parents in the range
  of ids and known kinds.
- DesktopView: `MaxChannelId >= 1` (the first channel is seeded), and requests name
  parents in the range of ids, known kinds of channel and known dialects.
- Durability: accounts and members are different people and there are finitely
  many (`FiniteAssumption`), because a count of holders is compared with a limit;
  `MaxTokenId >= 1` and `MaxUses >= 1`, since the start makes a key with max_uses 1.
- Permissions: `MaxServerGroup >= 9` and `MaxChannelGroup >= 10` (the groups of the
  seeds have these ids), requests assign permissions of the catalogue, and
  serveradmin is no client and is not called "query-account", the name that
  `DefaultGroups` takes for any other login (`AdminAssumption`).
- MusicBot: `MaxSong >= 1`, since `/play` of a url makes a bot with its first song
  in one step; with 0 the type invariant would not hold. Replay modes are 0 to 2.
- Ts6Streams: there are finitely many TS6 clients and others and nobody is both,
  and who may stream is a TS6 client.
- RtcManager: at least two slots at first and more in a larger offer, the viewer
  is no TS6 client, broadcasts are of type 0 or 1, None is no broadcast, no
  type and no track (`NoneAssumption`), and an offer is a sequence of tracks and gaps
  (`OffersAssumption`). The number of tracks, offers and sections is free.
- FileTransfer: finitely many clients and files, with different names.

### Arguments

**ChannelTree.** `IInv == TypeOK /\ Sound(channels, loose) /\ Deletions(deleting)`.
`Sound(ch, L)` says that the channels outside L have parents that exist and no cycle
among themselves, and that there is one default. None of it is inductive alone:
deletion needs that the children of a removed channel are removed with it, placed
elsewhere or in L; a move needs that the new parent is no descendant, which
`channel_is_descendant` settles only where its walk ends (`WalkEnds`), in a table that
may have cycles already. Acyclicity is stated without recursion (no nonempty set of
channels whose parents all lie inside it), so that each operator of the runtime has one
lemma, and each UDP command one that says which channels enter L; `Inductive` applies
them action by action. That a chain is relinked never matters to these facts:
`RelinkKeepsLinks` says that relinking changes orders only. `Deletions` says that a deletion
under way names a channel and a place to go, which `NobodyIsStranded` needs for the second part of a
UDP channeldelete.

`SiblingChain` is about what a walk along a chain returns. Its invariant is
`Chained(ch, U)`, beside `Sound`: the children of every parent outside U stand in some
sequence without repetition in which each one's order is its predecessor, the first one's
0. The two loops of `OrderedSiblingIds` meet every sibling exactly once whatever
the links are (`TwoLoops`, `OrderedEnumerates`: a loop that appends one new
element a turn ends with all of them), so a relink makes a chain of any table, also of one
that UDP commands left with raw orders (`RelinkLinks`, `RelinkChained`); a move leaves
the chain of the old parent without one, closed over the gap, and enters another (`MoveChained`),
and a removal relinks what is left (`RemoveChained`). In a chained table the walk follows the chain
to its end (`ChainFollowed`), which is the property.

**Presence.** `UniqueClientIds` is not inductive: the next id could be one that a
session still holds while it is not online. `IdsOK` adds that query clients and
bots have ids below one counter and desktop clients ids above MaxQueryId and below
the other, and that who selected the server has an id. `Tables` adds that channel
1 is always there, permanent, at the root and the default: everybody whom a
deletion moves away has a place to go. The two loops of the housekeeping
(`Dropped`, over the clients that timed out, and `Swept`, over the channels) are
recursive functions; `LoopEnds` shows that such a function exists and `LoopTidy`
that every turn keeps what a turn must keep, by looking at the first turn that
would not.

**DesktopView.** `ViewInv` joins the types, `SessionsOnline` for every address
(`Online`) and what makes it inductive. `SessionsOK`: no two addresses share a client
id, and all of them lie below the counter. `TaskOK`: the command that the loop is in
the middle of is one of a session that goes on. `Unused`: from the counter on, no id
is online or said to have been thrown out, so that a new client starts with a clean
name. `Novice`: a client whose id was never online before is either waiting to
enter, and not online, or named, and then a notification that somebody else threw
it out is true; this is what `OnlyOwnLeavingEnds` needs. A step is reduced to what
it does to the entries of clients and to the queue (`Plain`, `Throws`, `Announced`,
`Deeds`): each client that disappears is announced in the same step, but for the
silence of `Zombie`. Only `Notify` takes from the queue and ends sessions
(`WhoEnds`), and a client reads every notification that says it was thrown out
(`ReadsOfLeaving`), since `is_self_already_sent` holds none of these back.

`ViewsAgree` speaks of the moment at which nothing waits; its invariant `SeesInv`
joins `ViewInv` and `ViewsSeen`, which holds at every moment. For every client that
listens and every channel or client it could know, what it will make of the
notifications that wait, read in their order as it is shown them, and then of the
one its own command has yet to publish (`Knows`, `Foresees`, `ForeseesAway`), is
what the tables say, or it is excused. An away flag of -1 stands for "as the tables
have it", since the notification of somebody who enters is filled in when it is
sent. The last notification about an object decides what is foreseen (`Heard`,
`HeardAway`; the readings are recursive functions, and their facts are found by
the first place where they would fail, `KeptFrom`). Each command changes entries of
the tables and announces them in the same step (`CommitExcuses`, `Appended`,
`AppendedAway`), to the others in one way and to the client that gave the command
in another (`OthersForesee`); a client that goes (`Vacate`), the snapshot that
clientinit takes (`SnapshotForeseen`), an answer of the runtime (`AnsweredGone`,
`NotAnsweredShown`) and the delivery of a notification (`ReadForeseen`) have lemmas
of their own. When the queue is empty, what is foreseen is what is seen
(`SeesNow`).

**Durability.** The invariant has a part for the keys, one for complaints and
messages and one for accounts. Each says the same of the memory of a serving
runtime and of a whole file, since a start makes the first out of the second and a
save the second out of the first; while a command stands between its change and
its save, the promise of its reply is not due yet. That no id comes back needs
that an id which is gone has been passed by its counter, also after the counter
is seeded again from the largest id in a table. `OverusedOnlyByCrash` needs the
count: a limited key has counted all holders that no crash cut.

**Permissions.** `RightsWereGiven` and `RightsLast` say the two directions of one
correspondence between the history of gifts and the tables, and neither is
inductive. The membership of a client that is away is in its saved list only, so
`ClientRights` says the same of that list with `stale` in place of `outdated`, and
that what was given is for a group that exists: servergroupdel and a start take
nothing from a saved list, and the next connection copies it as it is. A right in a
channel lasts only if no normalisation finds its holder unknown or its channel
gone, so `AssignedLast` and `PermittedLast` carry `Known(w)` and the channel; and
whoever is online is in store.clients and has a row (`Persons`), or a restart
would make it unknown. A target has a permission, or a start would drop it. One
lemma per command follows (`ServerGroupDeleted`, `ClientForbidden`, `Restarted`
and so on), most of them from what the command leaves alone (`AccountFrame` to
`ChannelFrame`). `FallsBackToGuest` needs of the invariant only that accounts are
accounts; `StepFalls` looks at each command that changes one. `TiersDecide` is
about operators: after each tier, `Decided` holds of the tiers so far
(`FirstTierDecides`, `NextTierDecides`), and in groups a value lies in a finite
range, in which the smallest and the largest exist (`Extremes`).

**MusicBot.** `IInv` says of every bot that its queue holds each id at most once
and only ids below next_song_id, and that its client is one of those made so far.
What the commands do to a queue is settled by what `InsertAt`, `RemoveAt`, `Swap`
and a permutation do to each place (`RemovedQueue`, `InsertedQueue`,
`RearrangedQueue`; a shuffle loses no song because an injection of a finite set
into itself is onto). Each command then keeps a bot in order (`Kept`), and
`StepShapes` says that a step alters one bot, makes one, drops one or gives one
the playlist of another. The four theorems follow from the shapes. For
`BotsImplementPlayer` this is what matters: a new bot has an id nobody has
(`NextBotIsNew`) and the client `clients + 1`, and no other step changes a client.
With the engine's part of the module, whose player is any behaviour of BotPlayer,
the engine's theorems hold for the bots as MusicBot runs them.

**AudioEngine.** `OneLiveStream` follows from `OnlyActiveLives` (only the stream in
active_streams has not been told to stop). `BroadcastBacked` needs in addition that
a client id which is still to be given is known to nobody (`KnownClients`):
otherwise an old broadcast would become that of a new bot. `VideoAfterBegin` keeps
a stream that starts its pipeline from having a video thread already.

**Ts6Streams.** Each property speaks of a moment at which nothing is under way; the
invariant says how the four tables may differ until then. `Who`: who is being
taken off the list of clients has stopped its streams, and a session outlives its
client only after a kick. `Matched`: a client without excuses broadcasts what it
streams unless the loop is at work on just this client; after a move it broadcasts
no more than it streams, so no synthetic stream is ever made for it. `Listed`:
while no event waits, the snapshot that the loop works from is what is on air, and
when it is through, streams and broadcasts list each other; an event that comes in
between only has to keep somebody responsible for another turn. `Follows` is the
property itself, with kicked viewers beside the connected ones. `Fed` needs to know
what is still to come: the bridge of a broadcast that is on air has its slot, or
was cut off from it, or the task that enters the slot is under way. Two earlier
forms of `BridgesAreFed` failed here, not in a run: a second task for the same
bridge may give it a slot again after the first was cut, and a slot that a late
task entered stands for a bridge made later. The variables `cut` and `late` now
tell these apart, and the property says so.

**RtcManager.** `Agree` is the property over any two tables, and `ResolveInv` says that it
holds of the tables as they will be once every type that waits is entered (`Settled`);
a track that is resolved has no type until then. `RegisteredSound` is the step that
needs all three parts of `Agree` at once: after a registration every other track has
the other type, so that type must have a track; when nobody was displaced and the
registered track was itself the track of that type, no third track can have had it,
because two tracks share a type only if another has the other one, which would have
been displaced. `RegisteredOffer` walks over the sections of an offer as a recursive
function of any length: `SectionsExist` shows that it exists and `OfferSound` that every
section keeps `Agree`, by counting up to the first that would not. For
the slots, what a re-offer copied is a table of slots that it may add to.

**FileTransfer.** `Base` ties ids, names, files and threads together: an id
belongs to one transfer, which is registered, or served by one thread, or over.
`WritersOK` says of each thread what its open file holds: exactly the upload so
far, or the upload met another one. `DownloadsOK` says that a download not yet
begun is promised the rest of the file its name stands for, and one that has begun
has got it up to where its thread is.

Only model-checked: liveness (`GhostsLeave`, `AbandonedChannelsGo`,
`WantedIsPlayed`), which is beyond the prover together with `ENABLED`.

## 5. Plan

All components of section 1 that keep state shared by several actors have a
module, but for the lifecycle of virtual servers and web sessions, and the safety
invariants and step properties of their runs are proved.

To model: create, start, stop, delete, snapshot and deploy of virtual servers, the
phases of web sessions, flood points per address.

## 6. Not modelled

- Virtual server lifecycle: all modules are about one virtual server. Deletion
  removes rows by server from every table of section 1 and sends a message to the
  listener; what it forgets is a question about tables that no module has side by
  side yet.
- Web sessions: their commands end in the same runtime handlers that Presence and
  Permissions model; the phases of the connection and the rows they render
  are not modelled.
- BTEA UDP and the ciphers, codecs, media packets: arithmetic on bytes without
  protocol state.
- Flood points: they refuse commands and change nothing else, and a refused
  command is a stuttering step.
- Clients (user interface, audio devices), TSDNS and static files (tables),
  wording, logging, lists and formatting of replies.
- Passwords and names of channels are data that never decide a place; outside of
  Permissions, whether a command is allowed is left open.

## 7. Running

    tlc -workers 2 -config ChannelTree.cfg MCChannelTree
    tlapm ChannelTreeProofs.tla

and likewise for the other runs of section 3 and the other modules of section 4.

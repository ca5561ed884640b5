------------------------------ MODULE BotQueue ------------------------------
(***************************************************************************)
(* What the commands of a music bot do to its queue, as operators on the   *)
(* bot's record:                                                           *)
(*                                                                         *)
(*     client   linked_client_id, 0 for a playlist without a bot           *)
(*     queue    the entries [id, url] in order                             *)
(*     cur      current_song_id, 0 for None                                *)
(*     next     next_song_id                                               *)
(*     state    "stopped", "playing" or "paused"                           *)
(*     mode     playlist_replay_mode: 1 repeats all, 2 one, else none      *)
(*                                                                         *)
(* Titles, lengths and the position in the song are left out: they decide  *)
(* what is shown and where a stream starts, never which song it plays.     *)
(* previous_song_id of an entry is the entry before it, as                 *)
(* normalize_music_bot_queue makes it.                                     *)
(***************************************************************************)
EXTENDS Naturals, Sequences, SequencesExt, FiniteSetsExt

NewBot(client) ==
    [client |-> client, queue |-> <<>>, cur |-> 0, next |-> 1,
     state |-> "stopped", mode |-> 0]

Ids(b) == {b.queue[i].id : i \in DOMAIN b.queue}

\* position of song s in the queue, 0 if it is not there.
Pos(b, s) == IF s \in Ids(b) THEN CHOOSE i \in DOMAIN b.queue : b.queue[i].id = s ELSE 0

\* id of the entry at position i, 0 if there is none (Vec::get).
IdAt(b, i) == IF i \in DOMAIN b.queue THEN b.queue[i].id ELSE 0

First(b) == IdAt(b, 1)
Last1(b) == IdAt(b, Len(b.queue))

\* x.or(y) on ids.
OrElse(x, y) == IF x # 0 THEN x ELSE y

-----------------------------------------------------------------------------
(* The helpers of musicbot/mod.rs and queue_and_loader.rs.                 *)

\* normalize_music_bot_queue
Normalize(b) ==
    [b EXCEPT !.cur = IF @ \in Ids(b) THEN @ ELSE First(b),
              !.next = Max({@, 1} \union {s + 1 : s \in Ids(b)})]

\* A known predecessor: 0 or a song of the queue.
KnownPrevious(b, p) == p = 0 \/ p \in Ids(b)

\* insert_music_queue_entry: an empty queue starts to play.
InsertSong(b, e, p) ==
    LET q == Normalize([b EXCEPT !.queue =
                 InsertAt(@, IF p = 0 THEN Len(@) + 1 ELSE Pos(b, p) + 1, e)])
    IN  IF b.queue # <<>> THEN q ELSE [q EXCEPT !.cur = First(q), !.state = "playing"]

\* Mutant: a bot that loses its last song plays on.
RemovePlaysOn(b, s) ==
    LET i == Pos(b, s)
        q == [b EXCEPT !.queue = RemoveAt(@, i)]
    IN  Normalize([q EXCEPT !.cur = IF @ = s THEN OrElse(IdAt(q, i), IdAt(q, i - 1)) ELSE @])

\* remove_music_queue_entry
RemoveSong(b, s) ==
    LET i == Pos(b, s)
        q == [b EXCEPT !.queue = RemoveAt(@, i)]
        c == OrElse(IdAt(q, i), IdAt(q, i - 1))
    IN  Normalize(IF b.cur # s THEN q
                  ELSE [q EXCEPT !.cur = c, !.state = IF c = 0 THEN "stopped" ELSE @])

\* reorder_music_queue_entry: the entry is taken out before its new place is
\* looked up, and an unknown predecessor returns without it.
ReorderSong(b, s, p) ==
    LET q == [b EXCEPT !.queue = RemoveAt(@, Pos(b, s))]
        e == b.queue[Pos(b, s)]
    IN  IF KnownPrevious(q, p)
        THEN Normalize([q EXCEPT !.queue = InsertAt(@, Pos(q, p) + 1, e)])
        ELSE q

\* Play song s (0: stop).
PlayOrStop(b, s) ==
    [b EXCEPT !.cur = s, !.state = IF s = 0 THEN "stopped" ELSE "playing"]

-----------------------------------------------------------------------------
(* musicbotplayeraction, without the normalisation that ends it.           *)

Play(b) ==
    LET c == OrElse(b.cur, First(b))
    IN  [b EXCEPT !.cur = c, !.state = IF c # 0 THEN "playing" ELSE @]

Pause(b) == [b EXCEPT !.state = IF b.cur # 0 THEN "paused" ELSE "stopped"]

\* next and previous go round at the ends.
NextSong(b) ==
    LET i == Pos(b, b.cur)
    IN  PlayOrStop(b, IF i = 0 THEN First(b) ELSE OrElse(IdAt(b, i + 1), First(b)))

PrevSong(b) ==
    LET i == Pos(b, b.cur)
    IN  PlayOrStop(b, IF i = 0 THEN First(b) ELSE OrElse(IdAt(b, i - 1), Last1(b)))

\* Mutant: the current song is kept.
ClearQueue(b) == [b EXCEPT !.queue = <<>>, !.state = "stopped"]

Clear(b) == [b EXCEPT !.queue = <<>>, !.cur = 0, !.state = "stopped"]

Swap(q, i, j) == [q EXCEPT ![i] = q[j], ![j] = q[i]]

MoveUp(b, s) ==
    LET i == Pos(b, s) IN IF i > 1 THEN [b EXCEPT !.queue = Swap(@, i, i - 1)] ELSE b

MoveDown(b, s) ==
    LET i == Pos(b, s)
    IN  IF i # 0 /\ i < Len(b.queue) THEN [b EXCEPT !.queue = Swap(@, i, i + 1)] ELSE b

Permuted(q) == {[i \in DOMAIN q |-> q[p[i]]] :
                   p \in {f \in [DOMAIN q -> DOMAIN q] : IsInjective(f)}}

\* shuffle: the current song goes to the front, the rest in some order.
Shuffles(b) ==
    LET i == Pos(b, b.cur)
    IN  IF i = 0 THEN {[b EXCEPT !.queue = q] : q \in Permuted(b.queue)}
        ELSE {[b EXCEPT !.queue = <<b.queue[i]>> \o q] : q \in Permuted(RemoveAt(b.queue, i))}

-----------------------------------------------------------------------------
(* The chat commands, which have queue code of their own.                  *)

\* /play and /add of a url: the song goes to the end, and plays at once when asked to.
ChatEnqueue(b, url, now) ==
    LET s == b.next
        q == InsertSong([b EXCEPT !.next = s + 1], [id |-> s, url |-> url], Last1(b))
    IN  IF now \/ q.cur = s THEN PlayOrStop(q, s) ELSE q

\* step_bot_track: /skip stops at the end of the queue, /prev stays at its start.
ChatSkip(b) == PlayOrStop(b, IF Pos(b, b.cur) = 0 THEN 0 ELSE IdAt(b, Pos(b, b.cur) + 1))

ChatPrev(b) ==
    PlayOrStop(b, IF Pos(b, b.cur) = 0 THEN First(b) ELSE OrElse(IdAt(b, Pos(b, b.cur) - 1), First(b)))

\* /qremove: the song at the place takes over, or the first one.
ChatRemove(b, i) ==
    LET q == [b EXCEPT !.queue = RemoveAt(@, i)]
        c == OrElse(IdAt(q, i), First(q))
    IN  IF b.cur # b.queue[i].id THEN q
        ELSE [q EXCEPT !.cur = c, !.state = IF c = 0 THEN "stopped" ELSE @]

\* Mutant: the song stays at its old place as well.
ChatMoveCopies(b, i, j) == [b EXCEPT !.queue = InsertAt(@, j, b.queue[i])]

\* /qmove
ChatMove(b, i, j) == [b EXCEPT !.queue = InsertAt(RemoveAt(@, i), j, b.queue[i])]

-----------------------------------------------------------------------------
(* The end of a song and the change of the playlist.                       *)

\* advance_bot_queue_on_eof for a bot that still plays song s.
AfterEnd(b, s) ==
    LET i == Pos(b, s)
        n == IF b.mode = 2 THEN s
             ELSE IF i = 0 THEN 0
             ELSE IF b.mode = 1 THEN OrElse(IdAt(b, i + 1), First(b))
             ELSE IdAt(b, i + 1)
    IN  IF n = 0 THEN [b EXCEPT !.state = "stopped"] ELSE PlayOrStop(b, n)

\* musicbotplaylistassign: everything but the state comes from the source.
Assign(b, src) ==
    Normalize([b EXCEPT !.queue = src.queue, !.cur = src.cur,
                        !.next = src.next, !.mode = src.mode])
=============================================================================

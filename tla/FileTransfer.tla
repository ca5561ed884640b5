---------------------------- MODULE FileTransfer ----------------------------
(***************************************************************************)
(* Files and the transfers of them.                                        *)
(*                                                                         *)
(* A command (ftinitupload, ftinitdownload) resolves a name, registers a   *)
(* transfer and hands out its key; the client then presents the key on a   *)
(* connection of its own, which a thread of the file transfer server       *)
(* serves, over TLS as an HTTP request or as raw TCP.  The commands run    *)
(* under the runtime mutex; the threads take a transfer out of the         *)
(* registry under its lock and then work on the file with no lock at all,  *)
(* beside each other and beside ftdeletefile, ftrenamefile, ftstop and     *)
(* ftinitupload, which work on the same files at once.                     *)
(*                                                                         *)
(* A file is an object that names point to: an open file stays the same    *)
(* one when its name is deleted or moved.  Its content is a sequence of    *)
(* units (one write of a thread each), a unit being the id of the upload   *)
(* that wrote it, or 0 where nothing was written.                          *)
(*                                                                         *)
(* Left out: directories, icons and music files, the permissions and       *)
(* passwords that may refuse a command, and lists of files, which change   *)
(* nothing.                                                                *)
(***************************************************************************)
EXTENDS Integers, FiniteSets, SequencesExt

CONSTANTS
    Clients,        \* clients, each also the name of its avatar
    Files,          \* names of files in channels
    MaxSize,        \* bound on the size of an upload
    MaxTransfers,   \* bound on next_server_transfer_id
    MaxFiles,       \* bound on the files ever made
    MaxOps          \* bound on commands other than the preparations

ASSUME NamesAssumption == Clients \cap Files = {} /\ IsFiniteSet(Clients) /\ IsFiniteSet(Files)
ASSUME TransferBounds ==
    MaxSize \in Nat /\ MaxTransfers \in Nat /\ MaxFiles \in Nat /\ MaxOps \in Nat

Names == Clients \union Files
Ids   == 1..MaxTransfers

VARIABLES
    dir,        \* the file behind every name, 0 if there is none
    data,       \* the contents of the files made so far
    transfers,  \* FileTransferRegistry.transfers
    nextId,     \* next_server_transfer_id
    conns,      \* the threads that serve a transfer
    flag,       \* client_flag_avatar is set
    told,       \* what the client heard of its upload
    ops,        \* commands given
    promise,    \* history: what every download was to deliver
    got,        \* history: what a download delivered so far
    finished,   \* history: downloads that ran to their end
    touched,    \* history: downloads whose file changed under way
    crossed,    \* history: uploads that met another one on their file
    odd         \* history: clients whose avatar was handled in another way

store == <<dir, data>>
hist  == <<promise, got, finished, touched, crossed, odd>>
vars  == <<store, transfers, nextId, conns, flag, told, ops, hist>>

Init ==
    /\ dir = [n \in Names |-> 0] /\ data = <<>>
    /\ transfers = {} /\ nextId = 1 /\ conns = {}
    /\ flag = [c \in Clients |-> FALSE]
    /\ told = [i \in Ids |-> "nothing"] /\ ops = 0
    /\ promise = [i \in Ids |-> <<>>] /\ got = [i \in Ids |-> <<>>]
    /\ finished = {} /\ touched = {} /\ crossed = {} /\ odd = {}

-----------------------------------------------------------------------------
(* The file system.                                                        *)

Zeros(n) == [i \in 1..n |-> 0]

\* File::create: the file behind name n is emptied, or a new one is made.
Create(n, content) ==
    IF dir[n] # 0
    THEN dir' = dir /\ data' = [data EXCEPT ![dir[n]] = content]
    ELSE /\ Len(data) < MaxFiles
         /\ data' = Append(data, content)
         /\ dir' = [dir EXCEPT ![n] = Len(data')]

\* A unit written at position pos; a gap before it reads as zeros.
WriteAt(content, pos, unit) ==
    [i \in 1..(IF pos > Len(content) THEN pos ELSE Len(content)) |->
        IF i = pos THEN unit ELSE IF i <= Len(content) THEN content[i] ELSE 0]

\* The threads that have file f open.
Users(f) == {c \in conns : c.file = f /\ f # 0}
\* The downloads that are promised name n or read file f.
Reading(n, f) ==
    {t.id : t \in {u \in transfers : ~ u.up /\ u.name = n}}
    \union {c.id : c \in {d \in conns : ~ d.up /\ ((d.file = f /\ f # 0) \/ (d.file = 0 /\ d.name = n))}}

-----------------------------------------------------------------------------
(* Commands.                                                               *)

Command == ops < MaxOps /\ ops' = ops + 1

\* register_transfer.  The key is made of the id and the size; ids are unique.
Register(up, n, seek, size) ==
    /\ nextId <= MaxTransfers
    /\ transfers' = transfers \union {[id |-> nextId, up |-> up, name |-> n,
                                       seek |-> seek, size |-> size]}
    /\ nextId' = nextId + 1

\* set_actor_avatar_flag, if the name given begins with /avatar.  The flag is
\* that of the client that gives the command, whoever the avatar is of.
SetAvatarFlag(c, n, slash, value) ==
    IF n \in Clients /\ slash
    THEN flag' = [flag EXCEPT ![c] = value] ELSE UNCHANGED flag

\* The clients whose avatar is not handled by themselves under its usual name.
Oddly(c, n, slash) ==
    IF n \notin Clients THEN odd
    ELSE IF n = c /\ slash THEN odd \ {c} ELSE odd \union {c, n}

\* Mutant: an upload may begin before the file is there.
ReserveNothing(n, size) == UNCHANGED store

\* prepare_upload makes the file at once, in its full size.
Reserve(n, size) == Create(n, Zeros(size))

(***************************************************************************)
(* ftinitupload of name n.  The flag of an avatar is set before a byte of  *)
(* it arrives.                                                             *)
(***************************************************************************)
InitUpload(c, n, slash, size, overwrite) ==
    /\ dir[n] # 0 => overwrite
    /\ Register(TRUE, n, 0, size)
    /\ Reserve(n, size)
    /\ SetAvatarFlag(c, n, slash, TRUE)
    /\ odd' = Oddly(c, n, slash)
    /\ touched' = touched \union Reading(n, dir[n])
    /\ crossed' = crossed \union {d.id : d \in {u \in Users(dir[n]) : u.up}}
    /\ UNCHANGED <<conns, told, ops, promise, got, finished>>

\* prepare_download: the size announced is that of the rest of the file.
PrepareDownload(n, seek) ==
    /\ dir[n] # 0 /\ seek <= Len(data[dir[n]])
    /\ Register(FALSE, n, seek, Len(data[dir[n]]) - seek)

\* ftinitdownload.
InitDownload(n, seek) ==
    /\ PrepareDownload(n, seek)
    /\ promise' = [promise EXCEPT ![nextId] = SubSeq(data[dir[n]], seek + 1, Len(data[dir[n]]))]
    /\ UNCHANGED <<store, conns, flag, told, ops, got, finished, touched, crossed, odd>>

\* A name goes.
Unlink(n) ==
    /\ dir' = [dir EXCEPT ![n] = 0] /\ UNCHANGED data
    /\ touched' = touched \union Reading(n, 0)

\* take_transfer, and take_transfer_matching_prefix for raw TCP: a key serves once.
Claim(t) == t \in transfers /\ transfers' = transfers \ {t}

\* ftstop: only transfers that no thread has taken can be stopped.
Stop(t, delete) ==
    /\ Claim(t) /\ Command
    /\ IF delete /\ t.up
       THEN Unlink(t.name) /\ odd' = IF t.name \in Clients THEN odd \union {t.name} ELSE odd
       ELSE UNCHANGED <<store, touched, odd>>
    /\ UNCHANGED <<nextId, conns, flag, told, promise, got, finished, crossed>>

\* ftdeletefile.  Transfers of the file stay registered.
Delete(c, n, slash) ==
    /\ dir[n] # 0 /\ Command
    /\ Unlink(n)
    /\ SetAvatarFlag(c, n, slash, FALSE)
    /\ odd' = Oddly(c, n, slash)
    /\ UNCHANGED <<transfers, nextId, conns, told, promise, got, finished, crossed>>

\* rename_entry.
MoveName(n, m) ==
    /\ dir[n] # 0 /\ dir[m] = 0
    /\ dir' = [dir EXCEPT ![n] = 0, ![m] = dir[n]] /\ UNCHANGED data

\* ftrenamefile: the file is known by another name, whatever is under way.
Rename(n, m) ==
    /\ MoveName(n, m) /\ Command
    /\ touched' = touched \union Reading(n, 0) \union Reading(m, 0)
    /\ odd' = odd \union ({n, m} \cap Clients)
    /\ UNCHANGED <<transfers, nextId, conns, flag, told, promise, got, finished, crossed>>

-----------------------------------------------------------------------------
(* Connections.                                                            *)

\* The client hears of uploads only (should_emit_client_events).
Tell(t, what) == told' = IF t.up THEN [told EXCEPT ![t.id] = what] ELSE told

\* How much an HTTP request uploads is what its body says, which is read before
\* the key is looked at, and not what ftinitupload was told.
Amount(t, http, size) == (http /\ t.up) \/ size = t.size

\* A connection presents a key.
Take(t, http, size) ==
    /\ Claim(t)
    /\ Amount(t, http, size)
    /\ conns' = conns \union {[id |-> t.id, up |-> t.up, name |-> t.name, seek |-> t.seek,
                               size |-> size, http |-> http, file |-> 0, pos |-> t.seek]}
    /\ Tell(t, "started")
    /\ UNCHANGED <<store, nextId, flag, ops, hist>>

\* A request with the wrong method uses up the key.
TakeInVain(t) ==
    /\ Claim(t) /\ Command
    /\ UNCHANGED <<store, nextId, conns, flag, told, hist>>

\* The thread goes on as d, or ends.
Becomes(c, d) == conns' = (conns \ {c}) \union {d}
Ends(c) == conns' = conns \ {c}

\* Mutant: a raw upload opens the file as it is.
OpenInPlace(c) ==
    IF c.http \/ dir[c.name] = 0 THEN Create(c.name, <<>>) ELSE UNCHANGED store

\* The file of an upload is emptied when its thread opens it.
OpenEmpty(c) == Create(c.name, <<>>)

(***************************************************************************)
(* An upload opens its file, by its name, which may be of another file by  *)
(* now, or of none: then the file is made again.                           *)
(***************************************************************************)
OpenUpload(c) ==
    LET others == {d.id : d \in {u \in Users(dir[c.name]) : u.up}}
    IN  /\ c \in conns /\ c.up /\ c.file = 0
        /\ OpenEmpty(c)
        /\ Becomes(c, [c EXCEPT !.file = dir'[c.name]])
        /\ touched' = touched \union Reading(c.name, dir[c.name])
        /\ crossed' = crossed \union others \union (IF others = {} THEN {} ELSE {c.id})
        /\ odd' = IF c.name \in Clients /\ dir[c.name] = 0 THEN odd \union {c.name} ELSE odd
        /\ UNCHANGED <<transfers, nextId, flag, told, ops, promise, got, finished>>

\* One write.
Write(c) ==
    /\ c \in conns /\ c.up /\ c.file # 0 /\ c.pos < c.size
    /\ data' = [data EXCEPT ![c.file] = WriteAt(@, c.pos + 1, c.id)]
    /\ Becomes(c, [c EXCEPT !.pos = @ + 1])
    /\ touched' = touched \union (UNION {Reading(n, c.file) : n \in {m \in Names : dir[m] = c.file}})
                         \union {d.id : d \in {e \in Users(c.file) : ~ e.up}}
    /\ UNCHANGED <<dir, transfers, nextId, flag, told, ops, promise, got, finished, crossed, odd>>

\* Mutant: an upload over HTTP that breaks off is complete, too.
EndUploadEarly(c) ==
    /\ c \in conns /\ c.up /\ c.file # 0
    /\ Ends(c) /\ Tell(c, "complete")
    /\ UNCHANGED <<store, transfers, nextId, flag, ops, hist>>

\* Everything is written, or the peer of a raw upload closed its side early.
EndUpload(c) ==
    /\ c \in conns /\ c.up /\ c.file # 0
    /\ c.pos = c.size \/ ~ c.http
    /\ Ends(c) /\ Tell(c, "complete")
    /\ UNCHANGED <<store, transfers, nextId, flag, ops, hist>>

\* The body of a request has no payload: the file is not opened.
RefusePayload(c) ==
    /\ c \in conns /\ c.up /\ c.http /\ c.file = 0
    /\ Ends(c) /\ Tell(c, "failed")
    /\ UNCHANGED <<store, transfers, nextId, flag, ops, hist>>

\* A read or write fails or times out.  Over raw TCP nobody is told.
Lose(c) ==
    /\ c \in conns /\ (c.up => c.file # 0 /\ ~ c.http /\ c.pos < c.size)
    /\ Ends(c)
    /\ UNCHANGED <<store, transfers, nextId, flag, told, ops, hist>>

\* Mutant: the thread begins at the start of the file.
OpenAtStart(c) == [c EXCEPT !.file = dir[c.name], !.pos = 0]

\* A download opens its file and goes to where it was asked to begin.
OpenAtSeek(c) == [c EXCEPT !.file = dir[c.name], !.pos = c.seek]

OpenDownload(c) ==
    /\ c \in conns /\ ~ c.up /\ c.file = 0
    /\ IF dir[c.name] = 0 THEN Ends(c) ELSE Becomes(c, OpenAtSeek(c))
    /\ UNCHANGED <<store, transfers, nextId, flag, told, ops, hist>>

\* A thread copies what is there, to the end, however much was announced.
Read(c) ==
    /\ c \in conns /\ ~ c.up /\ c.file # 0 /\ c.pos < Len(data[c.file])
    /\ got' = [got EXCEPT ![c.id] = Append(@, data[c.file][c.pos + 1])]
    /\ Becomes(c, [c EXCEPT !.pos = @ + 1])
    /\ UNCHANGED <<store, transfers, nextId, flag, told, ops, promise, finished, touched, crossed, odd>>

EndDownload(c) ==
    /\ c \in conns /\ ~ c.up /\ c.file # 0 /\ c.pos >= Len(data[c.file])
    /\ finished' = finished \union {c.id}
    /\ Ends(c)
    /\ UNCHANGED <<store, transfers, nextId, flag, told, ops, promise, got, touched, crossed, odd>>

Next ==
    \/ \E c \in Clients, n \in Names, slash, overwrite \in BOOLEAN, size \in 0..MaxSize :
        InitUpload(c, n, slash, size, overwrite)
    \/ \E n \in Names, seek \in 0..MaxSize : InitDownload(n, seek)
    \/ \E t \in transfers, delete \in BOOLEAN : Stop(t, delete)
    \/ \E c \in Clients, n \in Names, slash \in BOOLEAN : Delete(c, n, slash)
    \/ \E n, m \in Names : Rename(n, m)
    \/ \E t \in transfers, http \in BOOLEAN, size \in 0..MaxSize : Take(t, http, size)
    \/ \E t \in transfers : TakeInVain(t)
    \/ \E c \in conns :
        \/ OpenUpload(c) \/ Write(c) \/ EndUpload(c) \/ RefusePayload(c) \/ Lose(c)
        \/ OpenDownload(c) \/ Read(c) \/ EndDownload(c)

Spec == Init /\ [][Next]_vars

-----------------------------------------------------------------------------
(* Properties.                                                             *)

\* The tables hold what their types say.
TypeOK ==
    /\ dir \in [Names -> 0..Len(data)] /\ Len(data) <= MaxFiles
    /\ \A f \in 1..Len(data) : data[f] \in Seq(0..MaxTransfers) /\ Len(data[f]) <= MaxSize
    /\ \A n, m \in Names : dir[n] = dir[m] /\ n # m => dir[n] = 0
    /\ transfers \subseteq [id : Ids, up : BOOLEAN, name : Names,
                            seek : 0..MaxSize, size : 0..MaxSize]
    /\ nextId \in 1..(MaxTransfers + 1)
    /\ \A c \in conns : c.file \in 0..Len(data) /\ c.pos \in 0..MaxSize
    /\ flag \in [Clients -> BOOLEAN]
    /\ told \in [Ids -> {"nothing", "started", "complete", "failed"}]

(***************************************************************************)
(* A file with a unit of an upload in it holds nothing but that upload,    *)
(* from the first unit on, however many uploads, downloads, deletions and  *)
(* moves of the same name go on without a lock.  The exception are uploads *)
(* that have the same file open, or that are reserved for it while it is   *)
(* open.                                                                   *)
(***************************************************************************)
UploadsDoNotMix ==
    \A f \in 1..Len(data) : \A i \in 1..Len(data[f]) :
        data[f][i] \notin crossed \union {0} => \A j \in 1..Len(data[f]) : data[f][j] = data[f][i]

(***************************************************************************)
(* When a client is told that its upload over HTTP is complete, the file   *)
(* its thread wrote holds the whole of it and nothing else.  The exception *)
(* are uploads that met another one on their file.  (A raw upload whose    *)
(* peer went away early is reported complete as well.)                     *)
(***************************************************************************)
CompleteUploadsWhole ==
    [][\A c \in conns :
        c.http /\ c.id \notin crossed /\ told[c.id] # "complete" /\ told'[c.id] = "complete"
        => data[c.file] = [i \in 1..c.size |-> c.id]]_vars

(***************************************************************************)
(* A client has the avatar flag exactly if there is an avatar, although    *)
(* the flag is set when an upload is announced and the threads and ftstop  *)
(* change the files later.  The exceptions are an avatar that another      *)
(* client or a name without the leading slash touched, one that ftstop     *)
(* deleted or ftrenamefile moved, and one that an upload, announced        *)
(* before, made again after it was deleted.                                *)
(***************************************************************************)
AvatarFlagsTrue == \A c \in Clients \ odd : flag[c] <=> dir[c] # 0

(***************************************************************************)
(* A download that ran to its end delivered what ftinitdownload announced, *)
(* from the position it was asked for, unless the file changed between.    *)
(***************************************************************************)
DownloadsAsPromised == \A i \in finished \ touched : got[i] = promise[i]

=============================================================================

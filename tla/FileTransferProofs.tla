------------------------- MODULE FileTransferProofs -------------------------
(***************************************************************************)
(* For all names, sizes and numbers of transfers: what the threads of the  *)
(* file transfer server do without a lock, beside each other and beside    *)
(* the commands, mixes no two uploads, reports no upload over HTTP         *)
(* complete that is not whole, and delivers what a download announced,     *)
(* with the exceptions the properties name.                                *)
(***************************************************************************)
EXTENDS FileTransfer, SequenceTheorems, TLAPS

Content  == {s \in Seq(0..MaxTransfers) : Len(s) <= MaxSize}
Transfer == [id : Ids, up : BOOLEAN, name : Names, seek : 0..MaxSize, size : 0..MaxSize]
Thread   == [id : Ids, up : BOOLEAN, name : Names, seek : 0..MaxSize, size : 0..MaxSize,
             http : BOOLEAN, file : 0..MaxFiles, pos : 0..MaxSize]

\* Names point to files there are, and no two to the same.
FilesOK(d, dt) ==
    /\ dt \in Seq(Content) /\ Len(dt) <= MaxFiles
    /\ d \in [Names -> 0..Len(dt)]
    /\ \A n, m \in Names : d[n] = d[m] /\ n # m => d[n] = 0

\* An id belongs to one transfer, and that is registered, or served by one
\* thread, or over; an upload begins at the start of its file.
KeysOK(ts, cs, nx, fin) ==
    /\ ts \subseteq Transfer /\ cs \subseteq Thread /\ nx \in 1..(MaxTransfers + 1)
    /\ \A t \in ts : t.id < nx /\ t.id \notin fin
    /\ \A c \in cs : c.id < nx /\ c.id \notin fin
    /\ \A i \in fin : i \in Ids /\ i < nx
    /\ \A t, u \in ts : t.id = u.id => t = u
    /\ \A c, e \in cs : c.id = e.id => c = e
    /\ \A t \in ts, c \in cs : t.id # c.id
    /\ \A t \in ts : t.up => t.seek = 0
    /\ \A c \in cs : c.up => c.seek = 0 /\ (c.file = 0 => c.pos = 0)

\* Threads have files open that there are.
OpenOK(cs, dt) == \A c \in cs : c.file <= Len(dt)

\* The file of an upload holds nothing that was written before it was opened; it
\* holds exactly the upload so far, or the upload met another one.
WritersOK(cs, dt, cr) ==
    /\ \A c \in cs : c.up /\ c.file # 0 =>
          /\ \A i \in 1..Len(dt[c.file]) : dt[c.file][i] \in cr \union {0, c.id}
          /\ c.id \notin cr => /\ Len(dt[c.file]) = c.pos
                               /\ \A i \in 1..c.pos : dt[c.file][i] = c.id
    /\ \A c, e \in cs : c # e /\ c.up /\ e.up /\ c.file = e.file /\ c.file # 0 =>
                            c.id \in cr /\ e.id \in cr

Unmixed(dt, cr) ==
    \A f \in 1..Len(dt) : \A i \in 1..Len(dt[f]) :
        dt[f][i] \notin cr \union {0} => \A j \in 1..Len(dt[f]) : dt[f][j] = dt[f][i]

\* s is the part of content behind position from, up to position to.
Part(s, content, from, to) ==
    /\ s \in Seq(0..MaxTransfers) /\ from <= to /\ to <= Len(content) /\ Len(s) = to - from
    /\ \A i \in 1..(to - from) : s[i] = content[from + i]

\* A download that has not begun is promised the rest of the file of its name...
Due(t, d, dt, pr, gt) ==
    /\ d[t.name] # 0 /\ gt[t.id] = <<>>
    /\ Part(pr[t.id], dt[d[t.name]], t.seek, Len(dt[d[t.name]]))

\* ... and one that has begun has got it up to where its thread is.
Under(c, dt, pr, gt) ==
    /\ Part(pr[c.id], dt[c.file], c.seek, Len(dt[c.file]))
    /\ Part(gt[c.id], dt[c.file], c.seek, c.pos)

DownloadsOK(ts, cs, d, dt, pr, gt, tc) ==
    /\ \A t \in ts : ~ t.up /\ t.id \notin tc => Due(t, d, dt, pr, gt)
    /\ \A c \in cs : ~ c.up /\ c.id \notin tc =>
          IF c.file = 0 THEN Due(c, d, dt, pr, gt) ELSE Under(c, dt, pr, gt)

HistoryOK(pr, gt, nx) ==
    /\ pr \in [Ids -> Seq(0..MaxTransfers)] /\ gt \in [Ids -> Seq(0..MaxTransfers)]
    /\ \A i \in Ids : i >= nx => gt[i] = <<>>

RestOK ==
    /\ flag \in [Clients -> BOOLEAN]
    /\ told \in [Ids -> {"nothing", "started", "complete", "failed"}]

Base == FilesOK(dir, data) /\ KeysOK(transfers, conns, nextId, finished) /\ OpenOK(conns, data)

UploadInv   == WritersOK(conns, data, crossed) /\ Unmixed(data, crossed)
DownloadInv == /\ HistoryOK(promise, got, nextId)
               /\ DownloadsOK(transfers, conns, dir, data, promise, got, touched)
               /\ DownloadsAsPromised

IInv == Base /\ RestOK /\ UploadInv /\ AvatarFlagsTrue /\ DownloadInv

-----------------------------------------------------------------------------
(* The file system.                                                        *)

\* A function on 1..n is a sequence of n elements.
LEMMA FunctionIsSequence ==
    ASSUME NEW S, NEW n \in Nat, NEW s \in [1..n -> S]
    PROVE  s \in Seq(S) /\ Len(s) = n
OBVIOUS

\* What prepare_upload reserves and what a thread starts from.
LEMMA StartingContents ==
    /\ <<>> \in Content /\ Len(<<>>) = 0
    /\ \A n \in 0..MaxSize : /\ Zeros(n) \in Content /\ Len(Zeros(n)) = n
                             /\ \A i \in 1..n : Zeros(n)[i] = 0
<1>1. MaxSize \in Nat /\ MaxTransfers \in Nat
  BY TransferBounds
<1>2. <<>> \in Content /\ Len(<<>>) = 0
  BY <1>1 DEF Content
<1>3. ASSUME NEW n \in 0..MaxSize
      PROVE  Zeros(n) \in Content /\ Len(Zeros(n)) = n /\ \A i \in 1..n : Zeros(n)[i] = 0
  <2>1. Zeros(n) \in Seq(0..MaxTransfers) /\ Len(Zeros(n)) = n
    BY <1>1 DEF Zeros
  <2> QED
    BY <1>1, <2>1 DEF Zeros, Content
<1> QED
  BY <1>2, <1>3

\* File::create gives the name its old file or a new one, emptied, and leaves the
\* other names and files alone.
LEMMA CreateFacts ==
    ASSUME FilesOK(dir, data), NEW n \in Names, NEW content \in Content, Create(n, content)
    PROVE  /\ FilesOK(dir', data') /\ Len(data) <= Len(data')
           /\ dir'[n] \in 1..Len(data') /\ data'[dir'[n]] = content
           /\ \A g \in 1..Len(data) : g # dir'[n] => data'[g] = data[g]
           /\ \A m \in Names : m # n => dir'[m] = dir[m]
           /\ dir[n] # 0 => dir' = dir
           /\ dir[n] = 0 => dir'[n] = Len(data) + 1
           /\ Len(data') \in {Len(data), Len(data) + 1}
           /\ Len(data') # Len(data) => dir'[n] = Len(data')
<1>1. /\ data \in Seq(Content) /\ Len(data) \in Nat /\ Len(data) <= MaxFiles
      /\ dir \in [Names -> 0..Len(data)] /\ MaxFiles \in Nat
  BY TransferBounds DEF FilesOK
<1>2. CASE dir[n] # 0
  <2>1. dir' = dir /\ data' = [data EXCEPT ![dir[n]] = content]
    BY <1>2 DEF Create
  <2>2. dir[n] \in 1..Len(data)
    BY <1>1, <1>2
  <2>3. data' \in Seq(Content) /\ Len(data') = Len(data) /\ data'[dir[n]] = content
        /\ \A g \in 1..Len(data) : g # dir[n] => data'[g] = data[g]
    BY <1>1, <2>1, <2>2
  <2>4. FilesOK(dir', data')
    BY <1>1, <2>1, <2>3 DEF FilesOK
  <2> QED
    BY <1>2, <2>1, <2>2, <2>3, <2>4, <1>1
<1>3. CASE dir[n] = 0
  <2>1. Len(data) < MaxFiles /\ data' = Append(data, content) /\ dir' = [dir EXCEPT ![n] = Len(data')]
    BY <1>3 DEF Create
  <2>2. data' \in Seq(Content) /\ Len(data') = Len(data) + 1 /\ data'[Len(data) + 1] = content
        /\ \A g \in 1..Len(data) : data'[g] = data[g]
    BY <1>1, <2>1
  <2>3. dir'[n] = Len(data) + 1 /\ \A m \in Names : m # n => dir'[m] = dir[m]
    BY <1>1, <2>1, <2>2
  <2>4. dir' \in [Names -> 0..Len(data')]
    BY <1>1, <2>1, <2>2
  <2>5. \A m, l \in Names : dir'[m] = dir'[l] /\ m # l => dir'[m] = 0
    <3>1. \A m \in Names : dir[m] # Len(data) + 1
      BY <1>1
    <3> QED
      BY <2>3, <3>1 DEF FilesOK
  <2>6. FilesOK(dir', data')
    BY <1>1, <2>1, <2>2, <2>4, <2>5 DEF FilesOK
  <2> QED
    BY <1>1, <1>3, <2>2, <2>3, <2>6
<1> QED
  BY <1>2, <1>3

\* A name that is deleted or moved leaves the files there are.
LEMMA UnlinkFacts ==
    ASSUME FilesOK(dir, data), NEW n \in Names, Unlink(n)
    PROVE  /\ FilesOK(dir', data') /\ data' = data
           /\ dir'[n] = 0 /\ \A m \in Names : m # n => dir'[m] = dir[m]
<1>1. dir' = [dir EXCEPT ![n] = 0] /\ data' = data /\ dir \in [Names -> 0..Len(data)] /\ Len(data) \in Nat
  BY DEF Unlink, FilesOK
<1>2. dir'[n] = 0 /\ \A m \in Names : m # n => dir'[m] = dir[m]
  BY <1>1
<1>3. dir' \in [Names -> 0..Len(data')]
  BY <1>1
<1> QED
  BY <1>1, <1>2, <1>3 DEF FilesOK

\* So does a rename.
LEMMA MoveFacts ==
    ASSUME FilesOK(dir, data), NEW n \in Names, NEW m \in Names, MoveName(n, m)
    PROVE  /\ FilesOK(dir', data') /\ data' = data /\ n # m
           /\ \A l \in Names : l \notin {n, m} => dir'[l] = dir[l]
<1>1. /\ dir[n] # 0 /\ dir[m] = 0 /\ dir' = [dir EXCEPT ![n] = 0, ![m] = dir[n]] /\ data' = data
      /\ dir \in [Names -> 0..Len(data)] /\ Len(data) \in Nat
  BY DEF MoveName, FilesOK
<1>2. \A l \in Names : dir'[l] = IF l = m THEN dir[n] ELSE IF l = n THEN 0 ELSE dir[l]
  BY <1>1
<1>3. dir' \in [Names -> 0..Len(data')]
  BY <1>1
<1>4. \A k, l \in Names : dir'[k] = dir'[l] /\ k # l => dir'[k] = 0
  BY <1>1, <1>2 DEF FilesOK
<1> QED
  BY <1>1, <1>2, <1>3, <1>4 DEF FilesOK

\* One write: the unit is there, and the others are as they were or a gap.
LEMMA WriteAtFacts ==
    ASSUME NEW content \in Content, NEW pos \in 1..MaxSize, NEW unit \in 0..MaxTransfers
    PROVE  /\ WriteAt(content, pos, unit) \in Content
           /\ Len(WriteAt(content, pos, unit)) = IF pos > Len(content) THEN pos ELSE Len(content)
           /\ \A i \in 1..Len(WriteAt(content, pos, unit)) : WriteAt(content, pos, unit)[i] =
                 IF i = pos THEN unit ELSE IF i <= Len(content) THEN content[i] ELSE 0
<1> DEFINE len == IF pos > Len(content) THEN pos ELSE Len(content)
           w == WriteAt(content, pos, unit)
<1>1. len \in Nat /\ len <= MaxSize /\ MaxSize \in Nat /\ content \in Seq(0..MaxTransfers)
      /\ Len(content) \in Nat /\ 0 \in 0..MaxTransfers
  BY TransferBounds DEF Content
<1>2. w = [i \in 1..len |-> IF i = pos THEN unit ELSE IF i <= Len(content) THEN content[i] ELSE 0]
  BY Zenon DEF WriteAt
<1>a. len = IF pos > Len(content) THEN pos ELSE Len(content)
  OBVIOUS
<1> HIDE DEF len, w
<1>b. \A i \in 1..Len(content) : content[i] \in 0..MaxTransfers
  BY <1>1, ElementOfSeq
<1>3. ASSUME NEW i \in 1..len
      PROVE  (IF i = pos THEN unit ELSE IF i <= Len(content) THEN content[i] ELSE 0) \in 0..MaxTransfers
  <2>1. i <= Len(content) => i \in 1..Len(content)
    BY <1>1
  <2> QED
    BY <1>1, <1>b, <2>1
<1>4. w \in [1..len -> 0..MaxTransfers]
  BY <1>2, <1>3
<1>5. w \in Seq(0..MaxTransfers) /\ Len(w) = len
  BY <1>1, <1>4, FunctionIsSequence
<1>6. \A i \in 1..len : w[i] = IF i = pos THEN unit ELSE IF i <= Len(content) THEN content[i] ELSE 0
  BY <1>2
<1>7. w \in Content
  BY <1>1, <1>5 DEF Content
<1> QED
  BY <1>a, <1>5, <1>6, <1>7 DEF w

\* A thread writes to its file only.
LEMMA WriteFacts ==
    ASSUME Base, NEW c \in conns, Write(c)
    PROVE  /\ FilesOK(dir', data') /\ dir' = dir /\ Len(data') = Len(data)
           /\ c.file \in 1..Len(data) /\ data'[c.file] = WriteAt(data[c.file], c.pos + 1, c.id)
           /\ c.pos + 1 \in 1..MaxSize /\ c.id \in Ids /\ data[c.file] \in Content
           /\ \A g \in 1..Len(data) : g # c.file => data'[g] = data[g]
<1>1. /\ data \in Seq(Content) /\ Len(data) \in Nat /\ FilesOK(dir, data)
      /\ c \in Thread /\ c.file <= Len(data) /\ MaxSize \in Nat /\ MaxFiles \in Nat
  BY TransferBounds DEF Base, FilesOK, KeysOK, OpenOK
<1>2. c.file # 0 /\ c.pos < c.size /\ data' = [data EXCEPT ![c.file] = WriteAt(@, c.pos + 1, c.id)] /\ dir' = dir
  BY DEF Write
<1>3. c.file \in 1..Len(data) /\ c.pos + 1 \in 1..MaxSize /\ c.id \in Ids /\ c.id \in 0..MaxTransfers
  BY <1>1, <1>2, TransferBounds DEF Thread, Ids
<1>4. data[c.file] \in Content
  BY <1>1, <1>3
<1>5. WriteAt(data[c.file], c.pos + 1, c.id) \in Content
  BY <1>3, <1>4, WriteAtFacts
<1>6. /\ data' \in Seq(Content) /\ Len(data') = Len(data)
      /\ data'[c.file] = WriteAt(data[c.file], c.pos + 1, c.id)
      /\ \A g \in 1..Len(data) : g # c.file => data'[g] = data[g]
  BY <1>1, <1>2, <1>3, <1>5
<1>7. FilesOK(dir', data')
  BY <1>1, <1>2, <1>6 DEF FilesOK
<1> QED
  BY <1>2, <1>3, <1>4, <1>6, <1>7

-----------------------------------------------------------------------------
(* Keys and threads.                                                       *)

\* register_transfer gives a key that nobody has had.
LEMMA RegisterFacts ==
    ASSUME KeysOK(transfers, conns, nextId, finished), NEW up \in BOOLEAN, NEW n \in Names,
           NEW seek \in 0..MaxSize, NEW size \in 0..MaxSize, up => seek = 0, Register(up, n, seek, size),
           UNCHANGED <<conns, finished>>
    PROVE  /\ KeysOK(transfers', conns', nextId', finished') /\ nextId \in Ids /\ nextId' = nextId + 1
           /\ transfers' = transfers \union {[id |-> nextId, up |-> up, name |-> n,
                                              seek |-> seek, size |-> size]}
<1> DEFINE t == [id |-> nextId, up |-> up, name |-> n, seek |-> seek, size |-> size]
<1>1. nextId <= MaxTransfers /\ transfers' = transfers \union {t} /\ nextId' = nextId + 1
  BY DEF Register
<1>2. nextId \in Ids /\ nextId \in Nat /\ nextId' \in 1..(MaxTransfers + 1)
  BY <1>1, TransferBounds DEF KeysOK, Ids
<1>3. t \in Transfer /\ t.id = nextId /\ t.up = up /\ t.seek = seek
  BY <1>2 DEF Transfer
<1> HIDE DEF t
<1>4. /\ transfers \subseteq Transfer /\ conns \subseteq Thread
      /\ \A u \in transfers : u.id \in Nat /\ \A c \in conns : c.id \in Nat
      /\ \A i \in finished : i \in Nat
  BY DEF KeysOK, Transfer, Thread, Ids
<1>5. KeysOK(transfers', conns', nextId', finished')
  <2>1. \A u \in transfers' : u.id < nextId' /\ u.id \notin finished'
    BY <1>1, <1>2, <1>3, <1>4 DEF KeysOK
  <2>2. \A c \in conns' : c.id < nextId' /\ c.id \notin finished'
    BY <1>1, <1>2, <1>4 DEF KeysOK, Thread, Ids
  <2>3. \A i \in finished' : i \in Ids /\ i < nextId'
    BY <1>1, <1>2, <1>4 DEF KeysOK
  <2>4. \A u, v \in transfers' : u.id = v.id => u = v
    BY <1>1, <1>2, <1>3 DEF KeysOK
  <2>5. \A u \in transfers', c \in conns' : u.id # c.id
    BY <1>1, <1>2, <1>3 DEF KeysOK
  <2> QED
    BY <1>1, <1>2, <1>3, <2>1, <2>2, <2>3, <2>4, <2>5 DEF KeysOK
<1> QED
  BY <1>1, <1>2, <1>5 DEF t

\* take_transfer: a thread serves the transfer from now on.
LEMMA TakeFacts ==
    ASSUME Base, NEW t \in transfers, NEW http \in BOOLEAN, NEW size \in 0..MaxSize, Take(t, http, size)
    PROVE  \E c \in Thread :
             /\ conns' = conns \union {c} /\ transfers' = transfers \ {t}
             /\ c.id = t.id /\ c.up = t.up /\ c.name = t.name /\ c.seek = t.seek
             /\ c.file = 0 /\ c.pos = t.seek
             /\ UNCHANGED <<store, nextId, flag, hist>>
<1> DEFINE c == [id |-> t.id, up |-> t.up, name |-> t.name, seek |-> t.seek,
                 size |-> size, http |-> http, file |-> 0, pos |-> t.seek]
<1>1. /\ conns' = conns \union {c} /\ transfers' = transfers \ {t} /\ UNCHANGED <<store, nextId, flag, hist>>
  BY DEF Take, Claim
<1>2. t \in Transfer /\ MaxFiles \in Nat
  BY TransferBounds DEF Base, KeysOK
<1>3. c \in Thread
  BY <1>2 DEF Transfer, Thread
<1> QED
  BY <1>1, <1>3

\* The keys after that.
LEMMA TakenKeys ==
    ASSUME Base, NEW t \in transfers, NEW c \in Thread, transfers' = transfers \ {t},
           conns' = conns \union {c}, c.id = t.id, c.up = t.up, c.seek = t.seek, c.file = 0, c.pos = t.seek,
           UNCHANGED <<store, nextId, finished>>
    PROVE  Base'
<1>1. FilesOK(dir', data') /\ Len(data) \in Nat
  BY DEF Base, store, FilesOK
<1>2. OpenOK(conns', data')
  BY <1>1 DEF Base, OpenOK, store
<1>3. KeysOK(transfers, conns, nextId, finished)
  BY DEF Base
<1>4. KeysOK(transfers', conns', nextId', finished')
  BY <1>3 DEF KeysOK
<1> QED
  BY <1>1, <1>2, <1>4 DEF Base

\* A transfer is dropped, a thread ends.
LEMMA FewerKeys ==
    ASSUME KeysOK(transfers, conns, nextId, finished), transfers' \subseteq transfers, conns' \subseteq conns,
           UNCHANGED <<nextId, finished>>
    PROVE  KeysOK(transfers', conns', nextId', finished')
BY DEF KeysOK

\* The download of a thread that ends is over.
LEMMA FinishedKeys ==
    ASSUME KeysOK(transfers, conns, nextId, finished), NEW c \in conns, conns' = conns \ {c},
           finished' = finished \union {c.id}, UNCHANGED <<transfers, nextId>>
    PROVE  KeysOK(transfers', conns', nextId', finished')
<1>1. c.id \in Ids /\ c.id < nextId
  BY DEF KeysOK, Thread
<1> QED
  BY <1>1 DEF KeysOK

\* A thread goes on.
LEMMA BecomesKeys ==
    ASSUME KeysOK(transfers, conns, nextId, finished), NEW c \in conns, NEW e \in Thread, Becomes(c, e),
           e.id = c.id, e.up = c.up, e.seek = c.seek, e.up => e.file # 0,
           UNCHANGED <<transfers, nextId, finished>>
    PROVE  KeysOK(transfers', conns', nextId', finished')
<1>1. conns' = (conns \ {c}) \union {e}
  BY DEF Becomes
<1>2. conns' \subseteq Thread
  BY <1>1 DEF KeysOK
<1>3. \A x, y \in conns' : x.id = y.id => x = y
  BY <1>1 DEF KeysOK
<1>4. \A x \in conns' : /\ x.id < nextId /\ x.id \notin finished /\ \A t \in transfers : t.id # x.id
                        /\ x.up => x.seek = 0 /\ (x.file = 0 => x.pos = 0)
  BY <1>1 DEF KeysOK
<1> QED
  BY <1>2, <1>3, <1>4 DEF KeysOK

\* Every thread is one, and has a file open that there is.
LEMMA ThreadFacts ==
    ASSUME Base, NEW c \in conns
    PROVE  /\ c \in Thread /\ c.id \in Ids /\ c.name \in Names /\ c.file \in 0..Len(data)
           /\ Len(data) \in Nat /\ dir[c.name] \in 0..Len(data) /\ Len(data) <= MaxFiles /\ MaxFiles \in Nat
           /\ c.pos \in 0..MaxSize /\ c.seek \in 0..MaxSize /\ c.size \in 0..MaxSize
           /\ c.file # 0 => data[c.file] \in Content
           /\ \A f \in 1..Len(data) : data[f] \in Content
<1>1. c \in Thread /\ c.file <= Len(data) /\ FilesOK(dir, data) /\ MaxFiles \in Nat
  BY TransferBounds DEF Base, KeysOK, OpenOK
<1>2. c.file \in 0..Len(data) /\ Len(data) \in Nat
  BY <1>1 DEF Thread, FilesOK
<1>3. dir[c.name] \in 0..Len(data)
  BY <1>1 DEF Thread, FilesOK
<1>4. c.file # 0 => data[c.file] \in Content
  BY <1>1, <1>2 DEF FilesOK
<1>5. c.id \in Ids /\ c.name \in Names /\ c.pos \in 0..MaxSize /\ c.seek \in 0..MaxSize /\ c.size \in 0..MaxSize
  BY <1>1 DEF Thread
<1>6. Len(data) <= MaxFiles
  BY <1>1 DEF FilesOK
<1>7. \A f \in 1..Len(data) : data[f] \in Content
  BY <1>1 DEF FilesOK
<1> QED
  BY <1>1, <1>2, <1>3, <1>4, <1>5, <1>6, <1>7

-----------------------------------------------------------------------------
(* The steps of the threads, in short.                                     *)

\* An upload opens its file: the thread is at its start, and it is empty.
LEMMA OpenUploadFacts ==
    ASSUME Base, NEW c \in conns, OpenUpload(c)
    PROVE  /\ Create(c.name, <<>>) /\ c.up /\ c.file = 0 /\ UNCHANGED <<transfers, nextId, finished>>
           /\ \E e \in Thread : /\ Becomes(c, e) /\ e.id = c.id /\ e.up = c.up /\ e.seek = c.seek
                                /\ e.file = dir'[c.name] /\ e.file # 0 /\ e.pos = 0
<1>1. /\ Create(c.name, <<>>) /\ c.up /\ c.file = 0 /\ UNCHANGED <<transfers, nextId, finished>>
      /\ Becomes(c, [c EXCEPT !.file = dir'[c.name]])
  BY DEF OpenUpload, OpenEmpty
<1>2. c \in Thread /\ c.name \in Names /\ FilesOK(dir, data)
  BY ThreadFacts DEF Base
<1>3. dir'[c.name] \in 1..Len(data') /\ FilesOK(dir', data')
  BY <1>1, <1>2, CreateFacts, StartingContents
<1>4. dir'[c.name] \in 0..MaxFiles /\ dir'[c.name] # 0
  BY <1>3, TransferBounds DEF FilesOK
<1>5. c.pos = 0
  BY <1>1 DEF Base, KeysOK
<1> DEFINE e == [c EXCEPT !.file = dir'[c.name]]
<1>6. e \in Thread /\ e.id = c.id /\ e.up = c.up /\ e.seek = c.seek /\ e.file = dir'[c.name] /\ e.pos = c.pos
  BY <1>2, <1>4 DEF Thread
<1>7. Becomes(c, e)
  BY <1>1
<1> HIDE DEF e
<1> QED
  BY <1>1, <1>4, <1>5, <1>6, <1>7

\* A thread writes one unit.
LEMMA WriteStep ==
    ASSUME Base, NEW c \in conns, Write(c)
    PROVE  /\ c.up /\ c.file # 0 /\ UNCHANGED <<transfers, nextId, finished>>
           /\ \E e \in Thread : /\ Becomes(c, e) /\ e.id = c.id /\ e.up = c.up /\ e.seek = c.seek
                                /\ e.file = c.file /\ e.pos = c.pos + 1
<1>1. /\ c.up /\ c.file # 0 /\ UNCHANGED <<transfers, nextId, finished>>
      /\ Becomes(c, [c EXCEPT !.pos = @ + 1])
  BY DEF Write
<1>2. c \in Thread /\ c.pos + 1 \in 0..MaxSize /\ c.file \in 0..MaxFiles
  BY ThreadFacts, WriteFacts DEF Thread
<1> DEFINE e == [c EXCEPT !.pos = c.pos + 1]
<1>3. e \in Thread /\ e.id = c.id /\ e.up = c.up /\ e.seek = c.seek /\ e.file = c.file /\ e.pos = c.pos + 1
  BY <1>2 DEF Thread
<1>4. Becomes(c, e)
  BY <1>1
<1> HIDE DEF e
<1> QED
  BY <1>1, <1>3, <1>4

\* A download opens the file that has its name now, or ends.
LEMMA OpenDownloadFacts ==
    ASSUME Base, NEW c \in conns, OpenDownload(c)
    PROVE  /\ ~ c.up /\ c.file = 0 /\ UNCHANGED <<transfers, nextId, hist, store>>
           /\ \/ Ends(c)
              \/ \E e \in Thread : /\ Becomes(c, e) /\ e.id = c.id /\ e.up = c.up /\ e.seek = c.seek
                                   /\ e.file = dir[c.name] /\ e.file # 0 /\ e.pos = c.seek
<1>1. /\ ~ c.up /\ c.file = 0 /\ UNCHANGED <<transfers, nextId, hist, store>>
      /\ dir[c.name] = 0 => Ends(c)
      /\ dir[c.name] # 0 => Becomes(c, [c EXCEPT !.file = dir[c.name], !.pos = c.seek])
  BY DEF OpenDownload, OpenAtSeek
<1>2. c \in Thread /\ dir[c.name] \in 0..MaxFiles /\ c.seek \in 0..MaxSize
  BY ThreadFacts
<1> DEFINE e == [c EXCEPT !.file = dir[c.name], !.pos = c.seek]
<1>3. e \in Thread /\ e.id = c.id /\ e.up = c.up /\ e.seek = c.seek /\ e.file = dir[c.name] /\ e.pos = c.seek
  BY <1>2 DEF Thread
<1>4. dir[c.name] = 0 \/ Becomes(c, e)
  BY <1>1
<1> HIDE DEF e
<1> QED
  BY <1>1, <1>3, <1>4

\* A download copies one unit.
LEMMA ReadFacts ==
    ASSUME Base, NEW c \in conns, Read(c)
    PROVE  /\ ~ c.up /\ c.file # 0 /\ c.pos < Len(data[c.file])
           /\ UNCHANGED <<transfers, nextId, store, promise, finished, touched, crossed>>
           /\ got' = [got EXCEPT ![c.id] = Append(@, data[c.file][c.pos + 1])]
           /\ \E e \in Thread : /\ Becomes(c, e) /\ e.id = c.id /\ e.up = c.up /\ e.seek = c.seek
                                /\ e.file = c.file /\ e.pos = c.pos + 1
<1>1. /\ ~ c.up /\ c.file # 0 /\ c.pos < Len(data[c.file])
      /\ UNCHANGED <<transfers, nextId, store, promise, finished, touched, crossed>>
      /\ got' = [got EXCEPT ![c.id] = Append(@, data[c.file][c.pos + 1])]
      /\ Becomes(c, [c EXCEPT !.pos = @ + 1])
  BY DEF Read
<1>2. c \in Thread /\ data[c.file] \in Content /\ c.file \in 0..MaxFiles /\ c.pos \in 0..MaxSize
  BY <1>1, ThreadFacts DEF Thread
<1>3. c.pos + 1 \in 0..MaxSize
  BY <1>1, <1>2, TransferBounds DEF Content
<1> DEFINE e == [c EXCEPT !.pos = c.pos + 1]
<1>4. e \in Thread /\ e.id = c.id /\ e.up = c.up /\ e.seek = c.seek /\ e.file = c.file /\ e.pos = c.pos + 1
  BY <1>2, <1>3 DEF Thread
<1>5. Becomes(c, e)
  BY <1>1
<1> HIDE DEF e
<1> QED
  BY <1>1, <1>4, <1>5

\* What a step of a thread or command that ends or drops something does.
Drops ==
    /\ transfers' \subseteq transfers /\ conns' \subseteq conns /\ data' = data
    /\ UNCHANGED <<nextId, promise, got, finished, crossed>>

\* The steps that do no more than that; names may change by them.
LEMMA DropSteps ==
    /\ \A t, delete : Stop(t, delete) => Drops /\ (Unlink(t.name) \/ UNCHANGED <<store, touched>>)
    /\ \A c, n, slash : Delete(c, n, slash) => Drops /\ Unlink(n)
    /\ \A n, m : Rename(n, m) => Drops /\ MoveName(n, m)
    /\ \A t : TakeInVain(t) => Drops /\ UNCHANGED <<store, touched>>
    /\ \A c : EndUpload(c) \/ RefusePayload(c) \/ Lose(c) => Drops /\ UNCHANGED <<store, touched>>
BY DEF Drops, Stop, Delete, Rename, TakeInVain, EndUpload, RefusePayload, Lose, Claim, Unlink, MoveName,
       Ends, store, hist

-----------------------------------------------------------------------------
(* Files and keys stay sound.                                              *)

\* Every step keeps files and keys sound.
LEMMA BaseInductive == ASSUME Base, Next PROVE Base'
<1>t. FilesOK(dir, data) /\ KeysOK(transfers, conns, nextId, finished) /\ OpenOK(conns, data)
  BY DEF Base
<1>1. ASSUME NEW c \in Clients, NEW n \in Names, NEW slash, NEW overwrite, NEW size \in 0..MaxSize,
             InitUpload(c, n, slash, size, overwrite)
      PROVE  Base'
  <2>1. Register(TRUE, n, 0, size) /\ Create(n, Zeros(size)) /\ UNCHANGED <<conns, finished>>
    BY <1>1 DEF InitUpload, Reserve
  <2>2. FilesOK(dir', data') /\ Len(data) <= Len(data')
    BY <1>t, <2>1, CreateFacts, StartingContents
  <2>3. KeysOK(transfers', conns', nextId', finished')
    <3>1. TRUE \in BOOLEAN /\ 0 \in 0..MaxSize
      BY TransferBounds
    <3> QED
      BY <1>t, <2>1, <3>1, RegisterFacts
  <2>4. OpenOK(conns', data')
    <3>1. ASSUME NEW x \in conns PROVE x.file <= Len(data')
      BY <2>2, ThreadFacts DEF FilesOK
    <3> QED
      BY <2>1, <3>1 DEF OpenOK
  <2> QED
    BY <2>2, <2>3, <2>4 DEF Base
<1>2. ASSUME NEW n \in Names, NEW seek \in 0..MaxSize, InitDownload(n, seek) PROVE Base'
  <2>1. /\ dir[n] # 0 /\ seek <= Len(data[dir[n]]) /\ Register(FALSE, n, seek, Len(data[dir[n]]) - seek)
        /\ UNCHANGED <<dir, data, conns, finished>>
    BY <1>2 DEF InitDownload, PrepareDownload, store
  <2>2. data[dir[n]] \in Content
    BY <1>t, <2>1 DEF FilesOK
  <2>3. Len(data[dir[n]]) - seek \in 0..MaxSize
    BY <2>1, <2>2, TransferBounds DEF Content
  <2>4. KeysOK(transfers', conns', nextId', finished')
    BY <1>t, <2>1, <2>3, RegisterFacts
  <2> QED
    BY <1>t, <2>1, <2>4 DEF Base
<1>3. ASSUME Drops, FilesOK(dir', data') PROVE Base'
  <2>1. KeysOK(transfers', conns', nextId', finished')
    BY <1>t, <1>3, FewerKeys DEF Drops
  <2>2. OpenOK(conns', data')
    BY <1>t, <1>3 DEF Drops, OpenOK
  <2> QED
    BY <1>3, <2>1, <2>2 DEF Base
<1>4. ASSUME UNCHANGED store PROVE FilesOK(dir', data')
  BY <1>t, <1>4 DEF store
<1>5. ASSUME NEW t \in transfers, NEW delete, Stop(t, delete) PROVE Base'
  <2>1. t.name \in Names
    BY <1>t DEF KeysOK, Transfer
  <2> QED
    BY <1>t, <1>3, <1>4, <1>5, <2>1, DropSteps, UnlinkFacts
<1>6. ASSUME NEW c, NEW n \in Names, NEW slash, Delete(c, n, slash) PROVE Base'
  BY <1>t, <1>3, <1>6, DropSteps, UnlinkFacts
<1>7. ASSUME NEW n \in Names, NEW m \in Names, Rename(n, m) PROVE Base'
  BY <1>t, <1>3, <1>7, DropSteps, MoveFacts
<1>8. ASSUME NEW t \in transfers, NEW http \in BOOLEAN, NEW size \in 0..MaxSize, Take(t, http, size) PROVE Base'
  <2>1. PICK c \in Thread :
             /\ conns' = conns \union {c} /\ transfers' = transfers \ {t}
             /\ c.id = t.id /\ c.up = t.up /\ c.seek = t.seek
             /\ c.file = 0 /\ c.pos = t.seek
             /\ UNCHANGED <<store, nextId, flag, hist>>
    BY <1>8, TakeFacts
  <2>2. UNCHANGED <<store, nextId, finished>>
    BY <2>1 DEF hist
  <2> QED
    BY <2>1, <2>2, TakenKeys
<1>9. ASSUME NEW t \in transfers, TakeInVain(t) PROVE Base'
  BY <1>3, <1>4, <1>9, DropSteps
<1>10. ASSUME NEW c \in conns, EndUpload(c) \/ RefusePayload(c) \/ Lose(c) PROVE Base'
  BY <1>3, <1>4, <1>10, DropSteps
<1>11. ASSUME NEW c \in conns, OpenUpload(c) PROVE Base'
  <2>1. PICK e \in Thread : /\ Becomes(c, e) /\ e.id = c.id /\ e.up = c.up /\ e.seek = c.seek
                            /\ e.file = dir'[c.name] /\ e.file # 0 /\ e.pos = 0
    BY <1>11, OpenUploadFacts
  <2>2. Create(c.name, <<>>) /\ c.up /\ UNCHANGED <<transfers, nextId, finished>>
    BY <1>11, OpenUploadFacts
  <2>3. FilesOK(dir', data') /\ Len(data) <= Len(data') /\ dir'[c.name] \in 1..Len(data')
    BY <1>t, <2>2, CreateFacts, ThreadFacts, StartingContents
  <2>4. KeysOK(transfers', conns', nextId', finished')
    BY <1>t, <2>1, <2>2, BecomesKeys
  <2>5. OpenOK(conns', data')
    <3>1. \A x \in conns : x.file <= Len(data')
      BY <2>3, ThreadFacts DEF FilesOK
    <3> QED
      BY <2>1, <2>3, <3>1 DEF OpenOK, Becomes
  <2> QED
    BY <2>3, <2>4, <2>5 DEF Base
<1>12. ASSUME NEW c \in conns, Write(c) PROVE Base'
  <2>1. PICK e \in Thread : /\ Becomes(c, e) /\ e.id = c.id /\ e.up = c.up /\ e.seek = c.seek
                            /\ e.file = c.file /\ e.pos = c.pos + 1
    BY <1>12, WriteStep
  <2>2. c.up /\ c.file # 0 /\ UNCHANGED <<transfers, nextId, finished>>
    BY <1>12, WriteStep
  <2>3. FilesOK(dir', data') /\ Len(data') = Len(data)
    BY <1>12, WriteFacts
  <2>4. KeysOK(transfers', conns', nextId', finished')
    BY <1>t, <2>1, <2>2, BecomesKeys
  <2>5. OpenOK(conns', data')
    BY <1>t, <2>1, <2>3 DEF OpenOK, Becomes
  <2> QED
    BY <2>3, <2>4, <2>5 DEF Base
<1>13. ASSUME NEW c \in conns, OpenDownload(c) PROVE Base'
  <2>1. ~ c.up /\ UNCHANGED <<transfers, nextId, finished, dir, data>>
    BY <1>13, OpenDownloadFacts DEF hist, store
  <2>2. CASE Ends(c)
    <3>1. KeysOK(transfers', conns', nextId', finished')
      BY <1>t, <2>1, <2>2, FewerKeys DEF Ends
    <3> QED
      BY <1>t, <2>1, <2>2, <3>1 DEF Base, OpenOK, Ends
  <2>3. ASSUME NEW e \in Thread, Becomes(c, e), e.id = c.id, e.up = c.up, e.seek = c.seek, e.file = dir[c.name]
        PROVE  Base'
    <3>1. KeysOK(transfers', conns', nextId', finished')
      BY <1>t, <2>1, <2>3, BecomesKeys
    <3>2. e.file <= Len(data)
      BY <2>3, ThreadFacts
    <3> QED
      BY <1>t, <2>1, <2>3, <3>1, <3>2 DEF Base, OpenOK, Becomes
  <2> QED
    BY <1>13, <2>2, <2>3, OpenDownloadFacts
<1>14. ASSUME NEW c \in conns, Read(c) PROVE Base'
  <2>1. ~ c.up /\ UNCHANGED <<transfers, nextId, finished, dir, data>>
    BY <1>14, ReadFacts DEF store
  <2>2. PICK e \in Thread : /\ Becomes(c, e) /\ e.id = c.id /\ e.up = c.up /\ e.seek = c.seek
                            /\ e.file = c.file /\ e.pos = c.pos + 1
    BY <1>14, ReadFacts
  <2>3. KeysOK(transfers', conns', nextId', finished')
    BY <1>t, <2>1, <2>2, BecomesKeys
  <2> QED
    BY <1>t, <2>1, <2>2, <2>3 DEF Base, OpenOK, Becomes
<1>15. ASSUME NEW c \in conns, EndDownload(c) PROVE Base'
  <2>1. Ends(c) /\ finished' = finished \union {c.id} /\ UNCHANGED <<dir, data, transfers, nextId>>
    BY <1>15 DEF EndDownload, store
  <2>2. KeysOK(transfers', conns', nextId', finished')
    BY <1>t, <2>1, FinishedKeys DEF Ends
  <2> QED
    BY <1>t, <2>1, <2>2 DEF Base, OpenOK, Ends
<1> QED
  BY <1>1, <1>2, <1>5, <1>6, <1>7, <1>8, <1>9, <1>10, <1>11, <1>12, <1>13, <1>14, <1>15 DEF Next

-----------------------------------------------------------------------------
(* Uploads do not mix.                                                     *)

\* More uploads that have met another one, fewer threads: nothing is lost.
LEMMA WritersWeaken ==
    ASSUME NEW cs, NEW es, NEW dt, NEW cr, NEW br, WritersOK(cs, dt, cr), Unmixed(dt, cr), cr \subseteq br,
           \A x \in es : x.up /\ x.file # 0 => x \in cs
    PROVE  WritersOK(es, dt, br) /\ Unmixed(dt, br)
<1>1. WritersOK(es, dt, br)
  BY DEF WritersOK
<1>2. Unmixed(dt, br)
  BY DEF Unmixed
<1> QED
  BY <1>1, <1>2

\* A file is emptied, or made: the uploads that have it open must be known to have
\* met another one, and the new content is nobody's.
LEMMA EmptiedFile ==
    ASSUME UploadInv, Base, NEW n \in Names, NEW content \in Content, Create(n, content),
           \A i \in 1..Len(content) : content[i] = 0,
           NEW br, crossed \subseteq br, \A x \in conns : x.up /\ x.file = dir[n] /\ dir[n] # 0 => x.id \in br
    PROVE  WritersOK(conns, data', br) /\ Unmixed(data', br)
<1>1. /\ FilesOK(dir, data) /\ WritersOK(conns, data, br) /\ Unmixed(data, br)
  BY WritersWeaken DEF Base, UploadInv
<1>2. /\ dir'[n] \in 1..Len(data') /\ data'[dir'[n]] = content
      /\ \A g \in 1..Len(data) : g # dir'[n] => data'[g] = data[g]
      /\ dir[n] # 0 => dir' = dir
      /\ dir[n] = 0 => dir'[n] = Len(data) + 1
      /\ Len(data') \in {Len(data), Len(data) + 1} /\ Len(data) \in Nat
      /\ Len(data') # Len(data) => dir'[n] = Len(data')
  BY <1>1, CreateFacts DEF FilesOK
<1>3. ASSUME NEW x \in conns, x.up, x.file # 0
      PROVE  /\ \A i \in 1..Len(data'[x.file]) : data'[x.file][i] \in br \union {0, x.id}
             /\ x.id \notin br => /\ Len(data'[x.file]) = x.pos
                                  /\ \A i \in 1..x.pos : data'[x.file][i] = x.id
  <2>1. x.file \in 1..Len(data)
    BY <1>3, ThreadFacts
  <2>2. CASE x.file = dir'[n]
    <3>1. x.id \in br
      BY <1>2, <1>3, <2>1, <2>2
    <3> QED
      BY <1>2, <2>2, <3>1
  <2>3. CASE x.file # dir'[n]
    <3>1. data'[x.file] = data[x.file]
      BY <1>2, <2>1, <2>3
    <3> QED
      BY <1>1, <1>3, <3>1 DEF WritersOK
  <2> QED
    BY <2>2, <2>3
<1>4. WritersOK(conns, data', br)
  BY <1>1, <1>3 DEF WritersOK
<1>5. Unmixed(data', br)
  <2>1. ASSUME NEW f \in 1..Len(data'), NEW i \in 1..Len(data'[f]), data'[f][i] \notin br \union {0},
               NEW j \in 1..Len(data'[f])
        PROVE  data'[f][j] = data'[f][i]
    <3>1. f # dir'[n]
      BY <1>2, <2>1
    <3>2. f \in 1..Len(data) /\ data'[f] = data[f]
      BY <1>2, <3>1
    <3> QED
      BY <1>1, <2>1, <3>2 DEF Unmixed
  <2> QED
    BY <2>1 DEF Unmixed
<1> QED
  BY <1>4, <1>5

\* ftinitupload.
LEMMA InitUploadUploads ==
    ASSUME Base, UploadInv, NEW c \in Clients, NEW n \in Names, NEW slash, NEW overwrite,
           NEW size \in 0..MaxSize, InitUpload(c, n, slash, size, overwrite)
    PROVE  UploadInv'
<1>1. /\ Create(n, Zeros(size)) /\ conns' = conns
      /\ crossed' = crossed \union {x.id : x \in {u \in Users(dir[n]) : u.up}}
  BY DEF InitUpload, Reserve
<1>2. Zeros(size) \in Content /\ \A i \in 1..Len(Zeros(size)) : Zeros(size)[i] = 0
  BY StartingContents
<1>3. \A x \in conns : x.up /\ x.file = dir[n] /\ dir[n] # 0 => x.id \in crossed'
  BY <1>1 DEF Users
<1>4. crossed \subseteq crossed'
  BY <1>1
<1>5. WritersOK(conns, data', crossed') /\ Unmixed(data', crossed')
  BY <1>1, <1>2, <1>3, <1>4, EmptiedFile
<1> QED
  BY <1>1, <1>5 DEF UploadInv

\* A thread opens the file of its upload.
LEMMA OpenUploadUploads ==
    ASSUME Base, UploadInv, NEW c \in conns, OpenUpload(c)
    PROVE  UploadInv'
<1> DEFINE others == {d.id : d \in {u \in Users(dir[c.name]) : u.up}}
<1>1. crossed' = crossed \union others \union (IF others = {} THEN {} ELSE {c.id})
  BY DEF OpenUpload
<1>2. PICK e \in Thread : /\ Becomes(c, e) /\ e.id = c.id /\ e.up = c.up /\ e.seek = c.seek
                          /\ e.file = dir'[c.name] /\ e.file # 0 /\ e.pos = 0
  BY OpenUploadFacts
<1>3. Create(c.name, <<>>) /\ c.up /\ c.file = 0
  BY OpenUploadFacts
<1>4. c.name \in Names /\ <<>> \in Content /\ Len(<<>>) = 0 /\ FilesOK(dir, data)
  BY ThreadFacts, StartingContents DEF Base
<1>5. /\ \A x \in conns : x.up /\ x.file = dir[c.name] /\ dir[c.name] # 0 => x.id \in others
      /\ crossed \subseteq crossed' /\ others \subseteq crossed'
      /\ others # {} => c.id \in crossed'
  BY <1>1 DEF Users
<1> HIDE DEF others
<1>6. \A x \in conns : x.up /\ x.file = dir[c.name] /\ dir[c.name] # 0 => x.id \in crossed'
  BY <1>5
<1>7. \A i \in 1..Len(<<>>) : <<>>[i] = 0
  BY <1>4
<1>8. WritersOK(conns, data', crossed') /\ Unmixed(data', crossed')
  BY <1>3, <1>4, <1>5, <1>6, <1>7, EmptiedFile
<1>9. data'[e.file] = <<>>
  BY <1>2, <1>3, <1>4, CreateFacts
<1>10. conns' = (conns \ {c}) \union {e}
  BY <1>2 DEF Becomes
<1>11. ASSUME NEW x \in conns, x.up, x.file = e.file PROVE x.id \in crossed' /\ e.id \in crossed'
  <2>1. x.file \in 0..Len(data) /\ Len(data) \in Nat
    BY ThreadFacts
  <2>2. dir[c.name] # 0 /\ dir' = dir
    BY <1>2, <1>3, <1>4, <1>11, <2>1, CreateFacts
  <2>3. x.id \in others
    BY <1>2, <1>5, <1>11, <2>2
  <2> QED
    BY <1>2, <1>5, <2>3
<1>12. WritersOK(conns', data', crossed')
  <2>1. ASSUME NEW x \in conns', x.up, x.file # 0
        PROVE  /\ \A i \in 1..Len(data'[x.file]) : data'[x.file][i] \in crossed' \union {0, x.id}
               /\ x.id \notin crossed' => /\ Len(data'[x.file]) = x.pos
                                          /\ \A i \in 1..x.pos : data'[x.file][i] = x.id
    <3>1. CASE x = e
      BY <1>2, <1>4, <1>9, <3>1
    <3>2. CASE x \in conns
      BY <1>8, <2>1, <3>2 DEF WritersOK
    <3> QED
      BY <1>10, <3>1, <3>2
  <2>2. ASSUME NEW x \in conns', NEW y \in conns', x # y, x.up, y.up, x.file = y.file, x.file # 0
        PROVE  x.id \in crossed' /\ y.id \in crossed'
    <3>1. CASE x \in conns /\ y \in conns
      BY <1>8, <2>2, <3>1 DEF WritersOK
    <3>2. CASE x = e /\ y \in conns
      BY <1>11, <2>2, <3>2
    <3>3. CASE x \in conns /\ y = e
      BY <1>11, <2>2, <3>3
    <3> QED
      BY <1>10, <2>2, <3>1, <3>2, <3>3
  <2> QED
    BY <2>1, <2>2 DEF WritersOK
<1> QED
  BY <1>8, <1>12 DEF UploadInv

\* A thread writes a unit of its upload.
LEMMA WriteUploads ==
    ASSUME Base, UploadInv, NEW c \in conns, Write(c)
    PROVE  UploadInv'
<1>1. PICK e \in Thread : /\ Becomes(c, e) /\ e.id = c.id /\ e.up = c.up /\ e.seek = c.seek
                          /\ e.file = c.file /\ e.pos = c.pos + 1
  BY WriteStep
<1>2. c.up /\ c.file # 0 /\ crossed' = crossed /\ conns' = (conns \ {c}) \union {e}
  BY <1>1 DEF Write, Becomes
<1> DEFINE old == data[c.file]
           new == data'[c.file]
<1>3. /\ Len(data') = Len(data) /\ c.file \in 1..Len(data)
      /\ \A g \in 1..Len(data) : g # c.file => data'[g] = data[g]
      /\ c.pos \in Nat /\ Len(old) \in Nat
  BY WriteFacts, ThreadFacts DEF Content
<1>4. /\ Len(new) = IF c.pos + 1 > Len(old) THEN c.pos + 1 ELSE Len(old)
      /\ \A i \in 1..Len(new) : new[i] = IF i = c.pos + 1 THEN c.id ELSE IF i <= Len(old) THEN old[i] ELSE 0
  <2>1. /\ new = WriteAt(old, c.pos + 1, c.id) /\ c.pos + 1 \in 1..MaxSize /\ c.id \in 0..MaxTransfers
        /\ old \in Content
    BY WriteFacts DEF Ids
  <2> HIDE DEF old, new
  <2> QED
    BY <2>1, WriteAtFacts
<1>5. /\ \A i \in 1..Len(old) : old[i] \in crossed \union {0, c.id}
      /\ c.id \notin crossed => Len(old) = c.pos /\ \A i \in 1..c.pos : old[i] = c.id
  BY <1>2 DEF UploadInv, WritersOK
<1> HIDE DEF old, new
<1>6. \A i \in 1..Len(new) : new[i] \in {c.id, 0} \/ (i \in 1..Len(old) /\ new[i] = old[i])
  BY <1>3, <1>4
<1>7. \A i \in 1..Len(new) : new[i] \in crossed \union {0, c.id}
  BY <1>5, <1>6
<1>8. c.id \notin crossed => Len(new) = c.pos + 1 /\ \A i \in 1..(c.pos + 1) : new[i] = c.id
  BY <1>3, <1>4, <1>5
<1>9. WritersOK(conns', data', crossed')
  <2>w. WritersOK(conns, data, crossed)
    BY DEF UploadInv
  <2>1. ASSUME NEW x \in conns', x.up, x.file # 0
        PROVE  /\ \A i \in 1..Len(data'[x.file]) : data'[x.file][i] \in crossed' \union {0, x.id}
               /\ x.id \notin crossed' => /\ Len(data'[x.file]) = x.pos
                                          /\ \A i \in 1..x.pos : data'[x.file][i] = x.id
    <3>1. CASE x = e
      BY <1>1, <1>2, <1>7, <1>8, <3>1 DEF new
    <3>2. CASE x \in conns /\ x # c /\ x.file = c.file
      <4>1. x.id \in crossed /\ c.id \in crossed
        BY <1>2, <2>1, <2>w, <3>2 DEF WritersOK
      <4> QED
        BY <1>2, <1>7, <3>2, <4>1 DEF new
    <3>3. CASE x \in conns /\ x.file # c.file
      <4>1. data'[x.file] = data[x.file]
        BY <1>3, <2>1, <3>3, ThreadFacts
      <4> QED
        BY <1>2, <2>1, <2>w, <3>3, <4>1 DEF WritersOK
    <3> QED
      BY <1>2, <3>1, <3>2, <3>3
  <2>2. ASSUME NEW x \in conns', NEW y \in conns', x # y, x.up, y.up, x.file = y.file, x.file # 0
        PROVE  x.id \in crossed' /\ y.id \in crossed'
    <3>1. CASE x \in conns /\ y \in conns
      BY <1>2, <2>2, <2>w, <3>1 DEF WritersOK
    <3>2. CASE x = e /\ y \in conns \ {c}
      BY <1>1, <1>2, <2>2, <2>w, <3>2 DEF WritersOK
    <3>3. CASE x \in conns \ {c} /\ y = e
      BY <1>1, <1>2, <2>2, <2>w, <3>3 DEF WritersOK
    <3> QED
      BY <1>2, <2>2, <3>1, <3>2, <3>3
  <2> QED
    BY <2>1, <2>2 DEF WritersOK
<1>10. Unmixed(data', crossed')
  <2>1. ASSUME NEW f \in 1..Len(data'), NEW i \in 1..Len(data'[f]), data'[f][i] \notin crossed' \union {0},
               NEW j \in 1..Len(data'[f])
        PROVE  data'[f][j] = data'[f][i]
    <3>1. CASE f = c.file
      BY <1>2, <1>7, <1>8, <2>1, <3>1 DEF new
    <3>2. CASE f # c.file
      <4>1. f \in 1..Len(data) /\ data'[f] = data[f]
        BY <1>3, <3>2
      <4> QED
        BY <1>2, <2>1, <4>1 DEF UploadInv, Unmixed
    <3> QED
      BY <3>1, <3>2
  <2> QED
    BY <2>1 DEF Unmixed
<1> QED
  BY <1>9, <1>10 DEF UploadInv

\* Every step keeps uploads apart.
LEMMA UploadsInductive == ASSUME Base, UploadInv, Next PROVE UploadInv'
<1>1. ASSUME crossed' = crossed, data' = data, \A x \in conns' : x.up /\ x.file # 0 => x \in conns
      PROVE  UploadInv'
  BY <1>1, WritersWeaken DEF UploadInv
<1>2. ASSUME NEW n \in Names, NEW seek, InitDownload(n, seek) PROVE UploadInv'
  BY <1>1, <1>2 DEF InitDownload, store
<1>3. ASSUME Drops PROVE UploadInv'
  BY <1>1, <1>3 DEF Drops
<1>4. ASSUME NEW t \in transfers, NEW http \in BOOLEAN, NEW size \in 0..MaxSize, Take(t, http, size)
      PROVE  UploadInv'
  <2>1. PICK c \in Thread : conns' = conns \union {c} /\ c.file = 0 /\ UNCHANGED <<store, hist>>
    BY <1>4, TakeFacts
  <2>2. data' = data /\ crossed' = crossed
    BY <2>1 DEF store, hist
  <2> QED
    BY <1>1, <2>1, <2>2
<1>5. ASSUME NEW c \in conns, OpenDownload(c) PROVE UploadInv'
  <2>1. ~ c.up /\ data' = data /\ crossed' = crossed
    BY <1>5, OpenDownloadFacts DEF store, hist
  <2>2. CASE Ends(c)
    BY <1>1, <2>1, <2>2 DEF Ends
  <2>3. ASSUME NEW e \in Thread, Becomes(c, e), e.up = c.up PROVE UploadInv'
    BY <1>1, <2>1, <2>3 DEF Becomes
  <2> QED
    BY <1>5, <2>2, <2>3, OpenDownloadFacts
<1>6. ASSUME NEW c \in conns, Read(c) PROVE UploadInv'
  <2>1. ~ c.up /\ data' = data /\ crossed' = crossed
    BY <1>6, ReadFacts DEF store
  <2>2. PICK e \in Thread : Becomes(c, e) /\ e.up = c.up
    BY <1>6, ReadFacts
  <2> QED
    BY <1>1, <2>1, <2>2 DEF Becomes
<1>7. ASSUME NEW c \in conns, EndDownload(c) PROVE UploadInv'
  BY <1>1, <1>7 DEF EndDownload, Ends, store
<1>8. ASSUME NEW c \in Clients, NEW n \in Names, NEW slash, NEW overwrite, NEW size \in 0..MaxSize,
             InitUpload(c, n, slash, size, overwrite)
      PROVE  UploadInv'
  BY <1>8, InitUploadUploads
<1>9. ASSUME NEW c \in conns, OpenUpload(c) PROVE UploadInv'
  BY <1>9, OpenUploadUploads
<1>10. ASSUME NEW c \in conns, Write(c) PROVE UploadInv'
  BY <1>10, WriteUploads
<1> QED
  BY <1>2, <1>3, <1>4, <1>5, <1>6, <1>7, <1>8, <1>9, <1>10, DropSteps DEF Next

-----------------------------------------------------------------------------
(* Avatars.                                                                *)

\* Flags and reports keep their types.
LEMMA RestInductive == ASSUME Base, RestOK, Next PROVE RestOK'
<1>1. flag' \in [Clients -> BOOLEAN]
  <2>1. \/ flag' = flag
        \/ \E c \in Clients, value \in BOOLEAN : flag' = [flag EXCEPT ![c] = value]
    <3>1. ASSUME NEW c \in Clients, NEW n, NEW slash, NEW value \in BOOLEAN, SetAvatarFlag(c, n, slash, value)
          PROVE  \/ flag' = flag
                 \/ \E x \in Clients, v \in BOOLEAN : flag' = [flag EXCEPT ![x] = v]
      BY <3>1 DEF SetAvatarFlag
    <3> QED
      BY <3>1 DEF Next, InitUpload, InitDownload, Stop, Delete, Rename, Take, TakeInVain, OpenUpload, Write,
              EndUpload, RefusePayload, Lose, OpenDownload, Read, EndDownload
  <2> QED
    BY <2>1 DEF RestOK
<1>2. told' \in [Ids -> {"nothing", "started", "complete", "failed"}]
  <2>1. \/ told' = told
        \/ \E i, what : /\ what \in {"started", "complete", "failed"}
                        /\ told' = [told EXCEPT ![i] = what]
    BY DEF Next, InitUpload, InitDownload, Stop, Delete, Rename, Take, TakeInVain, OpenUpload, Write,
              EndUpload, RefusePayload, Lose, OpenDownload, Read, EndDownload, Tell
  <2> QED
    BY <2>1 DEF RestOK
<1> QED
  BY <1>1, <1>2 DEF RestOK

\* Every step keeps the avatar flags true.
LEMMA AvatarsInductive == ASSUME Base, RestOK, AvatarFlagsTrue, Next PROVE AvatarFlagsTrue'
<1>t. FilesOK(dir, data) /\ flag \in [Clients -> BOOLEAN] /\ Clients \subseteq Names
  BY DEF Base, RestOK, Names
<1>1. ASSUME flag' = flag, dir' = dir, odd \subseteq odd' PROVE AvatarFlagsTrue'
  BY <1>1 DEF AvatarFlagsTrue
<1>2. ASSUME NEW c \in Clients, NEW n \in Names, NEW slash \in BOOLEAN, NEW value \in BOOLEAN,
             SetAvatarFlag(c, n, slash, value), odd' = Oddly(c, n, slash),
             \A m \in Names : m # n => dir'[m] = dir[m], value <=> dir'[n] # 0
      PROVE  AvatarFlagsTrue'
  <2>1. CASE n \notin Clients
    BY <1>2, <2>1, <1>t DEF SetAvatarFlag, Oddly, AvatarFlagsTrue
  <2>2. CASE n = c /\ slash
    <3>1. flag' = [flag EXCEPT ![c] = value] /\ odd' = odd \ {c}
      BY <1>2, <2>2 DEF SetAvatarFlag, Oddly
    <3>2. ASSUME NEW x \in Clients, x \notin odd' PROVE flag'[x] <=> dir'[x] # 0
      <4>1. CASE x = c
        BY <1>2, <1>t, <2>2, <3>1, <4>1
      <4>2. CASE x # c
        BY <1>2, <1>t, <2>2, <3>1, <3>2, <4>2 DEF AvatarFlagsTrue
      <4> QED
        BY <4>1, <4>2
    <3> QED
      BY <3>2 DEF AvatarFlagsTrue
  <2>3. CASE n \in Clients /\ ~ (n = c /\ slash)
    <3>1. odd' = odd \union {c, n}
      BY <1>2, <2>3 DEF Oddly
    <3>2. \A x \in Clients : x # c => flag'[x] = flag[x]
      BY <1>2, <1>t DEF SetAvatarFlag
    <3> QED
      BY <1>2, <1>t, <3>1, <3>2 DEF AvatarFlagsTrue
  <2> QED
    BY <2>1, <2>2, <2>3
<1>3. ASSUME NEW c \in Clients, NEW n \in Names, NEW slash \in BOOLEAN, NEW overwrite, NEW size \in 0..MaxSize,
             InitUpload(c, n, slash, size, overwrite)
      PROVE  AvatarFlagsTrue'
  <2>1. Create(n, Zeros(size)) /\ SetAvatarFlag(c, n, slash, TRUE) /\ odd' = Oddly(c, n, slash)
    BY <1>3 DEF InitUpload, Reserve
  <2>2. (\A m \in Names : m # n => dir'[m] = dir[m]) /\ dir'[n] # 0
    BY <1>t, <2>1, CreateFacts, StartingContents
  <2> QED
    BY <1>2, <2>1, <2>2
<1>4. ASSUME NEW c \in Clients, NEW n \in Names, NEW slash \in BOOLEAN, Delete(c, n, slash)
      PROVE  AvatarFlagsTrue'
  <2>1. Unlink(n) /\ SetAvatarFlag(c, n, slash, FALSE) /\ odd' = Oddly(c, n, slash)
    BY <1>4 DEF Delete
  <2>2. (\A m \in Names : m # n => dir'[m] = dir[m]) /\ dir'[n] = 0
    BY <1>t, <2>1, UnlinkFacts
  <2> QED
    BY <1>2, <2>1, <2>2
<1>5. ASSUME NEW t \in transfers, NEW delete, Stop(t, delete) PROVE AvatarFlagsTrue'
  <2>1. CASE delete /\ t.up
    <3>1. /\ Unlink(t.name) /\ odd' = (IF t.name \in Clients THEN odd \union {t.name} ELSE odd) /\ flag' = flag
      BY <1>5, <2>1 DEF Stop
    <3>2. t.name \in Names
      BY DEF Base, KeysOK, Transfer
    <3>3. \A m \in Names : m # t.name => dir'[m] = dir[m]
      BY <1>t, <3>1, <3>2, UnlinkFacts
    <3> QED
      BY <1>t, <3>1, <3>3 DEF AvatarFlagsTrue
  <2>2. CASE ~ (delete /\ t.up)
    BY <1>1, <1>5, <2>2 DEF Stop, store
  <2> QED
    BY <2>1, <2>2
<1>6. ASSUME NEW n \in Names, NEW m \in Names, Rename(n, m) PROVE AvatarFlagsTrue'
  <2>1. MoveName(n, m) /\ odd' = odd \union ({n, m} \cap Clients) /\ flag' = flag
    BY <1>6 DEF Rename
  <2>2. \A l \in Names : l \notin {n, m} => dir'[l] = dir[l]
    BY <1>t, <2>1, MoveFacts
  <2> QED
    BY <1>t, <2>1, <2>2 DEF AvatarFlagsTrue
<1>7. ASSUME NEW c \in conns, OpenUpload(c) PROVE AvatarFlagsTrue'
  <2>1. /\ odd' = (IF c.name \in Clients /\ dir[c.name] = 0 THEN odd \union {c.name} ELSE odd) /\ flag' = flag
    BY <1>7 DEF OpenUpload
  <2>2. Create(c.name, <<>>) /\ c.name \in Names
    BY <1>7, OpenUploadFacts, ThreadFacts
  <2>3. (\A m \in Names : m # c.name => dir'[m] = dir[m]) /\ (dir[c.name] # 0 => dir' = dir)
    BY <1>t, <2>2, CreateFacts, StartingContents
  <2> QED
    BY <1>t, <2>1, <2>3 DEF AvatarFlagsTrue
<1>8. ASSUME \/ \E n \in Names, seek \in 0..MaxSize : InitDownload(n, seek)
             \/ \E t \in transfers, http \in BOOLEAN, size \in 0..MaxSize : Take(t, http, size)
             \/ \E t \in transfers : TakeInVain(t)
             \/ \E c \in conns :
                   \/ Write(c) \/ EndUpload(c) \/ RefusePayload(c) \/ Lose(c)
                   \/ OpenDownload(c) \/ Read(c) \/ EndDownload(c)
      PROVE  AvatarFlagsTrue'
  <2>1. flag' = flag /\ dir' = dir /\ odd' = odd
    BY <1>8 DEF InitDownload, Take, TakeInVain, Write, EndUpload, RefusePayload, Lose, OpenDownload, Read,
                EndDownload, store, hist
  <2> QED
    BY <1>1, <2>1
<1> QED
  BY <1>3, <1>4, <1>5, <1>6, <1>7, <1>8 DEF Next

-----------------------------------------------------------------------------
(* Downloads.                                                              *)

\* The rest of a file, as ftinitdownload promises it.
LEMMA RestOfFile ==
    ASSUME NEW s \in Content, NEW seek \in 0..MaxSize, seek <= Len(s)
    PROVE  Part(SubSeq(s, seek + 1, Len(s)), s, seek, Len(s)) /\ SubSeq(s, seek + 1, Len(s)) \in Seq(0..MaxTransfers)
<1>1. s \in Seq(0..MaxTransfers) /\ Len(s) \in Nat /\ seek \in Nat
  BY TransferBounds DEF Content
<1> DEFINE n == Len(s) - seek
           r == SubSeq(s, seek + 1, Len(s))
<1>2. n \in Nat
  BY <1>1
<1>3. r = [i \in 1..n |-> s[seek + i]]
  <2>1. r = [i \in 1..(Len(s) - (seek + 1) + 1) |-> s[i + (seek + 1) - 1]]
    BY <1>1
  <2>2. Len(s) - (seek + 1) + 1 = n
    BY <1>1
  <2>3. \A i \in 1..n : i + (seek + 1) - 1 = seek + i
    BY <1>1, <1>2
  <2> HIDE DEF n, r
  <2> QED
    BY <2>1, <2>2, <2>3
<1>4. \A i \in 1..n : seek + i \in 1..Len(s)
  BY <1>1
<1> HIDE DEF n, r
<1>5. \A i \in 1..n : s[seek + i] \in 0..MaxTransfers
  BY <1>1, <1>4, ElementOfSeq
<1>6. r \in [1..n -> 0..MaxTransfers]
  BY <1>3, <1>5
<1>7. r \in Seq(0..MaxTransfers) /\ Len(r) = n
  BY <1>2, <1>6, FunctionIsSequence
<1>8. \A i \in 1..n : r[i] = s[seek + i]
  BY <1>3
<1> QED
  BY <1>1, <1>7, <1>8 DEF Part, n, r

\* Two copies of the same part are equal.
LEMMA PartsEqual ==
    ASSUME NEW r, NEW s, NEW content, NEW from \in Nat, NEW to \in Nat,
           Part(r, content, from, to), Part(s, content, from, to)
    PROVE  r = s
<1>1. /\ r \in Seq(0..MaxTransfers) /\ s \in Seq(0..MaxTransfers) /\ Len(r) = Len(s)
      /\ Len(r) = to - from
      /\ \A i \in 1..(to - from) : r[i] = content[from + i] /\ s[i] = content[from + i]
  BY DEF Part
<1>2. \A i \in 1..Len(r) : r[i] = s[i]
  BY <1>1
<1> QED
  BY <1>1, <1>2, SeqEqual

\* A copy grows by one unit.
LEMMA PartGrows ==
    ASSUME NEW s, NEW content \in Content, NEW from \in Nat, NEW to \in Nat, Part(s, content, from, to),
           to < Len(content)
    PROVE  Part(Append(s, content[to + 1]), content, from, to + 1)
<1>1. content \in Seq(0..MaxTransfers) /\ Len(content) \in Nat
  BY DEF Content
<1>2. content[to + 1] \in 0..MaxTransfers
  <2>1. to + 1 \in 1..Len(content)
    BY <1>1
  <2> QED
    BY <1>1, <2>1, ElementOfSeq
<1>3. /\ s \in Seq(0..MaxTransfers) /\ from <= to /\ Len(s) = to - from
      /\ \A i \in 1..(to - from) : s[i] = content[from + i]
  BY DEF Part
<1> DEFINE e == content[to + 1]
           r == Append(s, e)
<1>4. /\ r \in Seq(0..MaxTransfers) /\ Len(r) = Len(s) + 1
      /\ \A i \in 1..Len(s) : r[i] = s[i]
      /\ r[Len(s) + 1] = e
  <2>1. e \in 0..MaxTransfers /\ s \in Seq(0..MaxTransfers)
    BY <1>2, <1>3
  <2> HIDE DEF e
  <2> QED BY <2>1, AppendProperties
<1> HIDE DEF r
<1>5. \A i \in 1..(to + 1 - from) : r[i] = content[from + i]
  <2> SUFFICES ASSUME NEW i \in 1..(to + 1 - from) PROVE r[i] = content[from + i]
    OBVIOUS
  <2>1. CASE i <= to - from
    BY <1>3, <1>4, <2>1
  <2>2. CASE i = to - from + 1
    <3>1. from + i = to + 1 /\ i = Len(s) + 1
      BY <1>3, <2>2
    <3> QED
      BY <1>4, <3>1
  <2> QED
    BY <1>3, <2>1, <2>2
<1> QED
  BY <1>1, <1>3, <1>4, <1>5 DEF Part, r

\* Name n still stands for the same content.
SameFile(n) == dir'[n] = dir[n] /\ (dir[n] # 0 => data'[dir[n]] = data[dir[n]])

\* A download that no step has touched keeps what it was promised.
Untouched ==
    /\ \A t \in transfers : ~ t.up /\ t.id \notin touched' => SameFile(t.name)
    /\ \A c \in conns : ~ c.up /\ c.id \notin touched' =>
          IF c.file = 0 THEN SameFile(c.name) ELSE data'[c.file] = data[c.file]

\* Then the downloads that go on are as promised.
LEMMA DownloadsGoOn ==
    ASSUME DownloadsOK(transfers, conns, dir, data, promise, got, touched), Untouched,
           touched \subseteq touched', UNCHANGED <<promise, got>>,
           \A t \in transfers' : ~ t.up => t \in transfers,
           \A c \in conns' : ~ c.up => c \in conns
    PROVE  DownloadsOK(transfers', conns', dir', data', promise', got', touched')
<1>1. ASSUME NEW t, dir[t.name] # 0, SameFile(t.name), Due(t, dir, data, promise, got)
      PROVE  Due(t, dir', data', promise', got')
  BY <1>1 DEF SameFile, Due
<1>2. ASSUME NEW t \in transfers', ~ t.up, t.id \notin touched' PROVE Due(t, dir', data', promise', got')
  <2>1. Due(t, dir, data, promise, got) /\ SameFile(t.name)
    BY <1>2 DEF DownloadsOK, Untouched
  <2> QED
    BY <1>1, <2>1 DEF Due
<1>3. ASSUME NEW c \in conns', ~ c.up, c.id \notin touched'
      PROVE  IF c.file = 0 THEN Due(c, dir', data', promise', got') ELSE Under(c, data', promise', got')
  <2>1. CASE c.file = 0
    <3>1. Due(c, dir, data, promise, got) /\ SameFile(c.name)
      BY <1>3, <2>1 DEF DownloadsOK, Untouched
    <3> QED
      BY <1>1, <2>1, <3>1 DEF Due
  <2>2. CASE c.file # 0
    <3>1. Under(c, data, promise, got) /\ data'[c.file] = data[c.file]
      BY <1>3, <2>2 DEF DownloadsOK, Untouched
    <3> QED
      BY <2>2, <3>1 DEF Under
  <2> QED
    BY <2>1, <2>2
<1> QED
  BY <1>2, <1>3 DEF DownloadsOK

\* The downloads that Reading names are all that a new or emptied file changes.
LEMMA CreateTouches ==
    ASSUME Base, NEW n \in Names, NEW content \in Content, Create(n, content),
           Reading(n, dir[n]) \subseteq touched'
    PROVE  Untouched
<1>1. FilesOK(dir, data) /\ \A t \in transfers : t.name \in Names
  BY DEF Base, KeysOK, Transfer
<1>2. /\ FilesOK(dir', data') /\ dir'[n] \in 1..Len(data') /\ Len(data) \in Nat
      /\ \A g \in 1..Len(data) : g # dir'[n] => data'[g] = data[g]
      /\ \A m \in Names : m # n => dir'[m] = dir[m]
      /\ dir[n] # 0 => dir'[n] = dir[n]
      /\ dir[n] = 0 => dir'[n] = Len(data) + 1
  BY <1>1, CreateFacts DEF FilesOK
<1>3. ASSUME NEW m \in Names, m # n PROVE SameFile(m)
  <2>1. dir'[m] = dir[m] /\ (dir'[m] = dir'[n] => dir'[m] = 0)
    BY <1>2, <1>3 DEF FilesOK
  <2>2. dir[m] # 0 => dir[m] \in 1..Len(data)
    BY <1>1, <1>2 DEF FilesOK
  <2> QED
    BY <1>2, <2>1, <2>2 DEF SameFile
<1>4. ASSUME NEW t \in transfers, ~ t.up, t.id \notin touched' PROVE SameFile(t.name)
  <2>1. t.name # n
    BY <1>4 DEF Reading
  <2> QED
    BY <1>1, <1>3, <2>1
<1>5. ASSUME NEW c \in conns, ~ c.up, c.id \notin touched', c.file = 0 PROVE SameFile(c.name)
  <2>1. c.name # n
    BY <1>5 DEF Reading
  <2> QED
    BY <1>3, <2>1, ThreadFacts
<1>6. ASSUME NEW c \in conns, ~ c.up, c.id \notin touched', c.file # 0 PROVE data'[c.file] = data[c.file]
  <2>1. c.file # dir[n]
    BY <1>6 DEF Reading
  <2>2. c.file \in 1..Len(data)
    BY <1>6, ThreadFacts
  <2>3. c.file # dir'[n]
    BY <1>2, <2>1, <2>2
  <2> QED
    BY <1>2, <2>2, <2>3
<1> QED
  BY <1>4, <1>5, <1>6 DEF Untouched

\* So with names that change.
LEMMA NamesTouch ==
    ASSUME Base, NEW N \in SUBSET Names, data' = data, \A m \in Names \ N : dir'[m] = dir[m],
           \A n \in N : Reading(n, 0) \subseteq touched'
    PROVE  Untouched
<1>1. \A m \in Names \ N : SameFile(m)
  BY DEF SameFile
<1>2. ASSUME NEW t \in transfers, ~ t.up, t.id \notin touched' PROVE SameFile(t.name)
  <2>1. t.name \in Names
    BY DEF Base, KeysOK, Transfer
  <2>2. t.name \notin N
    BY <1>2 DEF Reading
  <2> QED
    BY <1>1, <2>1, <2>2
<1>3. ASSUME NEW c \in conns, ~ c.up, c.id \notin touched', c.file = 0 PROVE SameFile(c.name)
  <2>1. c.name \in Names
    BY ThreadFacts
  <2>2. c.name \notin N
    BY <1>3 DEF Reading
  <2> QED
    BY <1>1, <2>1, <2>2
<1> QED
  BY <1>2, <1>3 DEF Untouched

\* And with a unit that is written.
LEMMA WriteTouches ==
    ASSUME Base, NEW c \in conns, Write(c)
    PROVE  Untouched
<1>1. touched' = touched \union (UNION {Reading(n, c.file) : n \in {m \in Names : dir[m] = c.file}})
                         \union {d.id : d \in {e \in Users(c.file) : ~ e.up}}
  BY DEF Write
<1>r. \A x \in Users(c.file) : ~ x.up => x.id \in touched'
  <2> SUFFICES ASSUME NEW x \in Users(c.file), ~ x.up PROVE x.id \in touched'
    OBVIOUS
  <2>1. x \in {e \in Users(c.file) : ~ e.up}
    OBVIOUS
  <2>2. x.id \in {d.id : d \in {e \in Users(c.file) : ~ e.up}}
    BY <2>1
  <2> QED
    BY <1>1, <2>2
<1>2. /\ dir' = dir /\ c.file \in 1..Len(data) /\ Len(data) \in Nat
      /\ \A g \in 1..Len(data) : g # c.file => data'[g] = data[g]
      /\ dir \in [Names -> 0..Len(data)]
  BY WriteFacts, ThreadFacts DEF Base, FilesOK
<1>3. ASSUME NEW m \in Names, dir[m] # c.file PROVE SameFile(m)
  BY <1>2, <1>3 DEF SameFile
<1>4. ASSUME NEW t \in transfers, ~ t.up, t.id \notin touched' PROVE SameFile(t.name)
  <2>1. t.name \in Names
    BY DEF Base, KeysOK, Transfer
  <2>2. t.id \in Reading(t.name, c.file)
    BY <1>4 DEF Reading
  <2>3. dir[t.name] # c.file
    BY <1>1, <1>4, <2>1, <2>2
  <2> QED
    BY <1>3, <2>1, <2>3
<1>5. ASSUME NEW x \in conns, ~ x.up, x.id \notin touched', x.file = 0 PROVE SameFile(x.name)
  <2>1. x.name \in Names
    BY ThreadFacts
  <2>2. x.id \in Reading(x.name, c.file)
    BY <1>5 DEF Reading
  <2>3. dir[x.name] # c.file
    BY <1>1, <1>5, <2>1, <2>2
  <2> QED
    BY <1>3, <2>1, <2>3
<1>6. ASSUME NEW x \in conns, ~ x.up, x.id \notin touched', x.file # 0 PROVE data'[x.file] = data[x.file]
  <2>1. x.file # c.file
    <3>2. x \notin Users(c.file)
      BY <1>r, <1>6
    <3> QED
      BY <1>6, <3>2 DEF Users
  <2>2. x.file \in 1..Len(data)
    BY <1>6, ThreadFacts
  <2> QED
    BY <1>2, <2>1, <2>2
<1> QED
  BY <1>4, <1>5, <1>6 DEF Untouched

\* Steps that touch the files, or leave them alone, but serve no download.
LEMMA OtherSteps ==
    ASSUME Base, Next,
           ~ \E n \in Names, seek \in 0..MaxSize : InitDownload(n, seek),
           ~ \E t \in transfers, http \in BOOLEAN, size \in 0..MaxSize : Take(t, http, size),
           ~ \E c \in conns : OpenDownload(c) \/ Read(c) \/ EndDownload(c)
    PROVE  /\ Untouched /\ touched \subseteq touched' /\ UNCHANGED <<promise, got, finished>>
           /\ nextId' \in {nextId, nextId + 1}
           /\ \A t \in transfers' : ~ t.up => t \in transfers
           /\ \A c \in conns' : ~ c.up => c \in conns
<1> DEFINE Goal == /\ Untouched /\ touched \subseteq touched' /\ UNCHANGED <<promise, got, finished>>
                   /\ nextId' \in {nextId, nextId + 1}
                   /\ \A t \in transfers' : ~ t.up => t \in transfers
                   /\ \A c \in conns' : ~ c.up => c \in conns
<1>t. FilesOK(dir, data) /\ \A t \in transfers : t.name \in Names
  BY DEF Base, KeysOK, Transfer
<1>1. ASSUME UNCHANGED <<store, touched>> PROVE Untouched /\ touched \subseteq touched'
  <2>1. Untouched
    BY <1>1 DEF Untouched, SameFile, store
  <2> QED
    BY <1>1, <2>1
<1>2. ASSUME NEW c \in Clients, NEW n \in Names, NEW slash, NEW overwrite, NEW size \in 0..MaxSize,
             InitUpload(c, n, slash, size, overwrite)
      PROVE  Goal
  <2>1. /\ Create(n, Zeros(size)) /\ touched' = touched \union Reading(n, dir[n])
        /\ UNCHANGED <<conns, promise, got, finished>> /\ nextId' = nextId + 1
        /\ transfers' = transfers \union {[id |-> nextId, up |-> TRUE, name |-> n, seek |-> 0, size |-> size]}
    BY <1>2 DEF InitUpload, Reserve, Register
  <2>2. Untouched
    BY <2>1, CreateTouches, StartingContents
  <2> QED
    BY <2>1, <2>2
<1>3. ASSUME NEW c \in conns, OpenUpload(c) PROVE Goal
  <2>1. /\ touched' = touched \union Reading(c.name, dir[c.name]) /\ UNCHANGED <<promise, got>>
    BY <1>3 DEF OpenUpload
  <2>2. Create(c.name, <<>>) /\ c.up /\ UNCHANGED <<transfers, nextId, finished>>
    BY <1>3, OpenUploadFacts
  <2>3. PICK e \in Thread : Becomes(c, e) /\ e.up = c.up
    BY <1>3, OpenUploadFacts
  <2>4. Untouched
    BY <2>1, <2>2, CreateTouches, StartingContents, ThreadFacts
  <2>5. e.up
    BY <2>2, <2>3
  <2>6. \A x \in conns' : ~ x.up => x \in conns
    BY <2>3, <2>5 DEF Becomes
  <2> QED
    BY <2>1, <2>2, <2>4, <2>6
<1>4. ASSUME NEW c \in conns, Write(c) PROVE Goal
  <2>1. /\ touched \subseteq touched' /\ UNCHANGED <<promise, got>>
    BY <1>4 DEF Write
  <2>2. c.up /\ UNCHANGED <<transfers, nextId, finished>>
    BY <1>4, WriteStep
  <2>3. PICK e \in Thread : Becomes(c, e) /\ e.up = c.up
    BY <1>4, WriteStep
  <2>4. Untouched
    BY <1>4, WriteTouches
  <2>5. e.up
    BY <2>2, <2>3
  <2>6. \A x \in conns' : ~ x.up => x \in conns
    BY <2>3, <2>5 DEF Becomes
  <2> QED
    BY <2>1, <2>2, <2>4, <2>6
<1>5. ASSUME Drops, Untouched, touched \subseteq touched' PROVE Goal
  BY <1>5 DEF Drops
<1>6. ASSUME NEW n \in Names, Unlink(n), Drops PROVE Goal
  <2>1. touched' = touched \union Reading(n, 0)
    BY <1>6 DEF Unlink
  <2>2. data' = data /\ \A m \in Names : m # n => dir'[m] = dir[m]
    BY <1>t, <1>6, UnlinkFacts
  <2>3. Untouched
    <3> DEFINE N == {n}
    <3>1. /\ N \in SUBSET Names /\ \A k \in Names \ N : dir'[k] = dir[k]
          /\ \A k \in N : Reading(k, 0) \subseteq touched'
      BY <2>1, <2>2
    <3> HIDE DEF N
    <3> QED
      BY <2>2, <3>1, NamesTouch
  <2> QED
    BY <1>5, <1>6, <2>1, <2>3
<1>7. ASSUME NEW t \in transfers, NEW delete, Stop(t, delete) PROVE Goal
  BY <1>t, <1>1, <1>5, <1>6, <1>7, DropSteps
<1>8. ASSUME NEW c, NEW n \in Names, NEW slash, Delete(c, n, slash) PROVE Goal
  BY <1>6, <1>8, DropSteps
<1>9. ASSUME NEW n \in Names, NEW m \in Names, Rename(n, m) PROVE Goal
  <2>1. touched' = touched \union Reading(n, 0) \union Reading(m, 0) /\ MoveName(n, m) /\ Drops
    BY <1>9, DropSteps DEF Rename
  <2>2. data' = data /\ \A l \in Names : l \notin {n, m} => dir'[l] = dir[l]
    BY <1>t, <2>1, MoveFacts
  <2>3. Untouched
    <3> DEFINE N == {n, m}
    <3>1. /\ N \in SUBSET Names /\ \A k \in Names \ N : dir'[k] = dir[k]
          /\ \A k \in N : Reading(k, 0) \subseteq touched'
      BY <2>1, <2>2
    <3> HIDE DEF N
    <3> QED
      BY <2>2, <3>1, NamesTouch
  <2> QED
    BY <1>5, <2>1, <2>3
<1>10. ASSUME NEW t, TakeInVain(t) PROVE Goal
  BY <1>1, <1>5, <1>10, DropSteps
<1>11. ASSUME NEW c, EndUpload(c) \/ RefusePayload(c) \/ Lose(c) PROVE Goal
  BY <1>1, <1>5, <1>11, DropSteps
<1>12. Goal
  <2> HIDE DEF Goal
  <2> QED
    BY <1>2, <1>3, <1>4, <1>7, <1>8, <1>9, <1>10, <1>11 DEF Next
<1> QED
  BY <1>12

\* What a download was promised and has got is its own affair.
LEMMA OthersKeep ==
    ASSUME NEW d, NEW dt, NEW pr, NEW gt, NEW pr2, NEW gt2, NEW c, pr2[c.id] = pr[c.id], gt2[c.id] = gt[c.id]
    PROVE  /\ Due(c, d, dt, pr, gt) => Due(c, d, dt, pr2, gt2)
           /\ Under(c, dt, pr, gt) => Under(c, dt, pr2, gt2)
BY DEF Due, Under

\* ftinitdownload promises the rest of the file as it is now.
LEMMA InitDownloadDownloads ==
    ASSUME Base, DownloadInv, NEW n \in Names, NEW seek \in 0..MaxSize, InitDownload(n, seek)
    PROVE  DownloadInv'
<1> DEFINE s == data[dir[n]]
           r == SubSeq(s, seek + 1, Len(s))
           size == Len(s) - seek
           t == [id |-> nextId, up |-> FALSE, name |-> n, seek |-> seek, size |-> size]
<1>1. /\ dir[n] # 0 /\ seek <= Len(s) /\ Register(FALSE, n, seek, size)
      /\ promise' = [promise EXCEPT ![nextId] = r]
      /\ UNCHANGED <<dir, data, conns, got, finished, touched>>
  BY DEF InitDownload, PrepareDownload, store
<1>2. s \in Content
  <2>1. dir[n] \in 1..Len(data) /\ data \in Seq(Content)
    BY <1>1 DEF Base, FilesOK
  <2> QED
    BY <2>1
<1>3. r \in Seq(0..MaxTransfers) /\ Part(r, s, seek, Len(s))
  BY <1>1, <1>2, RestOfFile
<1>4. size \in 0..MaxSize
  BY <1>1, <1>2, TransferBounds DEF Content
<1> HIDE DEF size
<1>5. nextId \in Ids /\ nextId' = nextId + 1 /\ transfers' = transfers \union {t}
  BY <1>1, <1>4, RegisterFacts DEF Base
<1>6. t.id = nextId /\ t.name = n /\ t.seek = seek
  OBVIOUS
<1> HIDE DEF t, r, s
<1>7. /\ HistoryOK(promise, got, nextId) /\ DownloadsOK(transfers, conns, dir, data, promise, got, touched)
      /\ DownloadsAsPromised
  BY DEF DownloadInv
<1>8. /\ promise' \in [Ids -> Seq(0..MaxTransfers)] /\ promise'[nextId] = r
      /\ \A i \in Ids : i # nextId => promise'[i] = promise[i]
  BY <1>1, <1>3, <1>5, <1>7 DEF HistoryOK
<1>9. HistoryOK(promise', got', nextId')
  BY <1>1, <1>5, <1>7, <1>8 DEF HistoryOK, Ids
<1>10. /\ \A u \in transfers : u.id \in Ids /\ u.id # nextId
       /\ \A c \in conns : c.id \in Ids /\ c.id # nextId
       /\ \A i \in finished : i \in Ids /\ i # nextId
  BY DEF Base, KeysOK, Transfer, Thread, Ids
<1>11. Due(t, dir', data', promise', got')
  <2>1. got[nextId] = <<>>
    BY <1>5, <1>7 DEF HistoryOK, Ids
  <2> QED
    BY <1>1, <1>3, <1>6, <1>8, <2>1 DEF Due, s
<1>12. ASSUME NEW u \in transfers, ~ u.up, u.id \notin touched PROVE Due(u, dir', data', promise', got')
  <2>1. Due(u, dir, data, promise, got) /\ promise'[u.id] = promise[u.id] /\ got'[u.id] = got[u.id]
    BY <1>1, <1>7, <1>8, <1>10, <1>12 DEF DownloadsOK
  <2> QED
    BY <1>1, <2>1, OthersKeep
<1>13. ASSUME NEW c \in conns, ~ c.up, c.id \notin touched
       PROVE  IF c.file = 0 THEN Due(c, dir', data', promise', got') ELSE Under(c, data', promise', got')
  <2>1. /\ IF c.file = 0 THEN Due(c, dir, data, promise, got) ELSE Under(c, data, promise, got)
        /\ promise'[c.id] = promise[c.id] /\ got'[c.id] = got[c.id]
    BY <1>1, <1>7, <1>8, <1>10, <1>13 DEF DownloadsOK
  <2> QED
    BY <1>1, <2>1, OthersKeep
<1>14. DownloadsOK(transfers', conns', dir', data', promise', got', touched')
  BY <1>1, <1>5, <1>11, <1>12, <1>13 DEF DownloadsOK
<1>15. DownloadsAsPromised'
  BY <1>1, <1>7, <1>8, <1>10 DEF DownloadsAsPromised
<1> QED
  BY <1>9, <1>14, <1>15 DEF DownloadInv

\* A thread takes the download over as it is due.
LEMMA TakeDownloads ==
    ASSUME Base, DownloadInv, NEW t \in transfers, NEW http \in BOOLEAN, NEW size \in 0..MaxSize,
           Take(t, http, size)
    PROVE  DownloadInv'
<1>1. PICK c \in Thread :
         /\ conns' = conns \union {c} /\ transfers' = transfers \ {t}
         /\ c.id = t.id /\ c.up = t.up /\ c.name = t.name /\ c.seek = t.seek
         /\ c.file = 0 /\ c.pos = t.seek
         /\ UNCHANGED <<store, nextId, flag, hist>>
  BY TakeFacts
<1>2. UNCHANGED <<dir, data, nextId, promise, got, finished, touched>>
  BY <1>1 DEF store, hist
<1>3. /\ HistoryOK(promise, got, nextId) /\ DownloadsOK(transfers, conns, dir, data, promise, got, touched)
      /\ DownloadsAsPromised
  BY DEF DownloadInv
<1>4. ASSUME ~ c.up, c.id \notin touched PROVE Due(c, dir, data, promise, got)
  <2>1. Due(t, dir, data, promise, got)
    BY <1>1, <1>3, <1>4 DEF DownloadsOK
  <2> QED
    BY <1>1, <2>1 DEF Due
<1>5. DownloadsOK(transfers', conns', dir', data', promise', got', touched')
  BY <1>1, <1>2, <1>3, <1>4 DEF DownloadsOK
<1> QED
  BY <1>2, <1>3, <1>5 DEF DownloadInv, DownloadsAsPromised

\* A download that opens an untouched file is at the place it asked for.
LEMMA OpenDownloads ==
    ASSUME Base, DownloadInv, NEW c \in conns, OpenDownload(c)
    PROVE  DownloadInv'
<1>1. ~ c.up /\ c.file = 0 /\ UNCHANGED <<transfers, dir, data, nextId, promise, got, finished, touched>>
  BY OpenDownloadFacts DEF store, hist
<1>2. /\ HistoryOK(promise, got, nextId) /\ DownloadsOK(transfers, conns, dir, data, promise, got, touched)
      /\ DownloadsAsPromised
  BY DEF DownloadInv
<1>3. ASSUME Ends(c) PROVE DownloadsOK(transfers', conns', dir', data', promise', got', touched')
  BY <1>1, <1>2, <1>3 DEF DownloadsOK, Ends
<1>4. ASSUME NEW e \in Thread, Becomes(c, e), e.id = c.id, e.up = c.up, e.seek = c.seek,
             e.file = dir[c.name], e.file # 0, e.pos = c.seek
      PROVE  DownloadsOK(transfers', conns', dir', data', promise', got', touched')
  <2>1. ASSUME e.id \notin touched PROVE Under(e, data, promise, got)
    <3>1. Due(c, dir, data, promise, got)
      BY <1>1, <1>2, <1>4, <2>1 DEF DownloadsOK
    <3>2. c.seek \in Nat /\ c.seek - c.seek = 0
      BY ThreadFacts, TransferBounds
    <3>3. Part(<<>>, data[e.file], c.seek, c.seek)
      <4>1. c.seek <= Len(data[e.file])
        BY <1>4, <3>1 DEF Due, Part
      <4>2. <<>> \in Seq(0..MaxTransfers) /\ Len(<<>>) = 0
        OBVIOUS
      <4> QED
        BY <3>2, <4>1, <4>2 DEF Part
    <3> QED
      BY <1>4, <3>1, <3>3 DEF Due, Under
  <2> QED
    BY <1>1, <1>2, <1>4, <2>1 DEF DownloadsOK, Becomes
<1>5. DownloadsOK(transfers', conns', dir', data', promise', got', touched')
  BY <1>3, <1>4, OpenDownloadFacts
<1> QED
  BY <1>1, <1>2, <1>5 DEF DownloadInv, DownloadsAsPromised

\* A download that reads on from an untouched file has got what is before its place.
LEMMA ReadDownloads ==
    ASSUME Base, DownloadInv, NEW c \in conns, Read(c)
    PROVE  DownloadInv'
<1>1. /\ ~ c.up /\ c.file # 0 /\ c.pos < Len(data[c.file])
      /\ UNCHANGED <<transfers, dir, data, nextId, promise, finished, touched>>
      /\ got' = [got EXCEPT ![c.id] = Append(@, data[c.file][c.pos + 1])]
  BY ReadFacts DEF store
<1>2. PICK e \in Thread : /\ Becomes(c, e) /\ e.id = c.id /\ e.up = c.up /\ e.seek = c.seek
                          /\ e.file = c.file /\ e.pos = c.pos + 1
  BY ReadFacts
<1>3. /\ HistoryOK(promise, got, nextId) /\ DownloadsOK(transfers, conns, dir, data, promise, got, touched)
      /\ DownloadsAsPromised
  BY DEF DownloadInv
<1>4. c.id \in Ids /\ data[c.file] \in Content /\ c.pos \in Nat /\ c.seek \in Nat
  BY <1>1, ThreadFacts, TransferBounds
<1> DEFINE unit == data[c.file][c.pos + 1]
<1>5. unit \in 0..MaxTransfers
  <2>1. c.pos + 1 \in 1..Len(data[c.file]) /\ data[c.file] \in Seq(0..MaxTransfers)
    BY <1>1, <1>4 DEF Content
  <2> QED
    BY <2>1, ElementOfSeq
<1>6. got'[c.id] = Append(got[c.id], unit) /\ \A i \in Ids : i # c.id => got'[i] = got[i]
  BY <1>1, <1>3, <1>4 DEF HistoryOK
<1>7. got' \in [Ids -> Seq(0..MaxTransfers)]
  <2>1. Append(got[c.id], unit) \in Seq(0..MaxTransfers)
    BY <1>3, <1>4, <1>5 DEF HistoryOK
  <2> QED
    BY <1>1, <1>3, <2>1 DEF HistoryOK
<1>8. /\ \A t \in transfers : t.id \in Ids /\ t.id # c.id
      /\ \A x \in conns : x # c => x.id \in Ids /\ x.id # c.id
      /\ \A i \in finished : i \in Ids /\ i # c.id
      /\ c.id < nextId /\ nextId \in Nat
  BY DEF Base, KeysOK, Transfer, Thread, Ids
<1>9. HistoryOK(promise', got', nextId')
  <2>1. \A i \in Ids : i >= nextId => i # c.id
    BY <1>8 DEF Ids
  <2> QED
    BY <1>1, <1>3, <1>6, <1>7, <2>1 DEF HistoryOK
<1>10. ASSUME c.id \notin touched PROVE Under(e, data, promise, got')
  <2>1. Under(c, data, promise, got)
    BY <1>1, <1>3, <1>10 DEF DownloadsOK
  <2>2. Part(Append(got[c.id], unit), data[c.file], c.seek, c.pos + 1)
    BY <1>1, <1>4, <2>1, PartGrows DEF Under
  <2> HIDE DEF unit
  <2> QED
    BY <1>2, <1>6, <2>1, <2>2 DEF Under
<1> HIDE DEF unit
<1>11. ASSUME NEW t \in transfers, ~ t.up, t.id \notin touched PROVE Due(t, dir, data, promise, got')
  <2>1. Due(t, dir, data, promise, got) /\ got'[t.id] = got[t.id]
    BY <1>3, <1>6, <1>8, <1>11 DEF DownloadsOK
  <2> QED
    BY <2>1, OthersKeep
<1>12. ASSUME NEW x \in conns, x # c, ~ x.up, x.id \notin touched
       PROVE  IF x.file = 0 THEN Due(x, dir, data, promise, got') ELSE Under(x, data, promise, got')
  <2>1. /\ IF x.file = 0 THEN Due(x, dir, data, promise, got) ELSE Under(x, data, promise, got)
        /\ got'[x.id] = got[x.id]
    BY <1>3, <1>6, <1>8, <1>12 DEF DownloadsOK
  <2> QED
    BY <2>1, OthersKeep
<1>13. DownloadsOK(transfers', conns', dir', data', promise', got', touched')
  <2>1. conns' = (conns \ {c}) \union {e}
    BY <1>2 DEF Becomes
  <2> QED
    BY <1>1, <1>2, <1>10, <1>11, <1>12, <2>1 DEF DownloadsOK
<1>14. DownloadsAsPromised'
  BY <1>1, <1>3, <1>6, <1>8 DEF DownloadsAsPromised
<1> QED
  BY <1>9, <1>13, <1>14 DEF DownloadInv

\* A download ends with everything it was promised.
LEMMA EndDownloads ==
    ASSUME Base, DownloadInv, NEW c \in conns, EndDownload(c)
    PROVE  DownloadInv'
<1>1. /\ ~ c.up /\ c.file # 0 /\ c.pos >= Len(data[c.file]) /\ conns' = conns \ {c}
      /\ finished' = finished \union {c.id}
      /\ UNCHANGED <<transfers, dir, data, nextId, promise, got, touched>>
  BY DEF EndDownload, Ends, store
<1>2. /\ HistoryOK(promise, got, nextId) /\ DownloadsOK(transfers, conns, dir, data, promise, got, touched)
      /\ DownloadsAsPromised
  BY DEF DownloadInv
<1>3. DownloadsOK(transfers', conns', dir', data', promise', got', touched')
  BY <1>1, <1>2 DEF DownloadsOK
<1>4. ASSUME c.id \notin touched PROVE got[c.id] = promise[c.id]
  <2>1. Under(c, data, promise, got)
    BY <1>1, <1>2, <1>4 DEF DownloadsOK
  <2>2. data[c.file] \in Content /\ c.pos \in Nat /\ c.seek \in Nat
    BY <1>1, ThreadFacts, TransferBounds
  <2>3. c.pos = Len(data[c.file])
    BY <1>1, <2>1, <2>2 DEF Under, Part, Content
  <2> QED
    BY <2>1, <2>2, <2>3, PartsEqual DEF Under
<1>5. DownloadsAsPromised'
  BY <1>1, <1>2, <1>4 DEF DownloadsAsPromised
<1> QED
  BY <1>1, <1>2, <1>3, <1>5 DEF DownloadInv

\* Every step keeps what is known of downloads.
LEMMA DownloadsInductive == ASSUME Base, DownloadInv, Next PROVE DownloadInv'
<1> DEFINE Others == /\ ~ \E n \in Names, seek \in 0..MaxSize : InitDownload(n, seek)
                     /\ ~ \E t \in transfers, http \in BOOLEAN, size \in 0..MaxSize : Take(t, http, size)
                     /\ ~ \E c \in conns : OpenDownload(c) \/ Read(c) \/ EndDownload(c)
<1>1. ASSUME Others PROVE DownloadInv'
  <2>1. /\ Untouched /\ touched \subseteq touched' /\ UNCHANGED <<promise, got, finished>>
        /\ nextId' \in {nextId, nextId + 1}
        /\ \A t \in transfers' : ~ t.up => t \in transfers
        /\ \A c \in conns' : ~ c.up => c \in conns
    BY <1>1, OtherSteps
  <2>2. /\ HistoryOK(promise, got, nextId) /\ DownloadsOK(transfers, conns, dir, data, promise, got, touched)
        /\ DownloadsAsPromised
    BY DEF DownloadInv
  <2>3. DownloadsOK(transfers', conns', dir', data', promise', got', touched')
    BY <2>1, <2>2, DownloadsGoOn
  <2>4. HistoryOK(promise', got', nextId')
    <3>1. nextId \in Nat
      BY DEF Base, KeysOK
    <3> QED
      BY <2>1, <2>2, <3>1 DEF HistoryOK, Ids
  <2>5. DownloadsAsPromised'
    BY <2>1, <2>2 DEF DownloadsAsPromised
  <2> QED
    BY <2>3, <2>4, <2>5 DEF DownloadInv
<1>2. ASSUME ~ Others PROVE DownloadInv'
  BY <1>2, InitDownloadDownloads, TakeDownloads, OpenDownloads, ReadDownloads, EndDownloads
<1> QED
  BY <1>1, <1>2

-----------------------------------------------------------------------------
(* The theorems.                                                           *)

\* The server starts without files, transfers and threads.
LEMMA InitSound == Init => IInv
<1> SUFFICES ASSUME Init PROVE IInv
  OBVIOUS
<1>1. /\ dir = [n \in Names |-> 0] /\ data = <<>> /\ transfers = {} /\ nextId = 1 /\ conns = {}
      /\ flag = [c \in Clients |-> FALSE] /\ told = [i \in Ids |-> "nothing"]
      /\ promise = [i \in Ids |-> <<>>] /\ got = [i \in Ids |-> <<>>]
      /\ finished = {} /\ touched = {} /\ crossed = {} /\ odd = {}
  BY DEF Init
<1>2. <<>> \in Seq(Content) /\ <<>> \in Seq(0..MaxTransfers) /\ Len(<<>>) = 0
  OBVIOUS
<1>3. Base
  BY <1>1, <1>2, TransferBounds DEF Base, FilesOK, KeysOK, OpenOK
<1>4. UploadInv
  BY <1>1, <1>2 DEF UploadInv, WritersOK, Unmixed
<1>5. RestOK
  BY <1>1 DEF RestOK
<1>6. AvatarFlagsTrue
  BY <1>1 DEF AvatarFlagsTrue, Names
<1>7. DownloadInv
  BY <1>1, <1>2 DEF DownloadInv, HistoryOK, DownloadsOK, DownloadsAsPromised
<1> QED
  BY <1>3, <1>4, <1>5, <1>6, <1>7 DEF IInv

\* Every step keeps the invariant.
LEMMA Inductive == IInv /\ [Next]_vars => IInv'
<1> SUFFICES ASSUME IInv, [Next]_vars PROVE IInv'
  OBVIOUS
<1>1. CASE Next
  BY <1>1, BaseInductive, RestInductive, UploadsInductive, AvatarsInductive, DownloadsInductive DEF IInv
<1>2. CASE UNCHANGED vars
  <2>1. UNCHANGED <<dir, data, transfers, nextId, conns, flag, told, promise, got, finished, touched, crossed, odd>>
    BY <1>2 DEF vars, store, hist
  <2> QED
    BY <2>1 DEF IInv, Base, RestOK, UploadInv, DownloadInv, AvatarFlagsTrue, DownloadsAsPromised
<1> QED
  BY <1>1, <1>2

\* The registry, the files and the threads keep their types; no two names stand
\* for one file.
THEOREM TypeCorrect == Spec => []TypeOK
<1>1. ASSUME IInv PROVE TypeOK
  <2>1. /\ FilesOK(dir, data) /\ KeysOK(transfers, conns, nextId, finished) /\ OpenOK(conns, data) /\ RestOK
    BY <1>1 DEF IInv, Base
  <2>2. \A f \in 1..Len(data) : data[f] \in Seq(0..MaxTransfers) /\ Len(data[f]) <= MaxSize
    <3>1. \A f \in 1..Len(data) : data[f] \in Content
      BY <2>1 DEF FilesOK
    <3> QED
      BY <3>1 DEF Content
  <2>3. \A c \in conns : c.file \in 0..Len(data) /\ c.pos \in 0..MaxSize
    BY <1>1, ThreadFacts DEF IInv
  <2>4. transfers \subseteq [id : Ids, up : BOOLEAN, name : Names, seek : 0..MaxSize, size : 0..MaxSize]
    BY <2>1 DEF KeysOK, Transfer
  <2> QED
    BY <2>1, <2>2, <2>3, <2>4 DEF TypeOK, FilesOK, KeysOK, RestOK
<1> QED
  BY <1>1, InitSound, Inductive, PTL DEF Spec

\* Threads write without a lock, names are deleted, moved and reserved meanwhile:
\* a file with a unit of an upload that met no other one holds nothing else.
THEOREM UploadsStayApart == Spec => []UploadsDoNotMix
<1>1. IInv => UploadsDoNotMix
  BY DEF IInv, UploadInv, Unmixed, UploadsDoNotMix
<1> QED
  BY <1>1, InitSound, Inductive, PTL DEF Spec

\* The flag of an avatar, set by the command, agrees with the file that commands
\* and threads make and remove.
THEOREM AvatarFlagsStayTrue == Spec => []AvatarFlagsTrue
<1>1. IInv => AvatarFlagsTrue
  BY DEF IInv
<1> QED
  BY <1>1, InitSound, Inductive, PTL DEF Spec

\* A download whose file nobody touched delivers what was announced when its key
\* was given out.
THEOREM DownloadsKeepPromises == Spec => []DownloadsAsPromised
<1>1. IInv => DownloadsAsPromised
  BY DEF IInv, DownloadInv
<1> QED
  BY <1>1, InitSound, Inductive, PTL DEF Spec

\* An upload over HTTP that is reported complete is whole on disk.
THEOREM CompleteUploadsAreWhole == Spec => CompleteUploadsWhole
<1>1. ASSUME IInv, Next, NEW c \in conns, c.http, c.id \notin crossed,
             told[c.id] # "complete", told'[c.id] = "complete"
      PROVE  data[c.file] = [i \in 1..c.size |-> c.id]
  <2>1. /\ Base /\ told \in [Ids -> {"nothing", "started", "complete", "failed"}]
        /\ WritersOK(conns, data, crossed)
    BY <1>1 DEF IInv, RestOK, UploadInv
  <2>2. c.id \in Ids /\ \A x \in conns : x.id = c.id => x = c
    BY <2>1, ThreadFacts DEF Base, KeysOK
  <2>3. \/ told' = told
        \/ \E x \in transfers : Tell(x, "started")
        \/ \E x \in conns : Tell(x, "failed")
        \/ \E x \in conns : EndUpload(x)
    BY <1>1 DEF Next, InitUpload, InitDownload, Stop, Delete, Rename, Take, TakeInVain, OpenUpload, Write,
                RefusePayload, Lose, OpenDownload, Read, EndDownload, hist
  <2>4. ASSUME NEW x, NEW what, what # "complete" PROVE ~ Tell(x, what)
    BY <1>1, <2>1, <2>2, <2>4 DEF Tell
  <2>5. PICK x \in conns : EndUpload(x)
    BY <1>1, <2>3, <2>4
  <2>6. x = c
    BY <1>1, <2>1, <2>2, <2>5 DEF EndUpload, Tell
  <2>7. c.up /\ c.file # 0 /\ c.pos = c.size
    BY <1>1, <2>5, <2>6 DEF EndUpload
  <2>8. Len(data[c.file]) = c.size /\ \A i \in 1..c.size : data[c.file][i] = c.id
    BY <1>1, <2>1, <2>7 DEF WritersOK
  <2>9. data[c.file] \in Seq(0..MaxTransfers)
    BY <2>1, <2>7, ThreadFacts DEF Content
  <2>10. DOMAIN data[c.file] = 1..c.size /\ data[c.file] = [i \in DOMAIN data[c.file] |-> data[c.file][i]]
    BY <2>8, <2>9
  <2> QED
    BY <2>8, <2>10
<1>2. IInv /\ [Next]_vars =>
        [\A c \in conns :
            c.http /\ c.id \notin crossed /\ told[c.id] # "complete" /\ told'[c.id] = "complete"
            => data[c.file] = [i \in 1..c.size |-> c.id]]_vars
  BY <1>1
<1> QED
  BY <1>2, InitSound, Inductive, PTL DEF Spec, CompleteUploadsWhole
=============================================================================

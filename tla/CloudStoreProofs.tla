-------------------------- MODULE CloudStoreProofs --------------------------
(***************************************************************************)
(* Proofs about CloudStore, for every number of handlers, files and         *)
(* versions.                                                                *)
(*                                                                          *)
(* Types hold whatever happens: requests and hot passes that interleave,    *)
(* writes that fail, kills.  The rest comes in two parts.                   *)
(* One thread at a time on each file, others on other files (a Serial       *)
(* server keeps to that by itself): the invariant Orderly says what holds   *)
(* of a file that no thread works on, and what the thread that works on a   *)
(* file knows of it at each of its steps.                                   *)
(* Requests that overlap, without kills: FilesRight says of each file which *)
(* of three things is going on (an upload has it to itself, the manager     *)
(* packs it, any number of downloads restore or read it) and what is where. *)
(***************************************************************************)
EXTENDS CloudStore, TLAPS

Archives == {Archive(v) : v \in Versions}

PackReads == {"d_pcheck", "d_pread"}
RealReads == {"d_check", "d_read", "h_check", "h_read"}
ReadLabels == PackReads \cup RealReads

\* Where the threads are; a thread at rest works on no file.
Control ==
  /\ pc \in [Threads -> Labels] /\ file \in [Threads -> Files \cup {None}]
  /\ \A h \in Handlers : pc[h] \in UploadLabels \cup DownloadLabels \cup {"idle"}
  /\ pc[Hot] \in PackLabels \cup {"h_list", "h_next"}
  /\ \A t \in Threads : file[t] = None <=> pc[t] \in RestLabels

\* What kind of content is where.
Disk ==
  /\ disk \in [Paths -> Contents]
  /\ \A f \in Files : disk[Real(f)] \in Bodies \cup {Absent}
  /\ \A f \in Files : disk[PackOf(f)] \in {Empty, Absent} \cup Archives

\* Who writes where.
Open ==
  /\ open \in [Threads -> Paths \cup {NoPath}]
  /\ \A h \in Handlers, f \in Files : open[h] # PackOf(f)
  /\ \A f \in Files : open[Hot] # Real(f)

\* What a thread has in memory.
Memory ==
  /\ seen \in [Threads -> {"none", "zero", "some"}]
  /\ body \in [Threads -> Contents]
  /\ \A h \in Handlers : body[h] \in Bodies
  /\ body[Hot] \in {Empty} \cup Archives
  /\ info \in [Threads -> Rows \cup {None}]
  /\ \A h \in Handlers : pc[h] \in DownloadLabels \ {"d_row"} => info[h] \in Rows
  /\ \A h \in Handlers : pc[h] \in UploadLabels => body[h] \in Versions

\* What a thread has open for reading, when it is no longer on the disk.
Reading ==
  /\ kept \in [Threads -> Contents \cup {None}]
  /\ \A t \in Threads : pc[t] \notin ReadLabels => kept[t] = None
  /\ \A t \in Threads : pc[t] \in PackReads => kept[t] \in {None, Absent, Empty} \cup Archives
  /\ \A t \in Threads : pc[t] \in RealReads => kept[t] \in {None, Absent} \cup Bodies

Tables ==
  /\ cold \in [Files -> BOOLEAN]
  /\ row \in [Files -> Rows \cup {None}]
  /\ cond \in [Handlers -> Copies \cup {None}]
  /\ reply \in [Handlers -> Replies \cup {None}]
  /\ todo \subseteq Files
  /\ fresh \subseteq Versions
  /\ announced \in [Files -> Versions \cup {None}]

Typed == Control /\ Disk /\ Open /\ Memory /\ Reading /\ Tables

-----------------------------------------------------------------------------
LEMMA InitTyped == Init => Typed
<1> SUFFICES ASSUME Init PROVE Typed  OBVIOUS
<1> USE NamesAssumption DEF Init, Threads
<1>1. Control
  BY
      DEF Control, Labels, UploadLabels, DownloadLabels, RestoreLabels, PackLabels,
          RestLabels
<1>2. Disk /\ Open  BY DEF Disk, Open, Contents, Paths, Real, PackOf
<1>3. Memory /\ Reading /\ Tables
  BY DEF Memory, Reading, Tables, Contents, Bodies, UploadLabels, DownloadLabels,
         RestoreLabels
<1> QED  BY <1>1, <1>2, <1>3 DEF Typed

-----------------------------------------------------------------------------
(* The operations of FileUtil and DataManager *)

LEMMA PathFacts ==
  /\ \A f \in Files : Real(f) \in Paths /\ PackOf(f) \in Paths
  /\ \A f, g \in Files : /\ Real(f) # PackOf(g)
                         /\ Real(f) = Real(g) => f = g
                         /\ PackOf(f) = PackOf(g) => f = g
  /\ \A p \in Paths : \E f \in Files : p = Real(f) \/ p = PackOf(f)
BY DEF Real, PackOf, Paths

LEMMA OpenDisk ==
  ASSUME Typed, NEW t, NEW p \in Paths, OpenForWriting(t, p)
  PROVE  Disk'
<1>1. CASE disk' = [disk EXCEPT ![p] = Empty]
  <2>1. \A q \in Paths : disk'[q] = disk[q] \/ disk'[q] = Empty
    BY <1>1 DEF Typed, Disk
  <2>2. disk' \in [Paths -> Contents]
    BY <1>1 DEF Typed, Disk, Contents, Bodies
  <2> QED  BY <2>1, <2>2, PathFacts DEF Typed, Disk, Bodies
<1>2. CASE disk' = disk  BY <1>2 DEF Typed, Disk
<1> QED  BY <1>1, <1>2 DEF OpenForWriting

LEMMA WriteDisk ==
  ASSUME Typed, NEW t \in Threads, NEW c \in Contents, Write(t, c),
         t = Hot => c \in {Empty} \cup Archives, t # Hot => c \in Bodies
  PROVE  Disk'
<1>1. CASE disk' = [p \in Paths |-> IF p = open[t] THEN c ELSE disk[p]]
  <2>1. disk' \in [Paths -> Contents]  BY <1>1 DEF Typed, Disk
  <2>2. ASSUME NEW f \in Files PROVE disk'[Real(f)] \in Bodies \cup {Absent}
    BY <1>1, PathFacts DEF Typed, Disk, Open
  <2>3. ASSUME NEW f \in Files PROVE disk'[PackOf(f)] \in {Empty, Absent} \cup Archives
    BY <1>1, PathFacts DEF Typed, Disk, Open, Threads
  <2> QED  BY <2>1, <2>2, <2>3 DEF Disk
<1>2. CASE disk' = disk  BY <1>2 DEF Typed, Disk
<1> QED  BY <1>1, <1>2 DEF Write

LEMMA RemoveDisk ==
  ASSUME Typed, NEW p \in Paths, Remove(p)
  PROVE  Disk'
<1>1. \A q \in Paths : disk'[q] = disk[q] \/ disk'[q] = Absent
  BY DEF Typed, Disk, Remove
<1>2. disk' \in [Paths -> Contents]  BY DEF Typed, Disk, Remove, Contents
<1> QED  BY <1>1, <1>2, PathFacts DEF Typed, Disk

LEMMA OpenOpen ==
  ASSUME Typed, NEW t \in Threads, NEW p \in Paths, OpenForWriting(t, p),
         t = Hot => \A f \in Files : p # Real(f),
         t # Hot => \A f \in Files : p # PackOf(f)
  PROVE  Open'
<1>1. CASE open' = [open EXCEPT ![t] = p]
  <2>1. open' \in [Threads -> Paths \cup {NoPath}]  BY <1>1 DEF Typed, Open
  <2>2. \A h \in Handlers, f \in Files : open'[h] # PackOf(f)
    BY <1>1, NamesAssumption DEF Typed, Open, Threads
  <2>3. \A f \in Files : open'[Hot] # Real(f)
    BY <1>1 DEF Typed, Open, Threads
  <2> QED  BY <2>1, <2>2, <2>3 DEF Open
<1>2. CASE open' = open  BY <1>2 DEF Typed, Open
<1> QED  BY <1>1, <1>2 DEF OpenForWriting

LEMMA ClosedOpen ==
  ASSUME Typed, open' \in [Threads -> Paths \cup {NoPath}],
         \A t \in Threads : open'[t] \in {open[t], NoPath}
  PROVE  Open'
<1>1. \A h \in Handlers, f \in Files : open'[h] # PackOf(f)
  BY NamesAssumption, PathFacts DEF Typed, Open, Threads
<1>2. \A f \in Files : open'[Hot] # Real(f)
  BY NamesAssumption, PathFacts DEF Typed, Open, Threads
<1> QED  BY <1>1, <1>2 DEF Open

LEMMA UpdataRow ==
  ASSUME Typed, NEW f \in Files, NEW b \in BOOLEAN, Updata(f, b)
  PROVE  /\ row' \in [Files -> Rows \cup {None}]
         /\ \A g \in Files \ {f} : row'[g] = row[g]
         /\ row[f] = None <=> row'[f] = None
         /\ row[f] # None => row'[f].pack_flag = b /\ row'[f].etag = row[f].etag
<1> USE NamesAssumption DEF Typed, Tables, Updata
<1>1. CASE row[f] = None  BY <1>1
<1>2. CASE row[f] # None
  <2>1. row[f] \in Rows  BY <1>2
  <2>2. /\ [row[f] EXCEPT !.pack_flag = b] \in Rows
        /\ [row[f] EXCEPT !.pack_flag = b].pack_flag = b
        /\ [row[f] EXCEPT !.pack_flag = b].etag = row[f].etag
    BY <2>1 DEF Rows
  <2>3. row' = [row EXCEPT ![f] = [row[f] EXCEPT !.pack_flag = b]]  BY <1>2
  <2> QED  BY <1>2, <2>2, <2>3
<1> QED  BY <1>1, <1>2

LEMMA ForgetMemory ==
  ASSUME Typed, NEW t \in Threads, NEW l \in RestLabels,
         Forget(t), pc' = [pc EXCEPT ![t] = l]
  PROVE  Memory'
<1> USE DEF Typed, Memory, Control, Forget
<1>1. /\ seen' \in [Threads -> {"none", "zero", "some"}] /\ body' \in [Threads -> Contents]
      /\ info' \in [Threads -> Rows \cup {None}]
  BY DEF Contents, Bodies
<1>2. \A h \in Handlers : body'[h] \in Bodies  BY DEF Bodies, Threads
<1>3. body'[Hot] \in {Empty} \cup Archives  BY DEF Threads
<1>4. ASSUME NEW h \in Handlers, pc'[h] \in DownloadLabels \ {"d_row"}
      PROVE  info'[h] \in Rows
  <2>1. l \notin DownloadLabels  BY DEF RestLabels, DownloadLabels, RestoreLabels
  <2>2. h # t /\ h \in Threads  BY <1>4, <2>1 DEF Threads
  <2>3. pc'[h] = pc[h] /\ info'[h] = info[h]  BY <2>2
  <2> QED  BY <1>4, <2>3
<1>5. ASSUME NEW h \in Handlers, pc'[h] \in UploadLabels
      PROVE  body'[h] \in Versions
  <2>1. h # t /\ h \in Threads  BY <1>5 DEF Threads, RestLabels, UploadLabels
  <2> QED  BY <1>5, <2>1
<1> QED  BY <1>1, <1>2, <1>3, <1>4, <1>5

\* A thread that reads nothing, or goes on with what it has open.
LEMMA ReadingKept ==
  ASSUME Typed, NEW t \in Threads, NEW l, pc' = [pc EXCEPT ![t] = l], UNCHANGED kept,
         \/ pc[t] \notin ReadLabels
         \/ pc[t] \in PackReads /\ l \in PackReads
         \/ pc[t] \in RealReads /\ l \in RealReads
  PROVE  Reading'
BY DEF Typed, Control, Reading, ReadLabels, PackReads, RealReads

LEMMA ReadingEnds ==
  ASSUME Typed, NEW t \in Threads, NEW l, pc' = [pc EXCEPT ![t] = l],
         kept' = [kept EXCEPT ![t] = None]
  PROVE  Reading'
BY DEF Typed, Control, Reading

\* Who reads a file that is removed keeps what it or its writer had.
LEMMA ReadingRemoved ==
  ASSUME Typed, NEW t \in Threads, NEW f \in Files, NEW p \in {Real(f), PackOf(f)},
         NEW l, Remove(p), pc' = [pc EXCEPT ![t] = l],
         pc[t] \notin ReadLabels, l \notin ReadLabels
  PROVE  Reading'
<1> DEFINE writers == {u \in Threads : open[u] = p}
           readers == {u \in Threads : Reads(u, p) /\ kept[u] = None}
<1>1. PICK held \in [readers -> {disk[p]} \cup {body[u] : u \in writers}] :
        kept' = [u \in Threads |-> IF u \in readers THEN held[u] ELSE kept[u]]
  BY DEF Remove
<1>2. \A u \in Threads : pc'[u] = IF u = t THEN l ELSE pc[u]  BY DEF Typed, Control
<1>3. ASSUME NEW u \in Threads, u \in readers
      PROVE  \/ pc[u] \in PackReads /\ held[u] \in {Absent, Empty} \cup Archives
             \/ pc[u] \in RealReads /\ held[u] \in {Absent} \cup Bodies
  <2>1. held[u] = disk[p] \/ \E w \in Threads : open[w] = p /\ held[u] = body[w]
    BY <1>3
  <2>2. CASE p = PackOf(f)
    <3>1. pc[u] \in PackReads
      BY <1>3, <2>2 DEF Reads, PackReads, Real, PackOf
    <3>2. ASSUME NEW w \in Threads, open[w] = p PROVE body[w] \in {Empty} \cup Archives
      <4>1. w = Hot  BY <2>2, <3>2 DEF Typed, Open, Threads
      <4> QED  BY <4>1 DEF Typed, Memory
    <3> QED  BY <2>1, <2>2, <3>1, <3>2 DEF Typed, Disk
  <2>3. CASE p = Real(f)
    <3>1. pc[u] \in RealReads
      BY <1>3, <2>3 DEF Reads, RealReads, Real, PackOf
    <3>2. ASSUME NEW w \in Threads, open[w] = p PROVE body[w] \in Bodies
      <4>1. w \in Handlers  BY <2>3, <3>2 DEF Typed, Open, Threads
      <4> QED  BY <4>1 DEF Typed, Memory
    <3> QED  BY <2>1, <2>3, <3>1, <3>2 DEF Typed, Disk
  <2> QED  BY <2>2, <2>3
<1>4. \A u \in Threads : kept'[u] = IF u \in readers THEN held[u] ELSE kept[u]  BY <1>1
<1>5. t \notin readers
  BY DEF Reads, ReadLabels, PackReads, RealReads
<1> HIDE DEF writers, readers
<1>6. ASSUME NEW u \in Threads
      PROVE  /\ pc'[u] \notin ReadLabels => kept'[u] = None
             /\ pc'[u] \in PackReads => kept'[u] \in {None, Absent, Empty} \cup Archives
             /\ pc'[u] \in RealReads => kept'[u] \in {None, Absent} \cup Bodies
             /\ kept'[u] \in Contents \cup {None}
  <2>1. CASE u \in readers
    <3>1. pc'[u] = pc[u] /\ kept'[u] = held[u]  BY <1>2, <1>4, <1>5, <2>1
    <3> QED  BY <1>3, <2>1, <3>1
        DEF ReadLabels, PackReads, RealReads, Contents, Bodies, Archives
  <2>2. CASE u \notin readers
    <3>1. kept'[u] = kept[u]  BY <1>4, <2>2
    <3>2. CASE u = t
      BY <1>2, <3>1, <3>2 DEF Typed, Reading, ReadLabels
    <3>3. CASE u # t
      BY <1>2, <3>1, <3>3 DEF Typed, Reading
    <3> QED  BY <3>2, <3>3
  <2> QED  BY <2>1, <2>2
<1>7. kept' \in [Threads -> Contents \cup {None}]  BY <1>1, <1>6
<1> QED  BY <1>6, <1>7 DEF Reading

LEMMA AnswerTables ==
  ASSUME Typed, NEW h \in Handlers, file[h] \in Files,
         NEW b \in Bodies \cup {Zeros}, NEW e \in Stamps \cup {None},
         NEW s \in {200, 206, 500}, Answer(h, b, e, s),
         UNCHANGED <<row, todo, fresh, announced>>, cold' \in [Files -> BOOLEAN]
  PROVE  Tables' /\ Forget(h)
<1> DEFINE a == [file |-> file[h], body |-> b, etag |-> e, status |-> s, cond |-> cond[h]]
<1>1. a \in Replies  BY DEF Typed, Tables, Replies
<1>2. /\ reply' = [reply EXCEPT ![h] = a] /\ cond' = [cond EXCEPT ![h] = None]
      /\ Forget(h)
  BY DEF Answer
<1> HIDE DEF a
<1>3. reply' \in [Handlers -> Replies \cup {None}]  BY <1>1, <1>2 DEF Typed, Tables
<1> QED  BY <1>2, <1>3 DEF Typed, Tables

\* An answer ends the request.
LEMMA EndTyped ==
  ASSUME Typed, NEW h \in Handlers, Forget(h), pc' = [pc EXCEPT ![h] = "idle"],
         UNCHANGED <<disk, open>>, Tables'
  PROVE  Typed'
<1> h \in Threads  BY DEF Threads
<1>1. Control'
  BY NamesAssumption DEF Typed, Control, Forget, Threads, Labels, RestLabels, PackLabels
<1>2. Disk' /\ Open'  BY DEF Typed, Disk, Open
<1>3. Memory'  BY ForgetMemory DEF RestLabels
<1>4. Reading'  BY ReadingEnds DEF Forget
<1> QED  BY <1>1, <1>2, <1>3, <1>4 DEF Typed

-----------------------------------------------------------------------------
LEMMA UploadTyped == ASSUME Typed, NEW h \in Handlers, Upload(h) PROVE Typed'
<1> USE NamesAssumption DEF Typed, Goto, Threads
<1>1. ASSUME NEW f \in Files, NEW v \in Versions, StartUpload(h, f, v) PROVE Typed'
  <2> USE <1>1 DEF StartUpload
  <2>1. Control'  BY DEF Control, Labels, UploadLabels, DownloadLabels,
    RestoreLabels, PackLabels, RestLabels
  <2>2. Disk'  BY DEF Disk
  <2>3. Open'  BY DEF Open
  <2>4. Memory'  BY
      DEF Memory, Control, UploadLabels, DownloadLabels, RestoreLabels, Contents, Bodies
  <2>5. Tables'  BY DEF Tables
  <2>6. Reading'  BY ReadingKept DEF ReadLabels, PackReads, RealReads
  <2> QED  BY <2>1, <2>2, <2>3, <2>4, <2>5, <2>6
<1>2. ASSUME UploadOpen(h) PROVE Typed'
  <2> USE <1>2 DEF UploadOpen
  <2>1. Control'  BY DEF Control, Labels, UploadLabels, DownloadLabels,
    RestoreLabels, PackLabels, RestLabels
  <2>2. Disk'
    <3>1. file[h] \in Files  BY NamesAssumption DEF Control, RestLabels
    <3> QED  BY <3>1, PathFacts, OpenDisk
  <2>3. Open'
    <3>1. file[h] \in Files  BY NamesAssumption DEF Control, RestLabels
    <3> QED  BY <3>1, NamesAssumption, PathFacts, OpenOpen
  <2>4. Memory'  BY DEF Memory, Control, UploadLabels, DownloadLabels, RestoreLabels
  <2>5. Tables'  BY DEF Tables, OpenForWriting
  <2>6. Reading'  BY ReadingKept DEF ReadLabels, PackReads, RealReads
  <2> QED  BY <2>1, <2>2, <2>3, <2>4, <2>5, <2>6
<1>3. ASSUME UploadWrite(h) PROVE Typed'
  <2> USE <1>3 DEF UploadWrite
  <2>1. Control'  BY DEF Control, Labels, UploadLabels, DownloadLabels,
    RestoreLabels, PackLabels, RestLabels
  <2>2. Disk'  BY WriteDisk DEF Memory
  <2>3. Open'  BY ClosedOpen DEF Open, Write
  <2>4. Memory'  BY DEF Memory, Control, UploadLabels, DownloadLabels, RestoreLabels
  <2>5. Tables'  BY DEF Tables
  <2>6. Reading'  BY ReadingKept DEF ReadLabels, PackReads, RealReads
  <2> QED  BY <2>1, <2>2, <2>3, <2>4, <2>5, <2>6
<1>4. ASSUME UploadStat(h) PROVE Typed'
  <2> USE <1>4 DEF UploadStat
  <2>1. Control'  BY DEF Control, Labels, UploadLabels, DownloadLabels,
    RestoreLabels, PackLabels, RestLabels
  <2>2. Disk'  BY DEF Disk
  <2>3. Open'  BY DEF Open
  <2>4. Memory'
    <3>1. file[h] \in Files  BY DEF Control, UploadLabels, RestLabels
    <3>2. disk[Real(file[h])] # Absent => disk[Real(file[h])] \in Bodies  BY <3>1 DEF Disk
    <3>3. info' \in [Threads -> Rows \cup {None}]
      <4>1. CASE disk[Real(file[h])] = Absent  BY <4>1 DEF Memory
      <4>2. CASE disk[Real(file[h])] # Absent
        <5>1. PICK s \in ETags[disk[Real(file[h])]] :
                info' = [info EXCEPT ![h] = [pack_flag |-> FALSE, etag |-> s]]
          BY <4>2
        <5>2. s \in Stamps  BY <3>2, <4>2, ETagsAssumption
        <5> QED  BY <5>1, <5>2 DEF Memory, Rows
      <4> QED  BY <4>1, <4>2
    <3> QED  BY <3>3 DEF Memory, Control, UploadLabels, DownloadLabels, RestoreLabels
  <2>5. Tables'  BY DEF Tables
  <2>6. Reading'  BY ReadingKept DEF ReadLabels, PackReads, RealReads
  <2> QED  BY <2>1, <2>2, <2>3, <2>4, <2>5, <2>6
<1>5. ASSUME UploadInsert(h) PROVE Typed'
  <2> USE <1>5 DEF UploadInsert
  <2>1. Control'  BY DEF Control, Forget, Labels, UploadLabels, DownloadLabels,
    RestoreLabels, PackLabels, RestLabels
  <2>2. Disk'  BY DEF Disk
  <2>3. Open'  BY DEF Open
  <2>4. Memory'  BY ForgetMemory DEF RestLabels
  <2>5. Tables'
    <3>1. body[h] \in Versions  BY DEF Memory, UploadLabels
    <3>2. announced' \in [Files -> Versions \cup {None}]  BY <3>1 DEF Tables
    <3>3. row' \in [Files -> Rows \cup {None}]  BY DEF Tables, Memory
    <3> QED  BY <3>2, <3>3 DEF Tables
  <2>6. Reading'  BY ReadingEnds DEF Forget
  <2> QED  BY <2>1, <2>2, <2>3, <2>4, <2>5, <2>6
<1> QED  BY <1>1, <1>2, <1>3, <1>4, <1>5 DEF Upload

LEMMA DownloadTyped == ASSUME Typed, NEW h \in Handlers, Download(h) PROVE Typed'
<1> USE NamesAssumption DEF Typed, Goto, Threads
<1>1. ASSUME DownloadRow(h) PROVE Typed'
  <2> USE <1>1 DEF DownloadRow
  <2>0. file[h] \in Files  BY DEF Control, RestLabels
  <2>1. CASE row[file[h]] = None
    BY <2>0, <2>1, AnswerTables, EndTyped DEF Bodies, Tables
  <2>2. CASE row[file[h]] # None
    <3>1. Control'  BY <2>2 DEF Control, Labels, UploadLabels, DownloadLabels,
      RestoreLabels, PackLabels, RestLabels
    <3>2. row[file[h]] \in Rows  BY <2>0, <2>2 DEF Tables
    <3>3. info' \in [Threads -> Rows \cup {None}]  BY <2>2, <3>2 DEF Memory
    <3>4. \A k \in Handlers : pc'[k] \in DownloadLabels \ {"d_row"} => info'[k] \in Rows
      BY <2>2, <3>2 DEF Memory, Control
    <3>5. Memory'  BY <2>2, <3>3, <3>4 DEF Memory, Control, UploadLabels
    <3>6. Reading'  BY <2>2, ReadingKept DEF ReadLabels, PackReads, RealReads
    <3>7. Disk' /\ Open' /\ Tables'  BY <2>2 DEF Disk, Open, Tables
    <3> QED  BY <3>1, <3>5, <3>6, <3>7
  <2> QED  BY <2>1, <2>2
<1>2. ASSUME UnpackSize(h) PROVE Typed'
  <2> USE <1>2 DEF UnpackSize
  <2>1. Control'  BY DEF Control, Labels, UploadLabels, DownloadLabels,
    RestoreLabels, PackLabels, RestLabels
  <2>2. Disk'  BY DEF Disk
  <2>3. Open'  BY DEF Open
  <2>4. Memory'  BY
      DEF Memory, Control, UploadLabels, DownloadLabels, RestoreLabels, GetSize, Size
  <2>5. Tables'  BY DEF Tables
  <2>6. Reading'  BY ReadingKept DEF ReadLabels, PackReads, RealReads
  <2> QED  BY <2>1, <2>2, <2>3, <2>4, <2>5, <2>6
<1>3. ASSUME UnpackRead(h) PROVE Typed'
  <2> USE <1>3 DEF UnpackRead
  <2>1. Control'  BY DEF Control, Labels, UploadLabels, DownloadLabels,
    RestoreLabels, PackLabels, RestLabels
  <2>2. Disk'  BY DEF Disk
  <2>3. Open'  BY DEF Open
  <2>4. Memory'
    <3>1. file[h] \in Files  BY DEF Control, RestLabels
    <3>2. ASSUME Good(h, PackOf(file[h]))
          PROVE  Unpack(Read(h, PackOf(file[h]))) \in Bodies
      <4>1. Source(h, PackOf(file[h])) \in {Absent, Empty} \cup Archives
        BY <3>1 DEF Source, Disk, Reading, PackReads
      <4>2. Read(h, PackOf(file[h])) \in {Empty} \cup Archives
        BY <3>2, <4>1 DEF Read, Good, Size
      <4> QED  BY <4>2 DEF Unpack, Archives, Bodies
    <3>3. body' = [body EXCEPT ![h] = body'[h]] /\ body'[h] \in Bodies
      BY <3>2 DEF Memory, Bodies
    <3>4. /\ body' \in [Threads -> Contents] /\ body'[Hot] \in {Empty} \cup Archives
          /\ \A k \in Handlers : body'[k] \in Bodies
      BY <3>3 DEF Memory, Contents
    <3> QED  BY <3>3, <3>4
        DEF Memory, Control, UploadLabels, DownloadLabels, RestoreLabels, Returned
  <2>5. Tables'  BY DEF Tables
  <2>6. Reading'  BY ReadingEnds DEF Returned
  <2> QED  BY <2>1, <2>2, <2>3, <2>4, <2>5, <2>6
<1>4. ASSUME UnpackOpen(h) PROVE Typed'
  <2> USE <1>4 DEF UnpackOpen
  <2>1. Control'  BY DEF Control, Labels, UploadLabels, DownloadLabels,
    RestoreLabels, PackLabels, RestLabels
  <2>2. Disk'
    <3>1. file[h] \in Files  BY NamesAssumption DEF Control, RestLabels
    <3> QED  BY <3>1, PathFacts, OpenDisk
  <2>3. Open'
    <3>1. file[h] \in Files  BY NamesAssumption DEF Control, RestLabels
    <3> QED  BY <3>1, NamesAssumption, PathFacts, OpenOpen
  <2>4. Memory'  BY DEF Memory, Control, UploadLabels, DownloadLabels, RestoreLabels
  <2>5. Tables'  BY DEF Tables, OpenForWriting
  <2>6. Reading'  BY ReadingKept DEF ReadLabels, PackReads, RealReads
  <2> QED  BY <2>1, <2>2, <2>3, <2>4, <2>5, <2>6
<1>5. ASSUME UnpackWrite(h) PROVE Typed'
  <2> USE <1>5 DEF UnpackWrite
  <2>1. Control'  BY DEF Control, Labels, UploadLabels, DownloadLabels,
    RestoreLabels, PackLabels, RestLabels
  <2>2. Disk'  BY WriteDisk DEF Memory
  <2>3. Open'  BY ClosedOpen DEF Open, Write
  <2>4. Memory'  BY DEF Memory, Control, UploadLabels, DownloadLabels, RestoreLabels
  <2>5. Tables'  BY DEF Tables
  <2>6. Reading'  BY ReadingKept DEF ReadLabels, PackReads, RealReads
  <2> QED  BY <2>1, <2>2, <2>3, <2>4, <2>5, <2>6
<1>6. ASSUME UnpackRemove(h) PROVE Typed'
  <2> USE <1>6 DEF UnpackRemove
  <2>1. Control'  BY DEF Control, Labels, UploadLabels, DownloadLabels,
    RestoreLabels, PackLabels, RestLabels
  <2>2. Disk'
    <3>1. file[h] \in Files  BY NamesAssumption DEF Control, RestLabels
    <3> QED  BY <3>1, PathFacts, RemoveDisk
  <2>3. Open'  BY ClosedOpen DEF Open, Remove
  <2>4. Memory'  BY DEF Memory, Control, UploadLabels, DownloadLabels, RestoreLabels
  <2>5. Tables'  BY DEF Tables
  <2>6. Reading'
    <3>1. file[h] \in Files  BY NamesAssumption DEF Control, RestLabels
    <3> QED  BY <3>1, ReadingRemoved DEF ReadLabels, PackReads, RealReads
  <2> QED  BY <2>1, <2>2, <2>3, <2>4, <2>5, <2>6
<1>7. ASSUME UnpackUpdate(h) PROVE Typed'
  <2> USE <1>7 DEF UnpackUpdate
  <2>1. Control'  BY DEF Control, Labels, UploadLabels, DownloadLabels,
    RestoreLabels, PackLabels, RestLabels
  <2>2. Disk'  BY DEF Disk
  <2>3. Open'  BY DEF Open
  <2>4. Memory'  BY DEF Memory, Control, UploadLabels, DownloadLabels, RestoreLabels
  <2>5. Tables'
    <3>1. file[h] \in Files  BY NamesAssumption DEF Control, RestLabels
    <3> QED  BY <3>1, UpdataRow DEF Tables
  <2>6. Reading'  BY ReadingKept DEF ReadLabels, PackReads, RealReads
  <2> QED  BY <2>1, <2>2, <2>3, <2>4, <2>5, <2>6
<1>8. ASSUME ServeSize(h) PROVE Typed'
  <2> USE <1>8 DEF ServeSize
  <2>1. Control'  BY DEF Control, Labels, UploadLabels, DownloadLabels,
    RestoreLabels, PackLabels, RestLabels
  <2>2. Disk'  BY DEF Disk
  <2>3. Open'  BY DEF Open
  <2>4. Memory'  BY
      DEF Memory, Control, UploadLabels, DownloadLabels, RestoreLabels, GetSize, Size
  <2>5. Tables'  BY DEF Tables
  <2>6. Reading'  BY ReadingKept DEF ReadLabels, PackReads, RealReads
  <2> QED  BY <2>1, <2>2, <2>3, <2>4, <2>5, <2>6
<1>9. ASSUME ServeRead(h) PROVE Typed'
  <2> USE <1>9 DEF ServeRead
  <2>1. file[h] \in Files /\ info[h].etag \in Stamps
    BY DEF Control, RestLabels, Memory, DownloadLabels, Rows
  <2> DEFINE p == Real(file[h])
             b == IF Good(h, p) THEN Read(h, p) ELSE Zeros
  <2>2. Source(h, p) \in {Absent} \cup Bodies
    BY <2>1 DEF Source, Disk, Reading, RealReads
  <2>3. b \in Bodies \cup {Zeros}  BY <2>2 DEF Good, Read, Size, Bodies
  <2>4. cold' \in [Files -> BOOLEAN]  BY <2>1 DEF Tables, Touch
  <2>5. Answer(h, b, info[h].etag, Status(h, info[h].etag))  BY DEF Serve
  <2>6. Status(h, info[h].etag) \in {200, 206, 500}  BY DEF Status
  <2>7. /\ pc' = [pc EXCEPT ![h] = "idle"]
        /\ UNCHANGED <<disk, row, open, todo, fresh, announced>>
    OBVIOUS
  <2>8. PICK c \in Bodies \cup {Zeros}, e \in Stamps \cup {None}, s \in {200, 206, 500} :
          Answer(h, c, e, s)
    BY <2>1, <2>3, <2>5, <2>6
  <2> HIDE <1>9 DEF Typed, ServeRead, Goto, Threads
  <2>9. Tables' /\ Forget(h)  BY <2>1, <2>4, <2>7, <2>8, AnswerTables
  <2> QED  BY <2>7, <2>9, EndTyped
<1>10. ASSUME UnpackBegin(h) PROVE Typed'
  <2> USE <1>10 DEF UnpackBegin
  <2>1. Control'  BY DEF Control, Labels, UploadLabels, DownloadLabels,
    RestoreLabels, PackLabels, RestLabels
  <2>2. Disk'  BY DEF Disk
  <2>3. Open'  BY DEF Open
  <2>4. Memory'  BY DEF Memory, Control, UploadLabels, DownloadLabels, RestoreLabels,
    Returned
  <2>5. Tables'  BY DEF Tables
  <2>6. Reading'
    BY ReadingKept, ReadingEnds DEF Returned, ReadLabels, PackReads, RealReads
  <2> QED  BY <2>1, <2>2, <2>3, <2>4, <2>5, <2>6
<1>11. ASSUME UnpackCheck(h) PROVE Typed'
  <2> USE <1>11 DEF UnpackCheck
  <2>0. file[h] \in Files  BY DEF Control, RestLabels
  <2>1. CASE Fits(h, PackOf(file[h]))
    <3>0. /\ Goto(h, "d_pcheck", "d_pread")
          /\ UNCHANGED <<file, seen, kept, body, info, cond, reply>>
      BY <2>1 DEF Fits, Throws
    <3>1. Control'  BY <3>0 DEF Control, Labels, UploadLabels, DownloadLabels,
      RestoreLabels, PackLabels, RestLabels
    <3>2. Memory'  BY <3>0 DEF Memory, Control, UploadLabels, DownloadLabels, RestoreLabels
    <3>3. Reading'  BY <3>0, ReadingKept DEF PackReads
    <3>4. Disk' /\ Open' /\ Tables'  BY <3>0 DEF Disk, Open, Tables
    <3> QED  BY <3>1, <3>2, <3>3, <3>4
  <2>2. CASE ~Fits(h, PackOf(file[h])) /\ Throws(h, PackOf(file[h]))
    BY <2>0, <2>2, AnswerTables, EndTyped DEF Fail, Bodies, Tables
  <2>3. CASE ~Fits(h, PackOf(file[h])) /\ ~Throws(h, PackOf(file[h]))
    <3>1. Control'  BY <2>3 DEF Control, Labels, UploadLabels, DownloadLabels,
      RestoreLabels, PackLabels, RestLabels
    <3>2. Memory'
      BY <2>3 DEF Memory, Control, UploadLabels, DownloadLabels, RestoreLabels, Returned
    <3>3. Reading'  BY <2>3, ReadingEnds DEF Returned
    <3>4. Disk' /\ Open' /\ Tables'  BY <2>3 DEF Disk, Open, Tables
    <3> QED  BY <3>1, <3>2, <3>3, <3>4
  <2> QED  BY <2>1, <2>2, <2>3
<1>12. ASSUME ServeBegin(h) \/ ServeCheck(h), ~(pc'[h] = "d_check" \/ pc'[h] = "d_read")
       PROVE  Typed'
  <2> USE <1>12 DEF ServeBegin, ServeCheck
  <2>1. file[h] \in Files /\ info[h].etag \in Stamps
    BY DEF Control, RestLabels, Memory, DownloadLabels, Rows
  <2>2. Serve(h, Empty) \/ Fail(h)  BY DEF Control
  <2>3. /\ pc' = [pc EXCEPT ![h] = "idle"]
        /\ UNCHANGED <<disk, row, open, todo, fresh, announced, cold>>
    BY DEF Control
  <2>4. PICK c \in Bodies \cup {Zeros}, e \in Stamps \cup {None}, s \in {200, 206, 500} :
          Answer(h, c, e, s)
    BY <2>1, <2>2 DEF Serve, Fail, Status, Bodies
  <2>5. cold' \in [Files -> BOOLEAN]  BY <2>3 DEF Tables
  <2> HIDE <1>12 DEF Typed, ServeBegin, ServeCheck, Goto, Threads
  <2>6. Tables' /\ Forget(h)  BY <2>1, <2>3, <2>4, <2>5, AnswerTables
  <2> QED  BY <2>3, <2>6, EndTyped
<1>13. ASSUME ServeBegin(h) \/ ServeCheck(h), pc'[h] = "d_check" \/ pc'[h] = "d_read"
       PROVE  Typed'
  <2> USE <1>13 DEF ServeBegin, ServeCheck
  <2>1. /\ pc[h] \in {"d_begin", "d_check"} /\ pc' = [pc EXCEPT ![h] = pc'[h]]
        /\ pc'[h] = IF pc[h] = "d_begin" THEN "d_check" ELSE "d_read"
        /\ UNCHANGED <<disk, cold, row, file, open, seen, kept, body, info, cond, reply, todo,
                       fresh, announced>>
    BY DEF Control
  <2>2. Control'  BY <2>1 DEF Control, Labels, UploadLabels, DownloadLabels,
    RestoreLabels, PackLabels, RestLabels
  <2>3. Memory'  BY <2>1 DEF Memory, Control, UploadLabels, DownloadLabels, RestoreLabels
  <2>4. Reading'  BY <2>1, ReadingKept DEF ReadLabels, PackReads, RealReads
  <2>5. Disk' /\ Open' /\ Tables'  BY <2>1 DEF Disk, Open, Tables
  <2> QED  BY <2>2, <2>3, <2>4, <2>5
<1> QED  BY <1>1, <1>2, <1>3, <1>4, <1>5, <1>6, <1>7, <1>8, <1>9, <1>10, <1>11, <1>12, <1>13
    DEF Download

LEMMA HotTyped == ASSUME Typed, RunModule PROVE Typed'
<1> USE NamesAssumption DEF Typed, Goto, Threads
<1>1. ASSUME HotList PROVE Typed'
  <2> USE <1>1 DEF HotList
  <2>1. Control'  BY DEF Control, Labels, UploadLabels, DownloadLabels,
    RestoreLabels, PackLabels, RestLabels
  <2>2. Disk'  BY DEF Disk
  <2>3. Open'  BY DEF Open
  <2>4. Memory'  BY DEF Memory, Control, UploadLabels, DownloadLabels, RestoreLabels
  <2>5. Tables'  BY DEF Tables
  <2>6. Reading'  BY ReadingKept DEF ReadLabels, PackReads, RealReads
  <2> QED  BY <2>1, <2>2, <2>3, <2>4, <2>5, <2>6
<1>2. ASSUME HotDone PROVE Typed'
  <2> USE <1>2 DEF HotDone
  <2>1. Control'  BY DEF Control, Labels, UploadLabels, DownloadLabels,
    RestoreLabels, PackLabels, RestLabels
  <2>2. Disk'  BY DEF Disk
  <2>3. Open'  BY DEF Open
  <2>4. Memory'  BY DEF Memory, Control, UploadLabels, DownloadLabels, RestoreLabels
  <2>5. Tables'  BY DEF Tables
  <2>6. Reading'  BY ReadingKept DEF ReadLabels, PackReads, RealReads
  <2> QED  BY <2>1, <2>2, <2>3, <2>4, <2>5, <2>6
<1>3. ASSUME NEW f \in Files, HotSkip(f) PROVE Typed'
  <2> USE <1>3 DEF HotSkip
  <2>1. Control'  BY DEF Control, Labels, UploadLabels, DownloadLabels,
    RestoreLabels, PackLabels, RestLabels
  <2>2. Disk'  BY DEF Disk
  <2>3. Open'  BY DEF Open
  <2>4. Memory'  BY DEF Memory, Control, UploadLabels, DownloadLabels, RestoreLabels
  <2>5. Tables'  BY DEF Tables
  <2>6. Reading'  BY ReadingKept DEF ReadLabels, PackReads, RealReads
  <2> QED  BY <2>1, <2>2, <2>3, <2>4, <2>5, <2>6
<1>4. ASSUME NEW f \in Files, HotPick(f) PROVE Typed'
  <2> USE <1>4 DEF HotPick
  <2>1. Control'  BY DEF Control, Labels, UploadLabels, DownloadLabels,
    RestoreLabels, PackLabels, RestLabels
  <2>2. Disk'  BY DEF Disk
  <2>3. Open'  BY DEF Open
  <2>4. Memory'  BY DEF Memory, Control, UploadLabels, DownloadLabels, RestoreLabels
  <2>5. Tables'  BY DEF Tables
  <2>6. Reading'  BY ReadingKept DEF ReadLabels, PackReads, RealReads
  <2> QED  BY <2>1, <2>2, <2>3, <2>4, <2>5, <2>6
<1>5. ASSUME HotRow PROVE Typed'
  <2> USE <1>5 DEF HotRow
  <2>1. Control'  BY DEF Control, Labels, UploadLabels, DownloadLabels,
    RestoreLabels, PackLabels, RestLabels
  <2>2. Disk'  BY DEF Disk
  <2>3. Open'  BY DEF Open
  <2>4. Memory'  BY
      DEF Memory, Control, UploadLabels, DownloadLabels, RestoreLabels, Tables,
          RestLabels
  <2>5. Tables'  BY DEF Tables
  <2>6. Reading'  BY ReadingKept DEF ReadLabels, PackReads, RealReads
  <2> QED  BY <2>1, <2>2, <2>3, <2>4, <2>5, <2>6
<1>6. ASSUME HotSize PROVE Typed'
  <2> USE <1>6 DEF HotSize
  <2>1. Control'  BY DEF Control, Labels, UploadLabels, DownloadLabels,
    RestoreLabels, PackLabels, RestLabels
  <2>2. Disk'  BY DEF Disk
  <2>3. Open'  BY DEF Open
  <2>4. Memory'  BY
      DEF Memory, Control, UploadLabels, DownloadLabels, RestoreLabels, GetSize, Size
  <2>5. Tables'  BY DEF Tables
  <2>6. Reading'  BY ReadingKept DEF ReadLabels, PackReads, RealReads
  <2> QED  BY <2>1, <2>2, <2>3, <2>4, <2>5, <2>6
<1>7. ASSUME HotRead PROVE Typed'
  <2> USE <1>7 DEF HotRead
  <2>1. Control'  BY DEF Control, Labels, UploadLabels, DownloadLabels,
    RestoreLabels, PackLabels, RestLabels
  <2>2. Disk'  BY DEF Disk
  <2>3. Open'  BY DEF Open
  <2>4. Memory'
    <3>1. file[Hot] \in Files  BY DEF Control, RestLabels
    <3>2. ASSUME Good(Hot, Real(file[Hot]))
          PROVE  Pack(Read(Hot, Real(file[Hot]))) \in {Empty} \cup Archives
      <4>1. Source(Hot, Real(file[Hot])) \in {Absent} \cup Bodies
        BY <3>1 DEF Source, Disk, Reading, RealReads
      <4>2. Read(Hot, Real(file[Hot])) \in Bodies
        BY <3>2, <4>1 DEF Read, Good, Size, Bodies
      <4> QED  BY <4>2 DEF Pack, Archives, Bodies
    <3>3. body' = [body EXCEPT ![Hot] = body'[Hot]] /\ body'[Hot] \in {Empty} \cup Archives
      BY <3>2 DEF Memory
    <3>4. /\ body' \in [Threads -> Contents] /\ \A k \in Handlers : body'[k] = body[k]
      BY <3>3 DEF Memory, Contents, Bodies, Archives
    <3> QED  BY <3>3, <3>4
        DEF Memory, Control, UploadLabels, DownloadLabels, RestoreLabels, Returned
  <2>5. Tables'
    <3>1. file[Hot] \in Files  BY DEF Control, RestLabels
    <3> QED  BY <3>1 DEF Tables, Touch
  <2>6. Reading'  BY ReadingEnds DEF Returned
  <2> QED  BY <2>1, <2>2, <2>3, <2>4, <2>5, <2>6
<1>8. ASSUME HotOpen PROVE Typed'
  <2> USE <1>8 DEF HotOpen
  <2>1. Control'  BY DEF Control, Labels, UploadLabels, DownloadLabels,
    RestoreLabels, PackLabels, RestLabels
  <2>2. Disk'
    <3>1. file[Hot] \in Files  BY NamesAssumption DEF Control, RestLabels
    <3> QED  BY <3>1, PathFacts, OpenDisk
  <2>3. Open'
    <3>1. file[Hot] \in Files  BY NamesAssumption DEF Control, RestLabels
    <3> QED  BY <3>1, NamesAssumption, PathFacts, OpenOpen
  <2>4. Memory'  BY DEF Memory, Control, UploadLabels, DownloadLabels, RestoreLabels
  <2>5. Tables'  BY DEF Tables, OpenForWriting
  <2>6. Reading'  BY ReadingKept DEF ReadLabels, PackReads, RealReads
  <2> QED  BY <2>1, <2>2, <2>3, <2>4, <2>5, <2>6
<1>9. ASSUME HotWrite PROVE Typed'
  <2> USE <1>9 DEF HotWrite
  <2>1. Control'  BY DEF Control, Labels, UploadLabels, DownloadLabels,
    RestoreLabels, PackLabels, RestLabels
  <2>2. Disk'  BY WriteDisk DEF Memory
  <2>3. Open'  BY ClosedOpen DEF Open, Write
  <2>4. Memory'  BY DEF Memory, Control, UploadLabels, DownloadLabels, RestoreLabels
  <2>5. Tables'  BY DEF Tables
  <2>6. Reading'  BY ReadingKept DEF ReadLabels, PackReads, RealReads
  <2> QED  BY <2>1, <2>2, <2>3, <2>4, <2>5, <2>6
<1>10. ASSUME HotRemove PROVE Typed'
  <2> USE <1>10 DEF HotRemove
  <2>1. Control'  BY DEF Control, Labels, UploadLabels, DownloadLabels,
    RestoreLabels, PackLabels, RestLabels
  <2>2. Disk'
    <3>1. file[Hot] \in Files  BY NamesAssumption DEF Control, RestLabels
    <3> QED  BY <3>1, PathFacts, RemoveDisk
  <2>3. Open'  BY ClosedOpen DEF Open, Remove
  <2>4. Memory'  BY DEF Memory, Control, UploadLabels, DownloadLabels, RestoreLabels
  <2>5. Tables'  BY DEF Tables
  <2>6. Reading'
    <3>1. file[Hot] \in Files  BY NamesAssumption DEF Control, RestLabels
    <3> QED  BY <3>1, ReadingRemoved DEF ReadLabels, PackReads, RealReads
  <2> QED  BY <2>1, <2>2, <2>3, <2>4, <2>5, <2>6
<1>11. ASSUME HotUpdate PROVE Typed'
  <2> USE <1>11 DEF HotUpdate
  <2>1. Control'  BY DEF Control, Forget, Labels, UploadLabels, DownloadLabels,
    RestoreLabels, PackLabels, RestLabels
  <2>2. Disk'  BY DEF Disk
  <2>3. Open'  BY DEF Open
  <2>4. Memory'  BY ForgetMemory DEF RestLabels
  <2>5. Tables'
    <3>1. file[Hot] \in Files  BY NamesAssumption DEF Control, RestLabels
    <3> QED  BY <3>1, UpdataRow DEF Tables
  <2>6. Reading'  BY ReadingEnds DEF Forget
  <2> QED  BY <2>1, <2>2, <2>3, <2>4, <2>5, <2>6
<1>12. ASSUME HotBegin PROVE Typed'
  <2> USE <1>12 DEF HotBegin
  <2>1. Control'  BY DEF Control, Labels, UploadLabels, DownloadLabels,
    RestoreLabels, PackLabels, RestLabels
  <2>2. Disk'  BY DEF Disk
  <2>3. Open'  BY DEF Open
  <2>4. Memory'  BY DEF Memory, Control, UploadLabels, DownloadLabels, RestoreLabels,
    Returned
  <2>5. Tables'  BY DEF Tables
  <2>6. Reading'
    BY ReadingKept, ReadingEnds DEF Returned, ReadLabels, PackReads, RealReads
  <2> QED  BY <2>1, <2>2, <2>3, <2>4, <2>5, <2>6
<1>13. ASSUME HotCheck PROVE Typed'
  <2> USE <1>13 DEF HotCheck
  <2>1. Control'  BY DEF Control, Labels, UploadLabels, DownloadLabels,
    RestoreLabels, PackLabels, RestLabels
  <2>2. Disk'  BY DEF Disk
  <2>3. Open'  BY DEF Open
  <2>4. Memory'  BY DEF Memory, Control, UploadLabels, DownloadLabels, RestoreLabels,
    Returned
  <2>5. Tables'  BY DEF Tables
  <2>6. Reading'
    BY ReadingKept, ReadingEnds DEF Returned, ReadLabels, PackReads, RealReads
  <2> QED  BY <2>1, <2>2, <2>3, <2>4, <2>5, <2>6
<1> QED  BY <1>1, <1>2, <1>3, <1>4, <1>5, <1>6, <1>7, <1>8, <1>9, <1>10, <1>11, <1>12, <1>13
    DEF RunModule

LEMMA NextTyped == Typed /\ [Next]_vars => Typed'
<1> SUFFICES ASSUME Typed, [Next]_vars PROVE Typed'  OBVIOUS
<1> USE NamesAssumption DEF Typed, Goto, Threads
<1>1. ASSUME NEW h \in Handlers, NEW f \in Files, NEW c \in Copies \cup {None},
             StartDownload(h, f, c)
      PROVE  Typed'
  <2> USE <1>1 DEF StartDownload
  <2>1. Control'  BY DEF Control, Labels, UploadLabels, DownloadLabels,
    RestoreLabels, PackLabels, RestLabels
  <2>2. Disk'  BY DEF Disk
  <2>3. Open'  BY DEF Open
  <2>4. Memory'  BY
      DEF Memory, Control, UploadLabels, DownloadLabels, RestoreLabels, Contents, Bodies
  <2>5. Tables'  BY DEF Tables
  <2>6. Reading'  BY ReadingKept DEF ReadLabels, PackReads, RealReads
  <2> QED  BY <2>1, <2>2, <2>3, <2>4, <2>5, <2>6
<1>2. ASSUME NEW f \in Files, Age(f) PROVE Typed'
  <2> USE <1>2 DEF Age
  <2>1. Control'  BY DEF Control, Labels, UploadLabels, DownloadLabels,
    RestoreLabels, PackLabels, RestLabels
  <2>2. Disk'  BY DEF Disk
  <2>3. Open'  BY DEF Open
  <2>4. Memory'  BY DEF Memory, Control, UploadLabels, DownloadLabels, RestoreLabels
  <2>5. Tables'  BY DEF Tables
  <2>6. Reading'  BY DEF Reading
  <2> QED  BY <2>1, <2>2, <2>3, <2>4, <2>5, <2>6
<1>3. ASSUME Crash PROVE Typed'
  <2> USE <1>3 DEF Crash
  <2>1. Control'  BY DEF Control, Labels, UploadLabels, DownloadLabels,
    RestoreLabels, PackLabels, RestLabels
  <2>2. Disk'  BY DEF Disk
  <2>3. Open'  BY ClosedOpen
  <2>4. Memory'  BY
      DEF Memory, Control, UploadLabels, DownloadLabels, RestoreLabels, Contents, Bodies
  <2>5. Tables'  BY DEF Tables
  <2>6. Reading'  BY DEF Reading, ReadLabels, PackReads, RealReads
  <2> QED  BY <2>1, <2>2, <2>3, <2>4, <2>5, <2>6
<1>4. CASE UNCHANGED vars
  BY <1>4 DEF vars, Control, Disk, Open, Memory, Reading, Tables
<1> QED  BY <1>1, <1>2, <1>3, <1>4, UploadTyped, DownloadTyped, HotTyped DEF Next, Request

LEMMA TypedAlways == Spec => []Typed
BY InitTyped, NextTyped, PTL DEF Spec

(***************************************************************************)
(* Whatever requests, hot passes and kills come in whatever order, and      *)
(* whatever the file system refuses, every path holds what its kind of path *)
(* may hold and every row, answer and local is one the code can produce.    *)
(***************************************************************************)
THEOREM TypeCorrect == Spec => []TypeOK
<1>1. Typed => TypeOK
  BY DEF Typed, TypeOK, Control, Disk, Open, Memory, Reading, Tables
<1> QED  BY <1>1, TypedAlways, PTL
-----------------------------------------------------------------------------
(***************************************************************************)
(* A file is in the hands of one thread at a time; others may be anywhere   *)
(* with other files.  The file system does what it is told, and the process *)
(* is killed, if at all, when no thread is at the write of SetContent for   *)
(* an archive or a restored file.                                           *)
(***************************************************************************)
SafeDisk == ~DiskMayFail /\ CrashLabels \cap {"d_write", "h_write"} = {}

FilesApart ==
  \A t, u \in Threads : file[t] \in Files /\ file[t] = file[u] => t = u

\* One request, or one file of a hot pass, at a time.
OneAtATime == Serial /\ SafeDisk

\* Nobody is killed: a file that was never uploaded has left no trace.
Unkilled == CrashLabels = {}

Untouched(f) ==
  row[f] = None /\ disk[Real(f)] = Absent /\ disk[PackOf(f)] = Absent

\* The row has an ETag of the version whose upload was announced.
Known(f) == row[f] # None /\ row[f].etag \in ETags[announced[f]]

\* f when no thread works on it.  A kill may leave an archive beside the file,
\* or a flag that is wrong about which of them there is.
Settled(f) ==
  IF announced[f] = None THEN Unkilled => Untouched(f)
  ELSE /\ Known(f)
       /\ \/ /\ disk[Real(f)] = announced[f]
             /\ row[f].pack_flag =>
                  ~Unkilled /\ disk[PackOf(f)] \in {Archive(announced[f]), Absent}
          \/ /\ disk[Real(f)] = Absent
             /\ disk[PackOf(f)] = Archive(announced[f])
             /\ Unkilled => row[f].pack_flag

\* What a thread that works on f knows of it, at each of its steps.
UploadAt(t, f) ==
  /\ announced[f] = None
  /\ pc[t] \in {"u_stat", "u_insert"} => disk[Real(f)] = body[t]
  /\ pc[t] = "u_insert" => info[t] \in [pack_flag : {FALSE}, etag : ETags[body[t]]]

UnknownAt(t, f) ==
  Unkilled =>
    /\ Untouched(f)
    /\ pc[t] \in {"d_row", "h_row", "h_size", "h_begin", "h_remove", "h_update"}
    /\ pc[t] = "h_begin" => seen[t] = "none"
    /\ pc[t] \in {"h_size", "h_begin", "h_remove", "h_update"} => info[t] = None

DownloadAt(t, f) ==
  /\ Known(f)
  /\ pc[t] # "d_row" => info[t].etag \in ETags[announced[f]]
  /\ pc[t] \notin {"d_write", "d_remove", "d_update"} => Settled(f)
  /\ pc[t] \in RestoreLabels => row[f].pack_flag
  /\ pc[t] = "d_pbegin" => seen[t] = Size(disk[PackOf(f)])
  /\ pc[t] \in {"d_pcheck", "d_pread"} => seen[t] = "some"
  /\ pc[t] \in {"d_pcheck", "d_pread", "d_open", "d_write"} =>
       disk[PackOf(f)] = Archive(announced[f])
  /\ pc[t] \in {"d_open", "d_write"} => body[t] = announced[f]
  /\ pc[t] \in {"d_remove", "d_update"} =>
       /\ disk[Real(f)] = announced[f]
       /\ disk[PackOf(f)] \in {Archive(announced[f]), Absent}
  /\ pc[t] = "d_update" => disk[PackOf(f)] = Absent
  /\ pc[t] \in {"d_size", "d_begin", "d_check", "d_read"} => ~row[f].pack_flag
  /\ pc[t] = "d_begin" => seen[t] = Size(disk[Real(f)])
  /\ pc[t] \in {"d_check", "d_read"} => disk[Real(f)] = announced[f] /\ seen[t] = "some"

PackAt(t, f) ==
  /\ Known(f)
  /\ pc[t] \notin {"h_write", "h_remove", "h_update"} => Settled(f)
  /\ pc[t] # "h_row" => info[t] # None
  /\ pc[t] = "h_begin" => seen[t] = Size(disk[Real(f)])
  /\ pc[t] \in {"h_check", "h_read"} => seen[t] = "some"
  /\ pc[t] \in {"h_check", "h_read", "h_open", "h_write"} => disk[Real(f)] = announced[f]
  /\ pc[t] \in {"h_open", "h_write"} => body[t] = Archive(announced[f])
  /\ pc[t] \in {"h_remove", "h_update"} =>
       /\ disk[PackOf(f)] = Archive(announced[f])
       /\ disk[Real(f)] \in {announced[f], Absent}
  /\ pc[t] = "h_update" => disk[Real(f)] = Absent

WorkAt(t, f) ==
  /\ kept[t] = None
  /\ pc[t] \in {"u_write", "d_write"} => open[t] = Real(f)
  /\ pc[t] = "h_write" => open[t] = PackOf(f)
  /\ pc[t] \in UploadLabels => UploadAt(t, f)
  /\ pc[t] \in DownloadLabels \cup PackLabels /\ announced[f] = None => UnknownAt(t, f)
  /\ pc[t] \in DownloadLabels /\ announced[f] # None => DownloadAt(t, f)
  /\ pc[t] \in PackLabels /\ announced[f] # None => PackAt(t, f)

\* Who works on a file knows it, and every other file is settled.
Orderly ==
  /\ \A t \in Threads : ~AtRest(t) => WorkAt(t, file[t])
  /\ \A f \in Files : (\A t \in Threads : file[t] # f) => Settled(f)

LEMMA InitOrderly == Init => Orderly
BY NamesAssumption
    DEF Init, Orderly, AtRest, RestLabels, Settled, Untouched, Threads, Paths, Real,
        PackOf

(* What a step leaves as it is. *)

KeptFile(f) ==
  /\ row'[f] = row[f] /\ announced'[f] = announced[f]
  /\ disk'[Real(f)] = disk[Real(f)] /\ disk'[PackOf(f)] = disk[PackOf(f)]

KeptBut(f) == \A g \in Files \ {f} : KeptFile(g)

\* What a step of another thread leaves to thread t on g.
ThreadKept(t, g) ==
  /\ file'[t] = file[t] /\ pc'[t] = pc[t]
  /\ seen'[t] = seen[t] /\ body'[t] = body[t] /\ info'[t] = info[t] /\ kept'[t] = kept[t]
  /\ open[t] \in {Real(g), PackOf(g)} => open'[t] = open[t]

OthersKept(t) ==
  \A u \in Threads \ {t} :
    /\ file'[u] = file[u] /\ pc'[u] = pc[u]
    /\ seen'[u] = seen[u] /\ body'[u] = body[u] /\ info'[u] = info[u]

\* A step of t takes nothing from the others but what they have open of t's file.
Undisturbed(t) ==
  /\ OthersKept(t)
  /\ \A u \in Threads \ {t} :
       /\ open'[u] = open[u] \/ open[u] \in {Real(file[t]), PackOf(file[t])}
       /\ kept'[u] = kept[u] \/ file[u] = file[t]

LEMMA SettledKept ==
  ASSUME NEW f \in Files, Settled(f), KeptFile(f) PROVE Settled(f)'
BY DEF Settled, KeptFile, Known, Untouched, Unkilled

LEMMA Owner ==
  ASSUME Typed, NEW t \in Threads
  PROVE  AtRest(t) <=> file[t] \notin Files
BY NamesAssumption DEF Typed, Control, AtRest

LEMMA RestKept == ASSUME Typed, NEW t \in Threads, AtRest(t) PROVE kept[t] = None
BY DEF Typed, Reading, AtRest, RestLabels, ReadLabels, PackReads, RealReads

LEMMA WorkKept ==
  ASSUME NEW u \in Threads, NEW g \in Files, WorkAt(u, g), KeptFile(g), ThreadKept(u, g)
  PROVE  WorkAt(u, g)'
<1>1. pc'[u] = pc[u]  BY DEF ThreadKept
<1>2. pc[u] \in {"u_write", "d_write", "h_write"} => open'[u] = open[u]
  BY DEF WorkAt, ThreadKept
<1>3. Settled(g) => Settled(g)'  BY SettledKept
<1>4. UploadAt(u, g) => UploadAt(u, g)'  BY <1>1 DEF UploadAt, KeptFile, ThreadKept
<1>5. UnknownAt(u, g) => UnknownAt(u, g)'
  BY <1>1 DEF UnknownAt, Untouched, Unkilled, KeptFile, ThreadKept
<1>6. DownloadAt(u, g) => DownloadAt(u, g)'
  BY <1>1, <1>3 DEF DownloadAt, Known, KeptFile, ThreadKept
<1>7. PackAt(u, g) => PackAt(u, g)'
  BY <1>1, <1>3 DEF PackAt, Known, KeptFile, ThreadKept
<1>8. kept'[u] = kept[u]  BY DEF ThreadKept
<1> QED  BY <1>1, <1>2, <1>4, <1>5, <1>6, <1>7, <1>8 DEF WorkAt, KeptFile

\* The threads that work on other files, and the files nobody works on.
LEMMA OthersWork ==
  ASSUME Typed, Orderly, NEW t \in Threads, NEW f \in Files, Undisturbed(t),
         file[t] \in {f, None}, file[t] = None => UNCHANGED open, KeptBut(f),
         NEW u \in Threads \ {t}, file[u] # f, ~AtRest(u)'
  PROVE  WorkAt(u, file[u])' /\ file'[u] = file[u]
<1>1. file'[u] = file[u] /\ pc'[u] = pc[u]  BY DEF Undisturbed, OthersKept
<1>2. ~AtRest(u)  BY <1>1 DEF AtRest
<1>3. PICK g \in Files : g = file[u]  BY <1>2, Owner
<1>4. WorkAt(u, g) /\ g # f  BY <1>2, <1>3 DEF Orderly
<1>5. KeptFile(g)  BY <1>4 DEF KeptBut
<1>6. ThreadKept(u, g)
  <2>1. open[u] \in {Real(g), PackOf(g)} => open'[u] = open[u]
    BY <1>4, PathFacts DEF Undisturbed, Real, PackOf
  <2>2. kept'[u] = kept[u]
    <3>1. file[u] # file[t]  BY <1>3, <1>4, NamesAssumption
    <3> QED  BY <3>1 DEF Undisturbed
  <2> QED  BY <2>1, <2>2 DEF ThreadKept, Undisturbed, OthersKept
<1>7. WorkAt(u, g)'  BY <1>4, <1>5, <1>6, WorkKept
<1> QED  BY <1>1, <1>3, <1>7

LEMMA Free ==
  ASSUME Typed, FilesApart', NEW t \in Threads, NEW f \in Files, AtRest(t),
         Undisturbed(t), file' = [file EXCEPT ![t] = f]
  PROVE  \A u \in Threads : file[u] # f
<1>1. file'[t] = f /\ file[t] # f  BY Owner DEF Typed, Control
<1>2. \A u \in Threads \ {t} : file'[u] = file[u]  BY DEF Undisturbed, OthersKept
<1> QED  BY <1>1, <1>2 DEF FilesApart

LEMMA Begins ==
  ASSUME Typed, Orderly, FilesApart', NEW t \in Threads, NEW f \in Files,
         NEW l \in Labels, AtRest(t), Undisturbed(t), UNCHANGED open,
         pc' = [pc EXCEPT ![t] = l], file' = [file EXCEPT ![t] = f],
         KeptBut(f), WorkAt(t, f)'
  PROVE  Orderly'
<1>1. \A u \in Threads : file[u] # f  BY Free
<1>2. file'[t] = f /\ file[t] = None  BY Owner DEF Typed, Control
<1>3. ASSUME NEW u \in Threads \ {t}, ~AtRest(u)' PROVE WorkAt(u, file[u])' /\ file'[u] = file[u]
  BY <1>1, <1>2, <1>3, OthersWork
<1>4. ASSUME NEW g \in Files, \A u \in Threads : file'[u] # g PROVE Settled(g)'
  <2>1. g # f  BY <1>2, <1>4
  <2>2. \A u \in Threads : file[u] # g
    BY <1>2, <1>4, NamesAssumption DEF Undisturbed, OthersKept
  <2> QED  BY <2>1, <2>2, SettledKept DEF Orderly, KeptBut
<1>5. ASSUME NEW u \in Threads, ~AtRest(u)' PROVE WorkAt(u, file[u])'
  <2>1. CASE u = t  BY <2>1, <1>2
  <2> QED  BY <1>5, <1>3, <2>1
<1> QED  BY <1>4, <1>5 DEF Orderly

LEMMA Works ==
  ASSUME Typed, FilesApart, Orderly, NEW t \in Threads, NEW f \in Files, NEW l \in Labels,
         Undisturbed(t), file[t] = f, pc' = [pc EXCEPT ![t] = l], file' = file,
         KeptBut(f), WorkAt(t, f)'
  PROVE  Orderly'
<1>1. \A u \in Threads \ {t} : file[u] # f  BY DEF FilesApart
<1>2. f # None  BY NamesAssumption
<1>3. ASSUME NEW u \in Threads, ~AtRest(u)' PROVE WorkAt(u, file[u])'
  <2>1. CASE u = t  BY <2>1
  <2>2. CASE u # t  BY <1>1, <1>2, <1>3, <2>2, OthersWork
  <2> QED  BY <2>1, <2>2
<1>4. ASSUME NEW g \in Files, \A u \in Threads : file'[u] # g PROVE Settled(g)'
  BY <1>4, SettledKept DEF Orderly, KeptBut
<1> QED  BY <1>3, <1>4 DEF Orderly

LEMMA Ends ==
  ASSUME Typed, FilesApart, Orderly, NEW t \in Threads, NEW f \in Files, NEW l \in RestLabels,
         Undisturbed(t), file[t] = f, pc' = [pc EXCEPT ![t] = l],
         file' = [file EXCEPT ![t] = None], KeptBut(f), Settled(f)'
  PROVE  Orderly'
<1>1. \A u \in Threads \ {t} : file[u] # f  BY DEF FilesApart
<1>2. f # None /\ AtRest(t)'  BY NamesAssumption DEF AtRest, Typed, Control
<1>3. ASSUME NEW u \in Threads, ~AtRest(u)' PROVE WorkAt(u, file[u])'
  BY <1>1, <1>2, <1>3, OthersWork
<1>4. ASSUME NEW g \in Files, \A u \in Threads : file'[u] # g PROVE Settled(g)'
  <2>1. CASE g = f  BY <2>1
  <2>2. CASE g # f
    <3>1. \A u \in Threads : file[u] # g
      BY <1>4, <2>2 DEF Undisturbed, OthersKept
    <3> QED  BY <2>2, <3>1, SettledKept DEF Orderly, KeptBut
  <2> QED  BY <2>1, <2>2
<1> QED  BY <1>3, <1>4 DEF Orderly

LEMMA Rests ==
  ASSUME Typed, Orderly,
         UNCHANGED <<disk, row, announced, file, open, seen, kept, body, info>>,
         \A u \in Threads : pc'[u] = pc[u] \/ (AtRest(u) /\ AtRest(u)')
  PROVE  Orderly'
<1>1. \A u \in Threads : AtRest(u) <=> AtRest(u)'  BY DEF AtRest
<1>2. ASSUME NEW u \in Threads, ~AtRest(u) PROVE WorkAt(u, file[u])'
  <2>1. PICK g \in Files : g = file[u]  BY <1>2, Owner
  <2>2. pc'[u] = pc[u] /\ WorkAt(u, g)  BY <1>2, <2>1 DEF Orderly
  <2>3. KeptFile(g) /\ ThreadKept(u, g)  BY <2>2 DEF KeptFile, ThreadKept
  <2> QED  BY <2>1, <2>2, <2>3, WorkKept
<1>3. ASSUME NEW f \in Files, Settled(f) PROVE Settled(f)'
  BY <1>3, SettledKept DEF KeptFile
<1> QED  BY <1>1, <1>2, <1>3 DEF Orderly

(* The operations on a file system that does what it is told *)

LEMMA OpenEffect ==
  ASSUME Typed, ~DiskMayFail, NEW t \in Threads, NEW p \in Paths, OpenForWriting(t, p)
  PROVE  /\ disk'[p] = Empty /\ open'[t] = p
         /\ \A q \in Paths \ {p} : disk'[q] = disk[q]
BY DEF Typed, Disk, Open, OpenForWriting

LEMMA WriteEffect ==
  ASSUME Typed, ~DiskMayFail, NEW t \in Threads, NEW c, Write(t, c)
  PROVE  /\ open[t] \in Paths => disk'[open[t]] = c
         /\ \A q \in Paths \ {open[t]} : disk'[q] = disk[q]
BY DEF Typed, Disk, Open, Write

LEMMA RemoveEffect ==
  ASSUME Typed, NEW p \in Paths, Remove(p)
  PROVE  disk'[p] = Absent /\ \A q \in Paths \ {p} : disk'[q] = disk[q]
BY DEF Typed, Disk, Remove

LEMMA RemoveKept ==
  ASSUME Typed, NEW f \in Files, NEW p \in {Real(f), PackOf(f)}, Remove(p),
         NEW u \in Threads, kept'[u] # kept[u]
  PROVE  file[u] = f /\ pc[u] \in ReadLabels
<1>1. Reads(u, p)  BY DEF Remove, Typed, Reading
<1> QED  BY <1>1 DEF Reads, Real, PackOf, ReadLabels, PackReads, RealReads

(* A thread works on the file it holds and on its own locals. *)

LEMMA UploadAlone ==
  ASSUME Typed, NEW h \in Handlers, Upload(h) PROVE Undisturbed(h)
<1> h \in Threads  BY DEF Threads
<1> USE DEF Typed, Control, Open, Memory, Reading, Undisturbed, OthersKept, Goto
<1>1. CASE \E f \in Files, v \in Versions : StartUpload(h, f, v)  BY <1>1 DEF StartUpload
<1>2. CASE UploadOpen(h)  BY <1>2 DEF UploadOpen, OpenForWriting
<1>3. CASE UploadWrite(h)  BY <1>3 DEF UploadWrite, Write
<1>4. CASE UploadStat(h)  BY <1>4 DEF UploadStat
<1>5. CASE UploadInsert(h)  BY <1>5 DEF UploadInsert, Forget
<1> QED  BY <1>1, <1>2, <1>3, <1>4, <1>5 DEF Upload

LEMMA DownloadAlone ==
  ASSUME Typed, NEW h \in Handlers, Download(h) PROVE Undisturbed(h)
<1> h \in Threads  BY DEF Threads
<1> USE DEF Typed, Control, Open, Memory, Reading, Undisturbed, OthersKept, Goto
<1>1. CASE DownloadRow(h)  BY <1>1 DEF DownloadRow, Answer, Forget
<1>2. CASE UnpackSize(h)  BY <1>2 DEF UnpackSize, GetSize
<1>3. CASE UnpackRead(h)  BY <1>3 DEF UnpackRead, Returned
<1>4. CASE UnpackOpen(h)  BY <1>4 DEF UnpackOpen, OpenForWriting
<1>5. CASE UnpackWrite(h)  BY <1>5 DEF UnpackWrite, Write
<1>6. CASE UnpackRemove(h)
  <2>1. file[h] \in Files  BY <1>6, Owner DEF UnpackRemove, AtRest, RestLabels
  <2>2. \A u \in Threads : kept'[u] = kept[u] \/ file[u] = file[h]
    BY <1>6, <2>1, RemoveKept DEF UnpackRemove
  <2> QED  BY <1>6, <2>2 DEF UnpackRemove, Remove
<1>7. CASE UnpackUpdate(h)  BY <1>7 DEF UnpackUpdate
<1>8. CASE ServeSize(h)  BY <1>8 DEF ServeSize, GetSize
<1>9. CASE ServeRead(h)  BY <1>9 DEF ServeRead, Serve, Answer, Forget
<1>10. CASE UnpackBegin(h)  BY <1>10 DEF UnpackBegin, Returned
<1>11. CASE UnpackCheck(h)  BY <1>11 DEF UnpackCheck, Fits, Throws, Fail, Answer, Forget, Returned
<1>12. CASE ServeBegin(h)  BY <1>12 DEF ServeBegin, Serve, Answer, Forget
<1>13. CASE ServeCheck(h)
  BY <1>13 DEF ServeCheck, Fits, Throws, Serve, Fail, Answer, Forget
<1> QED  BY <1>1, <1>2, <1>3, <1>4, <1>5, <1>6, <1>7, <1>8, <1>9, <1>10, <1>11, <1>12, <1>13
    DEF Download

LEMMA RequestAlone ==
  ASSUME Typed, NEW h \in Handlers, Request(h) PROVE Undisturbed(h)
BY DEF Request, StartDownload, Undisturbed, OthersKept, Goto, Typed, Control, Memory, Threads

LEMMA HotAlone == ASSUME Typed, RunModule PROVE Undisturbed(Hot)
<1> Hot \in Threads  BY DEF Threads
<1> USE DEF Typed, Control, Open, Memory, Reading, Undisturbed, OthersKept, Goto
<1>1. CASE HotList \/ HotDone  BY <1>1 DEF HotList, HotDone
<1>2. CASE \E f \in Files : HotSkip(f) \/ HotPick(f)  BY <1>2 DEF HotSkip, HotPick
<1>3. CASE HotRow  BY <1>3 DEF HotRow
<1>4. CASE HotSize  BY <1>4 DEF HotSize, GetSize
<1>5. CASE HotRead  BY <1>5 DEF HotRead, Returned
<1>6. CASE HotOpen  BY <1>6 DEF HotOpen, OpenForWriting
<1>7. CASE HotWrite  BY <1>7 DEF HotWrite, Write
<1>8. CASE HotRemove
  <2>1. file[Hot] \in Files  BY <1>8, Owner DEF HotRemove, AtRest, RestLabels
  <2>2. \A u \in Threads : kept'[u] = kept[u] \/ file[u] = file[Hot]
    BY <1>8, <2>1, RemoveKept DEF HotRemove
  <2> QED  BY <1>8, <2>2 DEF HotRemove, Remove
<1>9. CASE HotUpdate  BY <1>9 DEF HotUpdate, Forget
<1>10. CASE HotBegin  BY <1>10 DEF HotBegin, Returned
<1>11. CASE HotCheck  BY <1>11 DEF HotCheck, Returned
<1> QED  BY <1>1, <1>2, <1>3, <1>4, <1>5, <1>6, <1>7, <1>8, <1>9, <1>10, <1>11 DEF RunModule

LEMMA UploadOrderly ==
  ASSUME SafeDisk, Typed, FilesApart, FilesApart', Orderly, NEW h \in Handlers, Upload(h)
  PROVE  Orderly'
<1> USE NamesAssumption DEF SafeDisk, Goto
<1> h \in Threads  BY DEF Threads
<1> Undisturbed(h)  BY UploadAlone
<1>1. ASSUME NEW f \in Files, NEW v \in Versions, StartUpload(h, f, v) PROVE Orderly'
  <2> USE <1>1 DEF StartUpload
  <2>1. AtRest(h)  BY DEF AtRest, RestLabels
  <2>2. KeptBut(f)  BY DEF KeptBut, KeptFile, Typed, Tables
  <2>3. pc'[h] = "u_open"  BY DEF Typed, Control
  <2>4. WorkAt(h, f)'
    <3>1. announced'[f] = None /\ kept'[h] = None  BY <2>1, RestKept DEF Typed, Tables
    <3> QED  BY <2>3, <3>1
        DEF WorkAt, UploadAt, UploadLabels, DownloadLabels, RestoreLabels, PackLabels
  <2> QED  BY <2>1, <2>2, <2>4, Begins
      DEF Labels, UploadLabels, DownloadLabels, RestoreLabels, PackLabels
<1>2. ASSUME UploadOpen(h) PROVE Orderly'
  <2> USE <1>2 DEF UploadOpen
  <2>1. PICK f \in Files : f = file[h] /\ ~AtRest(h) /\ WorkAt(h, f)
    BY Owner DEF AtRest, RestLabels, Orderly
  <2>2. pc'[h] = "u_write"  BY DEF Typed, Control
  <2>3. KeptBut(f)  BY <2>1, PathFacts, OpenEffect DEF KeptBut, KeptFile
  <2>4. WorkAt(h, f)'
    <3>1. open'[h] = Real(f)  BY <2>1, PathFacts, OpenEffect
    <3> QED  BY <2>1, <2>2, <3>1
        DEF WorkAt, UploadAt, UploadLabels, DownloadLabels, RestoreLabels, PackLabels
  <2> QED  BY <2>1, <2>3, <2>4, Works
      DEF Labels, UploadLabels, DownloadLabels, RestoreLabels, PackLabels
<1>3. ASSUME UploadWrite(h) PROVE Orderly'
  <2> USE <1>3 DEF UploadWrite
  <2>1. PICK f \in Files : f = file[h] /\ ~AtRest(h) /\ WorkAt(h, f)
    BY Owner DEF AtRest, RestLabels, Orderly
  <2>2. pc'[h] = "u_stat"  BY DEF Typed, Control
  <2>3. KeptBut(f)  BY <2>1, PathFacts, WriteEffect
      DEF KeptBut, KeptFile, WorkAt, UploadAt, UploadLabels
  <2>4. WorkAt(h, f)'
    <3>1. announced[f] = None /\ open[h] = Real(f)
      BY <2>1 DEF WorkAt, UploadAt, UploadLabels
    <3>2. disk'[Real(f)] = body[h]  BY <2>1, <3>1, PathFacts, WriteEffect
    <3> QED  BY <2>1, <2>2, <3>1, <3>2
        DEF WorkAt, UploadAt, UploadLabels, DownloadLabels, RestoreLabels, PackLabels
  <2> QED  BY <2>1, <2>3, <2>4, Works
      DEF Labels, UploadLabels, DownloadLabels, RestoreLabels, PackLabels
<1>4. ASSUME UploadStat(h) PROVE Orderly'
  <2> USE <1>4 DEF UploadStat
  <2>1. PICK f \in Files : f = file[h] /\ ~AtRest(h) /\ WorkAt(h, f)
    BY Owner DEF AtRest, RestLabels, Orderly
  <2>2. pc'[h] = "u_insert"  BY DEF Typed, Control
  <2>3. KeptBut(f)  BY <2>1 DEF KeptBut, KeptFile
  <2>4. WorkAt(h, f)'
    <3>1. announced[f] = None /\ disk[Real(f)] = body[h]
      BY <2>1 DEF WorkAt, UploadAt, UploadLabels
    <3>2. body[h] # Absent  BY DEF Typed, Memory, UploadLabels
    <3>3. info'[h] \in [pack_flag : {FALSE}, etag : ETags[body[h]]]
      <4>1. PICK s \in ETags[body[h]] :
              info' = [info EXCEPT ![h] = [pack_flag |-> FALSE, etag |-> s]]
        BY <2>1, <3>1, <3>2
      <4> QED  BY <4>1 DEF Typed, Memory
    <3> QED  BY <2>1, <2>2, <3>1, <3>3
        DEF WorkAt, UploadAt, UploadLabels, DownloadLabels, RestoreLabels, PackLabels
  <2> QED  BY <2>1, <2>3, <2>4, Works
      DEF Labels, UploadLabels, DownloadLabels, RestoreLabels, PackLabels
<1>5. ASSUME UploadInsert(h) PROVE Orderly'
  <2> USE <1>5 DEF UploadInsert
  <2>1. PICK f \in Files : f = file[h] /\ ~AtRest(h) /\ WorkAt(h, f)
    BY Owner DEF AtRest, RestLabels, Orderly
  <2>2. KeptBut(f)  BY <2>1 DEF KeptBut, KeptFile, Typed, Tables
  <2>3. Settled(f)'
    <3>1. /\ disk[Real(f)] = body[h]
          /\ info[h] \in [pack_flag : {FALSE}, etag : ETags[body[h]]]
      BY <2>1 DEF WorkAt, UploadAt, UploadLabels
    <3>2. body[h] \in Versions  BY DEF Typed, Memory, UploadLabels
    <3>3. info[h] \in Rows  BY <3>1, <3>2, ETagsAssumption DEF Rows, Bodies
    <3>4. Uploading(f) = {h}  BY <2>1 DEF Uploading, UploadLabels, FilesApart, Threads
    <3>5. announced'[f] = body[h] /\ row'[f] = info[h]
      BY <2>1, <3>3, <3>4 DEF Typed, Tables
    <3>6. info[h] # None /\ ~info[h].pack_flag /\ info[h].etag \in ETags[body[h]]
      BY <3>1, <3>3
    <3> QED  BY <3>1, <3>2, <3>5, <3>6 DEF Settled, Known, Contents, Bodies
  <2> QED  BY <2>1, <2>2, <2>3, Ends DEF Forget, RestLabels
<1> QED  BY <1>1, <1>2, <1>3, <1>4, <1>5 DEF Upload

LEMMA DownloadOrderly ==
  ASSUME SafeDisk, Typed, FilesApart, FilesApart', Orderly, NEW h \in Handlers, Download(h)
  PROVE  Orderly'
<1> USE NamesAssumption DEF SafeDisk, Goto
<1> h \in Threads  BY DEF Threads
<1> Undisturbed(h)  BY DownloadAlone
<1>1. ASSUME DownloadRow(h) PROVE Orderly'
  <2> USE <1>1 DEF DownloadRow
  <2>1. PICK f \in Files : f = file[h] /\ ~AtRest(h) /\ WorkAt(h, f)
    BY Owner DEF AtRest, RestLabels, Orderly
  <2>2. KeptBut(f)  BY DEF KeptBut, KeptFile
  <2>3. CASE row[f] = None
    <3>1. Settled(f)'
      BY <2>1, <2>3
          DEF WorkAt, UnknownAt, DownloadAt, Known, Settled, Untouched, Unkilled,
              UploadLabels, DownloadLabels, RestoreLabels, PackLabels
    <3> QED  BY <2>1, <2>2, <2>3, <3>1, Ends DEF Answer, Forget, RestLabels
  <2>4. CASE row[f] # None
    <3>1. \/ pc'[h] = "d_psize" /\ row[f].pack_flag
          \/ pc'[h] = "d_size" /\ ~row[f].pack_flag
      BY <2>1, <2>4 DEF Typed, Control
    <3>2. info'[h] = row[f]  BY <2>1, <2>4 DEF Typed, Memory
    <3>3. ASSUME announced[f] = None PROVE WorkAt(h, f)'
      BY <2>1, <2>4, <3>1, <3>3
          DEF WorkAt, UnknownAt, Untouched, Unkilled, UploadLabels, DownloadLabels,
              RestoreLabels, PackLabels
    <3>4. ASSUME announced[f] # None PROVE WorkAt(h, f)'
      <4>1. Known(f) /\ Settled(f)
        BY <2>1, <3>4 DEF WorkAt, DownloadAt, DownloadLabels, RestoreLabels
      <4>2. Known(f)' /\ Settled(f)'  BY <4>1, SettledKept DEF KeptFile, Known
      <4>3. row'[f] = row[f] /\ announced'[f] = announced[f] /\ row[f].etag \in ETags[announced[f]]
        BY <4>1 DEF Known
      <4>4. DownloadAt(h, f)'
        BY <3>1, <3>2, <4>2, <4>3
            DEF DownloadAt, UploadLabels, DownloadLabels, RestoreLabels, PackLabels
      <4> QED  BY <2>1, <2>4, <3>1, <3>4, <4>4
          DEF WorkAt, UploadLabels, DownloadLabels, RestoreLabels, PackLabels
    <3> QED  BY <2>1, <2>2, <2>4, <3>3, <3>4, Works
        DEF Labels, UploadLabels, DownloadLabels, RestoreLabels, PackLabels
  <2> QED  BY <2>3, <2>4
<1>2. ASSUME UnpackSize(h) PROVE Orderly'
  <2> USE <1>2 DEF UnpackSize
  <2>1. PICK f \in Files : f = file[h] /\ ~AtRest(h) /\ WorkAt(h, f)
    BY Owner DEF AtRest, RestLabels, Orderly
  <2>2. pc'[h] = "d_pbegin"  BY DEF Typed, Control
  <2>3. KeptBut(f)  BY <2>1 DEF KeptBut, KeptFile
  <2>4. WorkAt(h, f)'
    <3>1. CASE announced[f] = None
      BY <2>1, <2>2, <3>1
          DEF WorkAt, UnknownAt, Unkilled, UploadLabels, DownloadLabels, RestoreLabels,
              PackLabels
    <3>2. CASE announced[f] # None
      <4>1. DownloadAt(h, f)  BY <2>1, <3>2 DEF WorkAt, DownloadLabels, RestoreLabels
      <4>2. seen'[h] = Size(disk[PackOf(f)])  BY <2>1 DEF GetSize, Typed, Memory
      <4> QED
        BY <2>1, <2>2, <3>2, <4>1, <4>2
            DEF WorkAt, DownloadAt, Known, Settled, Unkilled, Size, UploadLabels,
                DownloadLabels, RestoreLabels, PackLabels
    <3> QED  BY <3>1, <3>2
  <2> QED  BY <2>1, <2>3, <2>4, Works
      DEF Labels, UploadLabels, DownloadLabels, RestoreLabels, PackLabels
<1>3. ASSUME UnpackRead(h) PROVE Orderly'
  <2> USE <1>3 DEF UnpackRead
  <2>1. PICK f \in Files : f = file[h] /\ ~AtRest(h) /\ WorkAt(h, f)
    BY Owner DEF AtRest, RestLabels, Orderly
  <2>2. pc'[h] = "d_open" \/ pc'[h] = "d_remove"  BY DEF Typed, Control
  <2>3. KeptBut(f)  BY <2>1 DEF KeptBut, KeptFile
  <2>4. WorkAt(h, f)'
    <3>1. CASE announced[f] = None
      BY <2>1, <2>2, <3>1
          DEF Returned, Typed, Reading, WorkAt, UnknownAt, Unkilled, UploadLabels, DownloadLabels, RestoreLabels,
              PackLabels
    <3>2. CASE announced[f] # None
      <4>1. DownloadAt(h, f)  BY <2>1, <3>2 DEF WorkAt, DownloadLabels, RestoreLabels
      <4>2. /\ disk[PackOf(f)] = Archive(announced[f]) /\ seen[h] = "some" /\ kept[h] = None
            /\ announced[f] \in Versions
        BY <2>1, <3>2, <4>1 DEF WorkAt, DownloadAt, Typed, Tables
      <4>3. Good(h, PackOf(f)) /\ Unpack(Read(h, PackOf(f))) = announced[f]
        BY <4>2 DEF Good, Read, Source, Size, Unpack, Archive
      <4>4. pc'[h] = "d_open" /\ body'[h] = announced[f] /\ kept'[h] = None
        BY <2>1, <4>3 DEF Typed, Control, Memory, Reading, Returned
      <4>5. Settled(f)'  BY <4>1, <2>1, SettledKept DEF DownloadAt, KeptFile
      <4> QED  BY <2>1, <3>2, <4>1, <4>2, <4>4, <4>5
        DEF WorkAt, DownloadAt, Known, UploadLabels, DownloadLabels, RestoreLabels, PackLabels
    <3> QED  BY <3>1, <3>2
  <2> QED  BY <2>1, <2>3, <2>4, Works
      DEF Labels, UploadLabels, DownloadLabels, RestoreLabels, PackLabels
<1>4. ASSUME UnpackOpen(h) PROVE Orderly'
  <2> USE <1>4 DEF UnpackOpen
  <2>1. PICK f \in Files : f = file[h] /\ ~AtRest(h) /\ WorkAt(h, f)
    BY Owner DEF AtRest, RestLabels, Orderly
  <2>2. pc'[h] = "d_write"  BY DEF Typed, Control
  <2>3. KeptBut(f)  BY <2>1, PathFacts, OpenEffect DEF KeptBut, KeptFile
  <2>4. WorkAt(h, f)'
    <3>0. open'[h] = Real(f)  BY <2>1, PathFacts, OpenEffect
    <3>1. CASE announced[f] = None
      BY <2>1, <2>2, <3>1, <3>0
          DEF WorkAt, UnknownAt, Unkilled, UploadLabels, DownloadLabels, RestoreLabels,
              PackLabels
    <3>2. CASE announced[f] # None
      <4>1. DownloadAt(h, f)  BY <2>1, <3>2 DEF WorkAt, DownloadLabels, RestoreLabels
      <4>2. disk'[PackOf(f)] = disk[PackOf(f)]
        BY <2>1, PathFacts, OpenEffect
      <4> QED
        BY <2>1, <2>2, <3>2, <4>1, <4>2, <3>0
            DEF WorkAt, DownloadAt, Known, Settled, Unkilled, UploadLabels,
                DownloadLabels, RestoreLabels, PackLabels
    <3> QED  BY <3>1, <3>2
  <2> QED  BY <2>1, <2>3, <2>4, Works
      DEF Labels, UploadLabels, DownloadLabels, RestoreLabels, PackLabels
<1>5. ASSUME UnpackWrite(h) PROVE Orderly'
  <2> USE <1>5 DEF UnpackWrite
  <2>1. PICK f \in Files : f = file[h] /\ ~AtRest(h) /\ WorkAt(h, f)
    BY Owner DEF AtRest, RestLabels, Orderly
  <2>2. pc'[h] = "d_remove"  BY DEF Typed, Control
  <2>3. KeptBut(f)  BY <2>1, PathFacts, WriteEffect DEF KeptBut, KeptFile, WorkAt
  <2>4. WorkAt(h, f)'
    <3>1. CASE announced[f] = None
      BY <2>1, <2>2, <3>1
          DEF WorkAt, UnknownAt, Unkilled, UploadLabels, DownloadLabels, RestoreLabels,
              PackLabels
    <3>2. CASE announced[f] # None
      <4>1. DownloadAt(h, f)  BY <2>1, <3>2 DEF WorkAt, DownloadLabels, RestoreLabels
      <4>2. open[h] = Real(f)  BY <2>1 DEF WorkAt
      <4>3. disk'[Real(f)] = body[h] /\ disk'[PackOf(f)] = disk[PackOf(f)]
        BY <2>1, <4>2, PathFacts, WriteEffect
      <4> QED
        BY <2>1, <2>2, <3>2, <4>1, <4>2, <4>3
            DEF WorkAt, DownloadAt, Known, Settled, Unkilled, UploadLabels,
                DownloadLabels, RestoreLabels, PackLabels
    <3> QED  BY <3>1, <3>2
  <2> QED  BY <2>1, <2>3, <2>4, Works
      DEF Labels, UploadLabels, DownloadLabels, RestoreLabels, PackLabels
<1>6. ASSUME UnpackRemove(h) PROVE Orderly'
  <2> USE <1>6 DEF UnpackRemove
  <2>1. PICK f \in Files : f = file[h] /\ ~AtRest(h) /\ WorkAt(h, f)
    BY Owner DEF AtRest, RestLabels, Orderly
  <2>2. pc'[h] = "d_update"  BY DEF Typed, Control
  <2>3. KeptBut(f)  BY <2>1, PathFacts, RemoveEffect DEF KeptBut, KeptFile
  <2>4. WorkAt(h, f)'
    <3>0. kept'[h] = kept[h]
      BY <2>1, RemoveKept DEF ReadLabels, PackReads, RealReads
    <3>1. CASE announced[f] = None
      BY <2>1, <2>2, <3>1, <3>0
          DEF WorkAt, UnknownAt, Unkilled, UploadLabels, DownloadLabels, RestoreLabels,
              PackLabels
    <3>2. CASE announced[f] # None
      <4>1. DownloadAt(h, f)  BY <2>1, <3>2 DEF WorkAt, DownloadLabels, RestoreLabels
      <4>2. disk'[PackOf(f)] = Absent /\ disk'[Real(f)] = disk[Real(f)]
        BY <2>1, PathFacts, RemoveEffect
      <4> QED
        BY <2>1, <2>2, <3>2, <4>1, <4>2, <3>0
            DEF WorkAt, DownloadAt, Known, Settled, Unkilled, UploadLabels,
                DownloadLabels, RestoreLabels, PackLabels
    <3> QED  BY <3>1, <3>2
  <2> QED  BY <2>1, <2>3, <2>4, Works
      DEF Labels, UploadLabels, DownloadLabels, RestoreLabels, PackLabels
<1>7. ASSUME UnpackUpdate(h) PROVE Orderly'
  <2> USE <1>7 DEF UnpackUpdate
  <2>1. PICK f \in Files : f = file[h] /\ ~AtRest(h) /\ WorkAt(h, f)
    BY Owner DEF AtRest, RestLabels, Orderly
  <2>2. pc'[h] = "d_size"  BY DEF Typed, Control
  <2>3. KeptBut(f)  BY <2>1, UpdataRow DEF KeptBut, KeptFile
  <2>4. WorkAt(h, f)'
    <3>1. CASE announced[f] = None
      BY <2>1, <2>2, <3>1
          DEF WorkAt, UnknownAt, Unkilled, UploadLabels, DownloadLabels, RestoreLabels,
              PackLabels
    <3>2. CASE announced[f] # None
      <4>1. DownloadAt(h, f)  BY <2>1, <3>2 DEF WorkAt, DownloadLabels, RestoreLabels
      <4>2. Updata(f, FALSE) /\ row[f] # None
        <5>1. row[f] # None  BY <4>1 DEF DownloadAt, Known
        <5>2. Updata(f, FALSE)  BY <2>1 DEF Updata
        <5> QED  BY <5>1, <5>2
      <4>3. row'[f] # None /\ row'[f].pack_flag = FALSE /\ row'[f].etag = row[f].etag
        BY <4>2, UpdataRow
      <4> QED
        BY <2>1, <2>2, <3>2, <4>1, <4>3
            DEF WorkAt, DownloadAt, Known, Settled, Unkilled, UploadLabels,
                DownloadLabels, RestoreLabels, PackLabels
    <3> QED  BY <3>1, <3>2
  <2> QED  BY <2>1, <2>3, <2>4, Works
      DEF Labels, UploadLabels, DownloadLabels, RestoreLabels, PackLabels
<1>8. ASSUME ServeSize(h) PROVE Orderly'
  <2> USE <1>8 DEF ServeSize
  <2>1. PICK f \in Files : f = file[h] /\ ~AtRest(h) /\ WorkAt(h, f)
    BY Owner DEF AtRest, RestLabels, Orderly
  <2>2. pc'[h] = "d_begin"  BY DEF Typed, Control
  <2>3. KeptBut(f)  BY <2>1 DEF KeptBut, KeptFile
  <2>4. WorkAt(h, f)'
    <3>1. CASE announced[f] = None
      BY <2>1, <2>2, <3>1
          DEF WorkAt, UnknownAt, Unkilled, UploadLabels, DownloadLabels, RestoreLabels,
              PackLabels
    <3>2. CASE announced[f] # None
      <4>1. DownloadAt(h, f)  BY <2>1, <3>2 DEF WorkAt, DownloadLabels, RestoreLabels
      <4>2. seen'[h] = Size(disk[Real(f)])  BY <2>1 DEF GetSize, Typed, Memory
      <4> QED
        BY <2>1, <2>2, <3>2, <4>1, <4>2
            DEF WorkAt, DownloadAt, Known, Settled, Unkilled, Size, UploadLabels,
                DownloadLabels, RestoreLabels, PackLabels
    <3> QED  BY <3>1, <3>2
  <2> QED  BY <2>1, <2>3, <2>4, Works
      DEF Labels, UploadLabels, DownloadLabels, RestoreLabels, PackLabels
<1>9. ASSUME ServeRead(h) PROVE Orderly'
  <2> USE <1>9 DEF ServeRead
  <2>1. PICK f \in Files : f = file[h] /\ ~AtRest(h) /\ WorkAt(h, f)
    BY Owner DEF AtRest, RestLabels, Orderly
  <2>2. KeptBut(f)  BY <2>1 DEF KeptBut, KeptFile
  <2>3. Settled(f)'
    BY <2>1
        DEF WorkAt, UnknownAt, DownloadAt, Settled, Known, Untouched, Unkilled,
            UploadLabels, DownloadLabels, RestoreLabels, PackLabels
  <2> QED  BY <2>1, <2>2, <2>3, Ends DEF Serve, Answer, Forget, RestLabels
<1>10. ASSUME UnpackBegin(h) PROVE Orderly'
  <2> USE <1>10 DEF UnpackBegin
  <2>1. PICK f \in Files : f = file[h] /\ ~AtRest(h) /\ WorkAt(h, f)
    BY Owner DEF AtRest, RestLabels, Orderly
  <2>2. KeptBut(f)  BY <2>1 DEF KeptBut, KeptFile
  <2>3. Settled(f) => Settled(f)'  BY <2>1, SettledKept DEF KeptFile
  <2>4. announced[f] # None => DownloadAt(h, f) /\ Settled(f) /\ row[f].pack_flag
    BY <2>1 DEF WorkAt, DownloadAt, DownloadLabels, RestoreLabels
  <2>5. CASE disk[PackOf(f)] = Absent
    <3>1. pc'[h] = "d_remove" /\ kept'[h] = None
      BY <2>1, <2>5 DEF Typed, Control, Reading, Returned
    <3>2. announced[f] # None => disk[Real(f)] = announced[f]
      BY <2>4, <2>5 DEF Settled, Typed, Tables
    <3>3. WorkAt(h, f)'
      BY <2>1, <2>4, <2>5, <3>1, <3>2
          DEF WorkAt, UnknownAt, Unkilled, DownloadAt, Known, UploadLabels, DownloadLabels,
              RestoreLabels, PackLabels
    <3> QED  BY <2>1, <2>2, <2>5, <3>3, Works
        DEF Labels, UploadLabels, DownloadLabels, RestoreLabels, PackLabels
  <2>6. CASE disk[PackOf(f)] # Absent
    <3>1. pc'[h] = "d_pcheck" /\ kept' = kept /\ seen' = seen
      BY <2>1, <2>6 DEF Typed, Control
    <3>2. announced[f] # None => disk[PackOf(f)] = Archive(announced[f])
      BY <2>4, <2>6 DEF Settled
    <3>3. announced[f] # None => announced[f] \in Versions  BY DEF Typed, Tables
    <3>4. announced[f] # None => seen[h] = "some"
      BY <2>4, <3>2, <3>3 DEF DownloadAt, Size
    <3>5. WorkAt(h, f)'
      BY <2>1, <2>3, <2>4, <3>1, <3>2, <3>4
          DEF WorkAt, UnknownAt, Unkilled, DownloadAt, Known, UploadLabels, DownloadLabels,
              RestoreLabels, PackLabels
    <3> QED  BY <2>1, <2>2, <2>6, <3>5, Works
        DEF Labels, UploadLabels, DownloadLabels, RestoreLabels, PackLabels
  <2> QED  BY <2>5, <2>6
<1>11. ASSUME UnpackCheck(h) PROVE Orderly'
  <2> USE <1>11 DEF UnpackCheck
  <2>1. PICK f \in Files : f = file[h] /\ ~AtRest(h) /\ WorkAt(h, f)
    BY Owner DEF AtRest, RestLabels, Orderly
  <2>2. KeptBut(f)  BY <2>1 DEF KeptBut, KeptFile
  <2>3. Settled(f) => Settled(f)'  BY <2>1, SettledKept DEF KeptFile
  <2>4. announced[f] # None => DownloadAt(h, f) /\ Settled(f) /\ Fits(h, PackOf(f))
    <3>1. announced[f] # None => announced[f] \in Versions  BY DEF Typed, Tables
    <3> QED  BY <2>1, <3>1 DEF WorkAt, DownloadAt, DownloadLabels, RestoreLabels, Fits
  <2>5. announced[f] = None => ~Unkilled
    BY <2>1 DEF WorkAt, UnknownAt, DownloadLabels, RestoreLabels
  <2>6. CASE Fits(h, PackOf(f))
    <3>1. /\ pc' = [pc EXCEPT ![h] = "d_pread"] /\ pc'[h] = "d_pread"
          /\ UNCHANGED <<file, seen, kept, body, info>>
      BY <2>1, <2>6 DEF Fits, Throws, Typed, Control
    <3>2. WorkAt(h, f)'
      BY <2>1, <2>3, <2>4, <2>5, <3>1
          DEF WorkAt, UnknownAt, Unkilled, DownloadAt, Known, UploadLabels, DownloadLabels,
              RestoreLabels, PackLabels
    <3> QED  BY <2>1, <2>2, <3>1, <3>2, Works
        DEF Labels, UploadLabels, DownloadLabels, RestoreLabels, PackLabels
  <2>7. CASE ~Fits(h, PackOf(f)) /\ Throws(h, PackOf(f))
    <3>1. pc' = [pc EXCEPT ![h] = "idle"] /\ Fail(h)  BY <2>1, <2>7
    <3>2. Settled(f)'  BY <2>4, <2>5, <2>7 DEF Settled, Unkilled
    <3> QED  BY <2>1, <2>2, <3>1, <3>2, Ends DEF Fail, Answer, Forget, RestLabels
  <2>8. CASE ~Fits(h, PackOf(f)) /\ ~Throws(h, PackOf(f))
    <3>1. /\ pc' = [pc EXCEPT ![h] = "d_remove"] /\ pc'[h] = "d_remove" /\ kept'[h] = None
          /\ UNCHANGED <<file, body, info>>
      BY <2>1, <2>8 DEF Typed, Control, Reading, Returned
    <3>2. WorkAt(h, f)'
      BY <2>4, <2>5, <2>8, <3>1
          DEF WorkAt, UnknownAt, Unkilled, UploadLabels, DownloadLabels, RestoreLabels,
              PackLabels
    <3> QED  BY <2>1, <2>2, <3>1, <3>2, Works
        DEF Labels, UploadLabels, DownloadLabels, RestoreLabels, PackLabels
  <2> QED  BY <2>6, <2>7, <2>8
<1>12. ASSUME ServeBegin(h) PROVE Orderly'
  <2> USE <1>12 DEF ServeBegin
  <2>1. PICK f \in Files : f = file[h] /\ ~AtRest(h) /\ WorkAt(h, f)
    BY Owner DEF AtRest, RestLabels, Orderly
  <2>2. KeptBut(f)  BY <2>1 DEF KeptBut, KeptFile
  <2>3. Settled(f) => Settled(f)'  BY <2>1, SettledKept DEF KeptFile
  <2>4. Settled(f) /\ (announced[f] # None => DownloadAt(h, f))
    BY <2>1 DEF WorkAt, UnknownAt, DownloadAt, Settled, Unkilled, DownloadLabels, RestoreLabels
  <2>5. CASE disk[Real(f)] = Absent
    BY <2>1, <2>2, <2>3, <2>4, <2>5, Ends DEF Serve, Answer, Forget, RestLabels
  <2>6. CASE disk[Real(f)] # Absent
    <3>1. pc'[h] = "d_check" /\ kept' = kept /\ seen' = seen
      BY <2>1, <2>6 DEF Typed, Control
    <3>2. announced[f] # None => disk[Real(f)] = announced[f]  BY <2>4, <2>6 DEF Settled
    <3>3. announced[f] # None => announced[f] \in Versions  BY DEF Typed, Tables
    <3>4. announced[f] # None => seen[h] = "some"
      BY <2>4, <3>2, <3>3 DEF DownloadAt, Size, Bodies
    <3>5. WorkAt(h, f)'
      BY <2>1, <2>3, <2>4, <2>6, <3>1, <3>2, <3>4
          DEF WorkAt, UnknownAt, Unkilled, DownloadAt, Known, UploadLabels, DownloadLabels,
              RestoreLabels, PackLabels
    <3> QED  BY <2>1, <2>2, <2>6, <3>5, Works
        DEF Labels, UploadLabels, DownloadLabels, RestoreLabels, PackLabels
  <2> QED  BY <2>5, <2>6
<1>13. ASSUME ServeCheck(h) PROVE Orderly'
  <2> USE <1>13 DEF ServeCheck
  <2>1. PICK f \in Files : f = file[h] /\ ~AtRest(h) /\ WorkAt(h, f)
    BY Owner DEF AtRest, RestLabels, Orderly
  <2>2. KeptBut(f)  BY <2>1 DEF KeptBut, KeptFile
  <2>3. Settled(f) => Settled(f)'  BY <2>1, SettledKept DEF KeptFile
  <2>4. Settled(f) /\ (announced[f] # None => DownloadAt(h, f))
    BY <2>1 DEF WorkAt, UnknownAt, DownloadAt, Settled, Unkilled, DownloadLabels, RestoreLabels
  <2>5. CASE Fits(h, Real(f))
    <3>1. /\ pc' = [pc EXCEPT ![h] = "d_read"] /\ pc'[h] = "d_read"
          /\ UNCHANGED <<file, seen, kept, body, info>>
      BY <2>1, <2>5 DEF Fits, Throws, Typed, Control
    <3>2. WorkAt(h, f)'
      BY <2>1, <2>3, <2>4, <3>1
          DEF WorkAt, UnknownAt, Unkilled, DownloadAt, Known, UploadLabels, DownloadLabels,
              RestoreLabels, PackLabels
    <3> QED  BY <2>1, <2>2, <3>1, <3>2, Works
        DEF Labels, UploadLabels, DownloadLabels, RestoreLabels, PackLabels
  <2>6. CASE ~Fits(h, Real(f))
    <3>1. pc' = [pc EXCEPT ![h] = "idle"] /\ Forget(h)
      BY <2>1, <2>6 DEF Serve, Fail, Answer
    <3> QED  BY <2>1, <2>2, <2>3, <2>4, <3>1, Ends DEF Forget, RestLabels
  <2> QED  BY <2>5, <2>6
<1> QED  BY <1>1, <1>2, <1>3, <1>4, <1>5, <1>6, <1>7, <1>8, <1>9, <1>10, <1>11, <1>12, <1>13
    DEF Download

LEMMA HotOrderly ==
  ASSUME SafeDisk, Typed, FilesApart, FilesApart', Orderly, RunModule
  PROVE  Orderly'
<1> USE NamesAssumption DEF SafeDisk, Goto
<1> Hot \in Threads  BY DEF Threads
<1> Undisturbed(Hot)  BY HotAlone
<1>1. ASSUME HotList PROVE Orderly'
  <2> USE <1>1 DEF HotList
  <2>1. \A u \in Threads : pc'[u] = pc[u] \/ (AtRest(u) /\ AtRest(u)')
    BY DEF AtRest, RestLabels, Typed, Control
  <2> QED  BY <2>1, Rests
<1>2. ASSUME HotDone PROVE Orderly'
  <2> USE <1>2 DEF HotDone
  <2>1. \A u \in Threads : pc'[u] = pc[u] \/ (AtRest(u) /\ AtRest(u)')
    BY DEF AtRest, RestLabels, Typed, Control
  <2> QED  BY <2>1, Rests
<1>3. ASSUME NEW f \in Files, HotSkip(f) PROVE Orderly'
  <2> USE <1>3 DEF HotSkip
  <2>1. \A u \in Threads : pc'[u] = pc[u] \/ (AtRest(u) /\ AtRest(u)')
    BY DEF AtRest, RestLabels, Typed, Control
  <2> QED  BY <2>1, Rests
<1>4. ASSUME NEW f \in Files, HotPick(f) PROVE Orderly'
  <2> USE <1>4 DEF HotPick
  <2>1. AtRest(Hot)  BY DEF AtRest, RestLabels
  <2>2. KeptBut(f)  BY DEF KeptBut, KeptFile, Typed, Tables
  <2>3. pc'[Hot] = "h_row"  BY DEF Typed, Control
  <2>4. WorkAt(Hot, f)'
    <3>1. Settled(f)  BY <2>1, Free DEF Orderly
    <3>2. Settled(f)'  BY <3>1, SettledKept DEF KeptFile
    <3> QED  BY <2>1, <2>3, <3>2, RestKept
        DEF WorkAt, UnknownAt, PackAt, Settled, Untouched, Unkilled, UploadLabels,
            DownloadLabels, RestoreLabels, PackLabels
  <2> QED  BY <2>1, <2>2, <2>4, Begins
      DEF Labels, UploadLabels, DownloadLabels, RestoreLabels, PackLabels
<1>5. ASSUME HotRow PROVE Orderly'
  <2> USE <1>5 DEF HotRow
  <2>1. PICK f \in Files : f = file[Hot] /\ ~AtRest(Hot) /\ WorkAt(Hot, f)
    BY Owner DEF AtRest, RestLabels, Orderly
  <2>2. pc'[Hot] = "h_size"  BY DEF Typed, Control
  <2>3. KeptBut(f)  BY <2>1 DEF KeptBut, KeptFile
  <2>4. WorkAt(Hot, f)'
    <3>0. info'[Hot] = row[f]  BY <2>1 DEF Typed, Memory
    <3>1. CASE announced[f] = None
      BY <2>1, <2>2, <3>1, <3>0
          DEF WorkAt, UnknownAt, Untouched, Unkilled, UploadLabels, DownloadLabels,
              RestoreLabels, PackLabels
    <3>2. CASE announced[f] # None
      <4>1. PackAt(Hot, f)  BY <2>1, <3>2 DEF WorkAt, PackLabels
      <4> QED
        BY <2>1, <2>2, <3>2, <4>1, <3>0
            DEF WorkAt, PackAt, Known, Settled, Unkilled, UploadLabels, DownloadLabels,
                RestoreLabels, PackLabels
    <3> QED  BY <3>1, <3>2
  <2> QED  BY <2>1, <2>3, <2>4, Works
      DEF Labels, UploadLabels, DownloadLabels, RestoreLabels, PackLabels
<1>6. ASSUME HotSize PROVE Orderly'
  <2> USE <1>6 DEF HotSize
  <2>1. PICK f \in Files : f = file[Hot] /\ ~AtRest(Hot) /\ WorkAt(Hot, f)
    BY Owner DEF AtRest, RestLabels, Orderly
  <2>2. pc'[Hot] = "h_begin"  BY DEF Typed, Control
  <2>3. KeptBut(f)  BY <2>1 DEF KeptBut, KeptFile
  <2>4. WorkAt(Hot, f)'
    <3>0. seen'[Hot] = Size(disk[Real(f)])  BY <2>1 DEF GetSize, Typed, Memory
    <3>1. CASE announced[f] = None
      BY <2>1, <2>2, <3>1, <3>0
          DEF WorkAt, UnknownAt, Untouched, Unkilled, Size, UploadLabels, DownloadLabels,
              RestoreLabels, PackLabels
    <3>2. CASE announced[f] # None
      <4>1. PackAt(Hot, f)  BY <2>1, <3>2 DEF WorkAt, PackLabels
      <4> QED
        BY <2>1, <2>2, <3>2, <4>1, <3>0
            DEF WorkAt, PackAt, Known, Settled, Unkilled, UploadLabels, DownloadLabels,
                RestoreLabels, PackLabels
    <3> QED  BY <3>1, <3>2
  <2> QED  BY <2>1, <2>3, <2>4, Works
      DEF Labels, UploadLabels, DownloadLabels, RestoreLabels, PackLabels
<1>7. ASSUME HotRead PROVE Orderly'
  <2> USE <1>7 DEF HotRead
  <2>1. PICK f \in Files : f = file[Hot] /\ ~AtRest(Hot) /\ WorkAt(Hot, f)
    BY Owner DEF AtRest, RestLabels, Orderly
  <2>2. (pc'[Hot] = "h_open" \/ pc'[Hot] = "h_remove") /\ kept'[Hot] = None
    BY DEF Typed, Control, Reading, Returned
  <2>3. KeptBut(f)  BY <2>1 DEF KeptBut, KeptFile
  <2>4. WorkAt(Hot, f)'
    <3>1. CASE announced[f] = None
      BY <2>1, <2>2, <3>1
          DEF WorkAt, UnknownAt, Unkilled, UploadLabels, DownloadLabels, RestoreLabels,
              PackLabels
    <3>2. CASE announced[f] # None
      <4>1. PackAt(Hot, f)  BY <2>1, <3>2 DEF WorkAt, PackLabels
      <4>2. /\ Settled(f) /\ Known(f) /\ info[Hot] # None /\ announced[f] \in Versions
            /\ disk[Real(f)] = announced[f] /\ seen[Hot] = "some" /\ kept[Hot] = None
        BY <2>1, <3>2, <4>1 DEF WorkAt, PackAt, Typed, Tables
      <4>3. Good(Hot, Real(f)) /\ Pack(Read(Hot, Real(f))) = Archive(announced[f])
        BY <4>2 DEF Good, Read, Source, Size, Pack
      <4>4. pc'[Hot] = "h_open" /\ body'[Hot] = Archive(announced[f])
        BY <2>1, <4>2, <4>3 DEF Typed, Control, Memory
      <4>5. Settled(f)'  BY <4>2, SettledKept DEF KeptFile
      <4> QED  BY <2>1, <2>2, <3>2, <4>2, <4>4, <4>5
          DEF WorkAt, PackAt, Known, UploadLabels, DownloadLabels, RestoreLabels, PackLabels
    <3> QED  BY <3>1, <3>2
  <2> QED  BY <2>1, <2>3, <2>4, Works
      DEF Labels, UploadLabels, DownloadLabels, RestoreLabels, PackLabels
<1>8. ASSUME HotOpen PROVE Orderly'
  <2> USE <1>8 DEF HotOpen
  <2>1. PICK f \in Files : f = file[Hot] /\ ~AtRest(Hot) /\ WorkAt(Hot, f)
    BY Owner DEF AtRest, RestLabels, Orderly
  <2>2. pc'[Hot] = "h_write"  BY DEF Typed, Control
  <2>3. KeptBut(f)  BY <2>1, PathFacts, OpenEffect DEF KeptBut, KeptFile
  <2>4. WorkAt(Hot, f)'
    <3>0. open'[Hot] = PackOf(f) /\ disk'[Real(f)] = disk[Real(f)]
      BY <2>1, PathFacts, OpenEffect
    <3>1. CASE announced[f] = None
      BY <2>1, <2>2, <3>1, <3>0
          DEF WorkAt, UnknownAt, Untouched, Unkilled, UploadLabels, DownloadLabels,
              RestoreLabels, PackLabels
    <3>2. CASE announced[f] # None
      <4>1. PackAt(Hot, f)  BY <2>1, <3>2 DEF WorkAt, PackLabels
      <4> QED
        BY <2>1, <2>2, <3>2, <4>1, <3>0
            DEF WorkAt, PackAt, Known, Settled, Unkilled, UploadLabels, DownloadLabels,
                RestoreLabels, PackLabels
    <3> QED  BY <3>1, <3>2
  <2> QED  BY <2>1, <2>3, <2>4, Works
      DEF Labels, UploadLabels, DownloadLabels, RestoreLabels, PackLabels
<1>9. ASSUME HotWrite PROVE Orderly'
  <2> USE <1>9 DEF HotWrite
  <2>1. PICK f \in Files : f = file[Hot] /\ ~AtRest(Hot) /\ WorkAt(Hot, f)
    BY Owner DEF AtRest, RestLabels, Orderly
  <2>2. pc'[Hot] = "h_remove"  BY DEF Typed, Control
  <2>3. KeptBut(f)  BY <2>1, PathFacts, WriteEffect DEF KeptBut, KeptFile, WorkAt
  <2>4. WorkAt(Hot, f)'
    <3>0. disk'[PackOf(f)] = body[Hot] /\ disk'[Real(f)] = disk[Real(f)]
      <4>1. open[Hot] = PackOf(f)  BY <2>1 DEF WorkAt
      <4> QED  BY <2>1, <4>1, PathFacts, WriteEffect
    <3>1. CASE announced[f] = None
      BY <2>1, <2>2, <3>1, <3>0
          DEF WorkAt, UnknownAt, Untouched, Unkilled, UploadLabels, DownloadLabels,
              RestoreLabels, PackLabels
    <3>2. CASE announced[f] # None
      <4>1. PackAt(Hot, f)  BY <2>1, <3>2 DEF WorkAt, PackLabels
      <4> QED
        BY <2>1, <2>2, <3>2, <4>1, <3>0
            DEF WorkAt, PackAt, Known, Settled, Unkilled, UploadLabels, DownloadLabels,
                RestoreLabels, PackLabels
    <3> QED  BY <3>1, <3>2
  <2> QED  BY <2>1, <2>3, <2>4, Works
      DEF Labels, UploadLabels, DownloadLabels, RestoreLabels, PackLabels
<1>10. ASSUME HotRemove PROVE Orderly'
  <2> USE <1>10 DEF HotRemove
  <2>1. PICK f \in Files : f = file[Hot] /\ ~AtRest(Hot) /\ WorkAt(Hot, f)
    BY Owner DEF AtRest, RestLabels, Orderly
  <2>2. pc'[Hot] = "h_update"  BY DEF Typed, Control
  <2>3. KeptBut(f)  BY <2>1, PathFacts, RemoveEffect DEF KeptBut, KeptFile
  <2>4. WorkAt(Hot, f)'
    <3>0. /\ disk'[Real(f)] = Absent /\ disk'[PackOf(f)] = disk[PackOf(f)]
          /\ kept'[Hot] = kept[Hot]
      BY <2>1, PathFacts, RemoveEffect, RemoveKept DEF ReadLabels, PackReads, RealReads
    <3>1. CASE announced[f] = None
      BY <2>1, <2>2, <3>1, <3>0
          DEF WorkAt, UnknownAt, Untouched, Unkilled, UploadLabels, DownloadLabels,
              RestoreLabels, PackLabels
    <3>2. CASE announced[f] # None
      <4>1. PackAt(Hot, f)  BY <2>1, <3>2 DEF WorkAt, PackLabels
      <4> QED
        BY <2>1, <2>2, <3>2, <4>1, <3>0
            DEF WorkAt, PackAt, Known, Settled, Unkilled, UploadLabels, DownloadLabels,
                RestoreLabels, PackLabels
    <3> QED  BY <3>1, <3>2
  <2> QED  BY <2>1, <2>3, <2>4, Works
      DEF Labels, UploadLabels, DownloadLabels, RestoreLabels, PackLabels
<1>11. ASSUME HotUpdate PROVE Orderly'
  <2> USE <1>11 DEF HotUpdate
  <2>1. PICK f \in Files : f = file[Hot] /\ ~AtRest(Hot) /\ WorkAt(Hot, f)
    BY Owner DEF AtRest, RestLabels, Orderly
  <2>2. KeptBut(f)  BY <2>1, UpdataRow DEF KeptBut, KeptFile
  <2>3. Settled(f)'
    <3>1. CASE announced[f] = None
      BY <2>1, <3>1
          DEF WorkAt, UnknownAt, Untouched, Settled, Unkilled, UploadLabels,
              DownloadLabels, RestoreLabels, PackLabels
    <3>2. CASE announced[f] # None
      <4>1. PackAt(Hot, f)  BY <2>1, <3>2 DEF WorkAt, PackLabels
      <4>2. Updata(f, TRUE) /\ row[f] # None  BY <2>1, <4>1 DEF PackAt, Known
      <4>3. row'[f] # None /\ row'[f].pack_flag = TRUE /\ row'[f].etag = row[f].etag
        BY <4>2, UpdataRow
      <4> QED  BY <3>2, <4>1, <4>3 DEF PackAt, Known, Settled, Unkilled
    <3> QED  BY <3>1, <3>2
  <2> QED  BY <2>1, <2>2, <2>3, Ends DEF Forget, RestLabels
<1>12. ASSUME HotBegin PROVE Orderly'
  <2> USE <1>12 DEF HotBegin
  <2>1. PICK f \in Files : f = file[Hot] /\ ~AtRest(Hot) /\ WorkAt(Hot, f)
    BY Owner DEF AtRest, RestLabels, Orderly
  <2>2. KeptBut(f)  BY <2>1 DEF KeptBut, KeptFile
  <2>3. Settled(f) => Settled(f)'  BY <2>1, SettledKept DEF KeptFile
  <2>4. announced[f] # None => PackAt(Hot, f) /\ Settled(f)
    BY <2>1 DEF WorkAt, PackAt, PackLabels
  <2>5. announced[f] = None /\ Unkilled => Untouched(f) /\ info[Hot] = None
    BY <2>1 DEF WorkAt, UnknownAt, PackLabels
  <2>6. CASE disk[Real(f)] = Absent
    <3>1. pc'[Hot] = "h_remove" /\ kept'[Hot] = None
      BY <2>1, <2>6 DEF Typed, Control, Reading, Returned
    <3>2. announced[f] # None => disk[PackOf(f)] = Archive(announced[f])
      BY <2>4, <2>6 DEF Settled, Typed, Tables
    <3>3. WorkAt(Hot, f)'
      BY <2>1, <2>4, <2>5, <2>6, <3>1, <3>2
          DEF WorkAt, UnknownAt, Untouched, Unkilled, PackAt, Known, UploadLabels,
              DownloadLabels, RestoreLabels, PackLabels
    <3> QED  BY <2>1, <2>2, <3>3, Works
        DEF Labels, UploadLabels, DownloadLabels, RestoreLabels, PackLabels
  <2>7. CASE disk[Real(f)] # Absent
    <3>1. pc'[Hot] = "h_check" /\ kept' = kept /\ seen' = seen
      BY <2>1, <2>7 DEF Typed, Control
    <3>2. announced[f] # None => disk[Real(f)] = announced[f]  BY <2>4, <2>7 DEF Settled
    <3>3. announced[f] # None => announced[f] \in Versions  BY DEF Typed, Tables
    <3>4. announced[f] # None => seen[Hot] = "some"
      BY <2>4, <3>2, <3>3 DEF PackAt, Size
    <3>5. WorkAt(Hot, f)'
      BY <2>1, <2>3, <2>4, <2>5, <2>7, <3>1, <3>2, <3>4
          DEF WorkAt, UnknownAt, Untouched, Unkilled, PackAt, Known, UploadLabels,
              DownloadLabels, RestoreLabels, PackLabels
    <3> QED  BY <2>1, <2>2, <3>5, Works
        DEF Labels, UploadLabels, DownloadLabels, RestoreLabels, PackLabels
  <2> QED  BY <2>6, <2>7
<1>13. ASSUME HotCheck PROVE Orderly'
  <2> USE <1>13 DEF HotCheck
  <2>1. PICK f \in Files : f = file[Hot] /\ ~AtRest(Hot) /\ WorkAt(Hot, f)
    BY Owner DEF AtRest, RestLabels, Orderly
  <2>2. KeptBut(f)  BY <2>1 DEF KeptBut, KeptFile
  <2>3. Settled(f) => Settled(f)'  BY <2>1, SettledKept DEF KeptFile
  <2>4. announced[f] # None => PackAt(Hot, f) /\ Fits(Hot, Real(f))
    <3>1. announced[f] # None => announced[f] \in Versions  BY DEF Typed, Tables
    <3> QED  BY <2>1, <3>1 DEF WorkAt, PackAt, PackLabels, Fits
  <2>5. announced[f] = None => ~Unkilled  BY <2>1 DEF WorkAt, UnknownAt, PackLabels
  <2>6. /\ pc'[Hot] = IF Fits(Hot, Real(f)) THEN "h_read" ELSE "h_remove"
        /\ kept'[Hot] = None
        /\ Fits(Hot, Real(f)) => seen' = seen
    BY <2>1 DEF WorkAt, Typed, Control, Reading, Returned
  <2>7. WorkAt(Hot, f)'
    BY <2>1, <2>3, <2>4, <2>5, <2>6
        DEF WorkAt, UnknownAt, Unkilled, PackAt, Known, UploadLabels,
            DownloadLabels, RestoreLabels, PackLabels
  <2> QED  BY <2>1, <2>2, <2>7, Works
      DEF Labels, UploadLabels, DownloadLabels, RestoreLabels, PackLabels
<1> QED  BY <1>1, <1>2, <1>3, <1>4, <1>5, <1>6, <1>7, <1>8, <1>9, <1>10, <1>11, <1>12, <1>13
    DEF RunModule

LEMMA NextOrderly ==
  ASSUME SafeDisk, Typed, FilesApart, FilesApart', Orderly, [Next]_vars
  PROVE  Orderly'
<1> USE NamesAssumption DEF SafeDisk, Goto
<1>1. ASSUME NEW h \in Handlers, NEW f \in Files, NEW c \in Copies \cup {None},
             StartDownload(h, f, c)
      PROVE  Orderly'
  <2> USE <1>1 DEF StartDownload
  <2> h \in Threads  BY DEF Threads
  <2> Undisturbed(h)  BY RequestAlone DEF Request
  <2>1. AtRest(h)  BY DEF AtRest, RestLabels
  <2>2. KeptBut(f)  BY DEF KeptBut, KeptFile, Typed, Tables
  <2>3. pc'[h] = "d_row"  BY DEF Typed, Control
  <2>4. WorkAt(h, f)'
    <3>1. Settled(f)  BY <2>1, Free DEF Orderly
    <3>2. Settled(f)'  BY <3>1, SettledKept DEF KeptFile
    <3> QED  BY <2>1, <2>3, <3>2, RestKept
        DEF WorkAt, UnknownAt, DownloadAt, Settled, Untouched, Unkilled, UploadLabels,
            DownloadLabels, RestoreLabels, PackLabels
  <2> QED  BY <2>1, <2>2, <2>4, Begins
      DEF Labels, UploadLabels, DownloadLabels, RestoreLabels, PackLabels
<1>2. ASSUME NEW f \in Files, Age(f) PROVE Orderly'  BY <1>2, Rests DEF Age
<1>3. ASSUME Crash PROVE Orderly'
  <2> USE <1>3 DEF Crash
  <2>1. \A t \in Threads : AtRest(t)' /\ pc[t] \notin {"d_write", "h_write"}
    BY DEF AtRest, RestLabels
  <2>2. ~Unkilled  BY DEF Unkilled, Threads
  <2>3. ASSUME NEW f \in Files PROVE Settled(f)
    <3>1. CASE \A t \in Threads : file[t] # f  BY <3>1 DEF Orderly
    <3>2. CASE \E t \in Threads : file[t] = f
      <4>1. PICK t \in Threads : file[t] = f  BY <3>2
      <4>2. WorkAt(t, f) /\ pc[t] \in UploadLabels \cup DownloadLabels \cup PackLabels
        BY <4>1, Owner DEF Orderly, AtRest, Labels, Typed, Control
      <4> QED
        BY <2>1, <2>2, <4>2 DEF WorkAt, UploadAt, DownloadAt, PackAt, Settled, Known,
             UploadLabels, DownloadLabels, RestoreLabels, PackLabels
    <3> QED  BY <3>1, <3>2
  <2>4. \A f \in Files : Settled(f)'  BY <2>3, SettledKept DEF KeptFile
  <2> QED  BY <2>1, <2>4 DEF Orderly
<1>4. CASE UNCHANGED vars  BY <1>4, Rests DEF vars
<1> QED
  BY <1>1, <1>2, <1>3, <1>4, UploadOrderly, DownloadOrderly, HotOrderly DEF Next, Request

LEMMA OrderlyAlways ==
  ASSUME SafeDisk PROVE Spec /\ []FilesApart => [](Typed /\ Orderly)
<1>1. Init => Typed /\ Orderly  BY InitTyped, InitOrderly
<1>2. Typed /\ Orderly /\ FilesApart /\ FilesApart' /\ [Next]_vars => Typed' /\ Orderly'
  BY NextTyped, NextOrderly
<1> QED  BY <1>1, <1>2, PTL DEF Spec

\* A server that is Serial keeps its files apart by itself.
OneWorks == \A t, u \in Threads : AtRest(t) \/ AtRest(u) \/ t = u

LEMMA OneWorksKept ==
  ASSUME OneWorks, NEW t \in Threads, \A u \in Threads \ {t} : pc'[u] = pc[u],
         AtRest(t)' \/ ~AtRest(t) \/ \A u \in Threads \ {t} : AtRest(u)
  PROVE  OneWorks'
BY DEF OneWorks, AtRest

LEMMA NextOneWorks ==
  ASSUME Serial, Typed, OneWorks, [Next]_vars PROVE OneWorks'
<1> USE DEF Goto
<1>1. ASSUME NEW h \in Handlers, Upload(h) PROVE OneWorks'
  <2>1. h \in Threads /\ \A u \in Threads \ {h} : pc'[u] = pc[u]
    BY <1>1, UploadAlone DEF Undisturbed, OthersKept, Threads
  <2>2. ~AtRest(h) \/ \A u \in Threads \ {h} : AtRest(u)
    BY <1>1 DEF Upload, StartUpload, UploadOpen, UploadWrite, UploadStat, UploadInsert,
         MayStart, AtRest, RestLabels
  <2> QED  BY <2>1, <2>2, OneWorksKept
<1>2. ASSUME NEW h \in Handlers, Download(h) PROVE OneWorks'
  <2>1. h \in Threads /\ \A u \in Threads \ {h} : pc'[u] = pc[u]
    BY <1>2, DownloadAlone DEF Undisturbed, OthersKept, Threads
  <2>2. ~AtRest(h)
    BY <1>2 DEF Download, DownloadRow, UnpackSize, UnpackBegin, UnpackCheck, UnpackRead,
         UnpackOpen, UnpackWrite, UnpackRemove, UnpackUpdate, ServeSize, ServeBegin, ServeCheck,
         ServeRead, AtRest, RestLabels
  <2> QED  BY <2>1, <2>2, OneWorksKept
<1>3. ASSUME NEW h \in Handlers, Request(h) PROVE OneWorks'
  <2>1. h \in Threads /\ \A u \in Threads \ {h} : pc'[u] = pc[u]
    BY <1>3, RequestAlone DEF Undisturbed, OthersKept, Threads
  <2>2. \A u \in Threads \ {h} : AtRest(u)  BY <1>3 DEF Request, StartDownload, MayStart
  <2> QED  BY <2>1, <2>2, OneWorksKept
<1>4. ASSUME RunModule PROVE OneWorks'
  <2>1. Hot \in Threads /\ \A u \in Threads \ {Hot} : pc'[u] = pc[u]
    BY <1>4, HotAlone DEF Undisturbed, OthersKept, Threads
  <2>2. AtRest(Hot)' \/ ~AtRest(Hot) \/ \A u \in Threads \ {Hot} : AtRest(u)
    BY <1>4, <2>1 DEF RunModule, HotList, HotDone, HotSkip, HotPick, HotRow, HotSize,
         HotBegin, HotCheck, HotRead, HotOpen, HotWrite, HotRemove, HotUpdate, MayStart, AtRest, RestLabels,
         Typed, Control
  <2> QED  BY <2>1, <2>2, OneWorksKept
<1>5. ASSUME UNCHANGED pc \/ Crash PROVE OneWorks'
  BY <1>5 DEF OneWorks, AtRest, RestLabels, Crash
<1> QED  BY <1>1, <1>2, <1>3, <1>4, <1>5 DEF Next, Age, vars

LEMMA SerialApart == ASSUME Serial PROVE Spec => []FilesApart
<1>1. Init => OneWorks  BY DEF Init, OneWorks, AtRest, RestLabels
<1>2. Typed /\ OneWorks /\ [Next]_vars => OneWorks'  BY NextOneWorks
<1>3. Typed /\ OneWorks => FilesApart  BY Owner DEF OneWorks, FilesApart
<1> QED  BY <1>1, <1>2, <1>3, TypedAlways, PTL DEF Spec

LEMMA OrderlyDurable == ASSUME Typed, Orderly PROVE Durable
<1> SUFFICES ASSUME NEW f \in Files, announced[f] # None PROVE OnDisk(f, announced[f])
  BY DEF Durable
<1>1. CASE \A t \in Threads : file[t] # f  BY <1>1 DEF Orderly, Settled, OnDisk
<1>2. CASE \E t \in Threads : file[t] = f
  <2>1. PICK t \in Threads : file[t] = f  BY <1>2
  <2>2. WorkAt(t, f) /\ pc[t] \in UploadLabels \cup DownloadLabels \cup PackLabels
    BY <2>1, Owner DEF Orderly, AtRest, Labels, Typed, Control
  <2> QED
    BY <2>2 DEF WorkAt, UploadAt, DownloadAt, PackAt, Settled, OnDisk,
         UploadLabels, DownloadLabels, RestoreLabels, PackLabels
<1> QED  BY <1>1, <1>2

(***************************************************************************)
(* As long as each file is in the hands of one thread at a time, whatever   *)
(* other requests and the hot manager do to other files: a version whose    *)
(* upload was announced stays on disk through packing, restoring and being  *)
(* killed, in back_dir or in its archive.                                   *)
(***************************************************************************)
THEOREM NeverOffDiskPerFile ==
  ASSUME SafeDisk PROVE Spec /\ []FilesApart => []Durable
BY OrderlyAlways, OrderlyDurable, PTL

(***************************************************************************)
(* One request or hot file at a time this asks nothing of the clients.      *)
(***************************************************************************)
THEOREM NeverOffDisk == ASSUME OneAtATime PROVE Spec => []Durable
BY NeverOffDiskPerFile, SerialApart, PTL DEF OneAtATime

(***************************************************************************)
(* So nothing announced is ever lost.                                       *)
(***************************************************************************)
THEOREM NothingLost == ASSUME OneAtATime PROVE Spec => []NeverLost
<1>1. Durable => NeverLost  BY DEF Durable, NeverLost
<1> QED  BY <1>1, NeverOffDisk, PTL

LEMMA OrderlyRows ==
  ASSUME CrashLabels = {}, Typed, Orderly PROVE RowTellsWhere
<1> SUFFICES ASSUME \A t \in Threads : AtRest(t), NEW f \in Files, announced[f] # None
    PROVE  /\ row[f] # None
           /\ IF row[f].pack_flag
                THEN disk[PackOf(f)] = Archive(announced[f]) /\ disk[Real(f)] = Absent
                ELSE disk[Real(f)] = announced[f]
  BY DEF RowTellsWhere
<1>1. Settled(f)  BY Owner DEF Orderly
<1> QED  BY <1>1 DEF Settled, Known, Unkilled

(***************************************************************************)
(* When all is quiet pack_flag tells where every file is, so that the next  *)
(* download looks for it in the right place.  Files may have turned cold in *)
(* the middle of a request, however long it took.                           *)
(***************************************************************************)
THEOREM RowsRightPerFile ==
  ASSUME SafeDisk, CrashLabels = {} PROVE Spec /\ []FilesApart => []RowTellsWhere
BY OrderlyAlways, OrderlyRows, PTL

(***************************************************************************)
(* The same between two requests of a server that takes one at a time.      *)
(***************************************************************************)
THEOREM RowsRight ==
  ASSUME OneAtATime, CrashLabels = {} PROVE Spec => []RowTellsWhere
BY RowsRightPerFile, SerialApart, PTL DEF OneAtATime

-----------------------------------------------------------------------------
(* What the clients see *)

\* An answer holds the version whose upload was announced, under an ETag of it.
RightAnswer(h, a) ==
  LET f == file[h] IN
  /\ a \in Replies /\ a.file = f /\ a.cond = cond[h]
  /\ announced[f] # None => a.body = announced[f]
  /\ announced[f] = None => a.body = Empty /\ a.etag = None
  /\ a.etag # None => a.etag \in ETags[announced[f]]
  /\ a.status = 206 => a.etag # None /\ a.cond # None /\ a.cond.etag = a.etag

LEMMA RowAnswer ==
  ASSUME SafeDisk, CrashLabels = {}, Typed, Orderly, NEW h \in Handlers, DownloadRow(h)
  PROVE  \/ reply' = reply
         \/ \E a : RightAnswer(h, a) /\ reply' = [reply EXCEPT ![h] = a]
<1> h \in Threads  BY DEF Threads
<1>1. PICK f \in Files : f = file[h] /\ WorkAt(h, f)
  BY Owner DEF AtRest, RestLabels, Orderly, DownloadRow
<1>2. CASE row[f] # None  BY <1>1, <1>2 DEF DownloadRow
<1>3. CASE row[f] = None
  <2> DEFINE a == [file |-> f, body |-> Empty, etag |-> None, status |-> 200, cond |-> cond[h]]
  <2>1. reply' = [reply EXCEPT ![h] = a]  BY <1>1, <1>3 DEF DownloadRow, Answer
  <2>2. announced[f] = None
    BY <1>1, <1>3 DEF WorkAt, DownloadAt, Known, DownloadLabels, DownloadRow
  <2>3. a \in Replies  BY DEF Typed, Tables, Replies, Bodies
  <2>4. RightAnswer(h, a)  BY <1>1, <2>2, <2>3 DEF RightAnswer
  <2> QED  BY <2>1, <2>4
<1> QED  BY <1>2, <1>3

\* What a handler that has found a row knows, when nobody is killed.
LEMMA Served ==
  ASSUME SafeDisk, CrashLabels = {}, Typed, Orderly, NEW h \in Handlers,
         pc[h] \in {"d_pcheck", "d_begin", "d_check", "d_read"}
  PROVE  \E f \in Files :
           /\ f = file[h] /\ kept[h] = None
           /\ announced[f] \in Versions /\ info[h] \in Rows /\ info[h].etag \in ETags[announced[f]]
           /\ pc[h] \in {"d_pcheck", "d_check", "d_read"} => seen[h] = "some"
           /\ pc[h] = "d_pcheck" => disk[PackOf(f)] = Archive(announced[f])
           /\ pc[h] \in {"d_begin", "d_check", "d_read"} => disk[Real(f)] = announced[f]
<1> h \in Threads  BY DEF Threads
<1>1. PICK f \in Files : f = file[h] /\ WorkAt(h, f)
  BY Owner DEF AtRest, RestLabels, Orderly
<1>2. announced[f] # None /\ DownloadAt(h, f)
  BY <1>1 DEF WorkAt, UnknownAt, Unkilled, DownloadLabels, RestoreLabels
<1>3. announced[f] \in Versions /\ info[h] \in Rows
  BY <1>2 DEF Typed, Tables, Memory, DownloadLabels, RestoreLabels
<1>4. pc[h] = "d_begin" => disk[Real(f)] = announced[f]
  BY <1>2 DEF DownloadAt, Settled, Unkilled
<1> QED  BY <1>1, <1>2, <1>3, <1>4 DEF DownloadAt, WorkAt

\* What was found in the row is found on the disk, and no reading is refused.
LEMMA ReadsOn ==
  ASSUME SafeDisk, CrashLabels = {}, Typed, Orderly, NEW h \in Handlers,
         UnpackCheck(h) \/ ServeBegin(h) \/ ServeCheck(h)
  PROVE  UNCHANGED <<reply, announced>>
<1> USE NamesAssumption
<1>1. PICK f \in Files :
        /\ f = file[h] /\ announced[f] \in Versions
        /\ pc[h] \in {"d_pcheck", "d_check"} => seen[h] = "some"
        /\ pc[h] = "d_pcheck" => disk[PackOf(f)] = Archive(announced[f])
        /\ pc[h] \in {"d_begin", "d_check"} => disk[Real(f)] = announced[f]
  BY Served DEF UnpackCheck, ServeBegin, ServeCheck
<1>2. announced[f] \notin {Absent, Empty} /\ Archive(announced[f]) \notin {Absent, Empty}
  BY <1>1
<1>3. CASE UnpackCheck(h)
  <2>1. Fits(h, PackOf(file[h])) /\ ~Throws(h, PackOf(file[h]))
    BY <1>1, <1>2, <1>3 DEF UnpackCheck, Fits, Throws
  <2> QED  BY <1>3, <2>1 DEF UnpackCheck
<1>4. CASE ServeBegin(h)
  <2>1. disk[Real(file[h])] # Absent  BY <1>1, <1>2, <1>4 DEF ServeBegin
  <2> QED  BY <1>4, <2>1 DEF ServeBegin
<1>5. CASE ServeCheck(h)
  <2>1. Fits(h, Real(file[h])) /\ ~Throws(h, Real(file[h]))
    BY <1>1, <1>2, <1>5 DEF ServeCheck, Fits, Throws
  <2> QED  BY <1>5, <2>1 DEF ServeCheck
<1> QED  BY <1>3, <1>4, <1>5

LEMMA FileAnswer ==
  ASSUME SafeDisk, CrashLabels = {}, Typed, Orderly, NEW h \in Handlers, ServeRead(h)
  PROVE  \E a : RightAnswer(h, a) /\ reply' = [reply EXCEPT ![h] = a]
<1> USE NamesAssumption
<1>1. PICK f \in Files :
        /\ f = file[h] /\ kept[h] = None
        /\ announced[f] \in Versions /\ info[h] \in Rows /\ info[h].etag \in ETags[announced[f]]
        /\ seen[h] = "some" /\ disk[Real(f)] = announced[f]
  BY Served DEF ServeRead, Goto
<1>2. announced[f] \notin {Absent, Empty, None}  BY <1>1 DEF Contents, Bodies
<1>3. Good(h, Real(f)) /\ Read(h, Real(f)) = announced[f]
  BY <1>1, <1>2 DEF Good, Read, Source, Size
<1>4. info[h].etag \in Stamps /\ info[h].etag # None  BY <1>1 DEF Rows
<1> DEFINE a == [file |-> f, body |-> announced[f], etag |-> info[h].etag,
                 status |-> Status(h, info[h].etag), cond |-> cond[h]]
<1>5. reply' = [reply EXCEPT ![h] = a]  BY <1>1, <1>3 DEF ServeRead, Serve, Answer
<1>6. a.status \in {200, 206} /\ (a.status = 206 => cond[h] # None /\ cond[h].etag = info[h].etag)
  BY DEF Status
<1>7. a \in Replies  BY <1>1, <1>4, <1>6 DEF Typed, Tables, Replies, Bodies
<1>8. RightAnswer(h, a)  BY <1>1, <1>2, <1>4, <1>6, <1>7 DEF RightAnswer
<1> QED  BY <1>5, <1>8

\* What the clients see of a step.
StepSeen ==
  \/ UNCHANGED <<announced, reply>>
  \/ \E f \in Files : announced' = [announced EXCEPT ![f] = None] /\ UNCHANGED reply
  \/ \E f \in Files, v \in Versions :
       /\ announced[f] = None /\ announced' = [announced EXCEPT ![f] = v]
       /\ UNCHANGED reply
  \/ /\ \E h \in Handlers : \E a : RightAnswer(h, a) /\ reply' = [reply EXCEPT ![h] = a]
     /\ UNCHANGED announced

LEMMA EveryStepSeen ==
  ASSUME SafeDisk, CrashLabels = {}, Typed, FilesApart, Orderly, [Next]_vars
  PROVE  StepSeen
<1>1. ASSUME NEW h \in Handlers, Upload(h) PROVE StepSeen
  <2>1. CASE \E f \in Files, v \in Versions : StartUpload(h, f, v)
    BY <2>1 DEF StartUpload, StepSeen
  <2>2. CASE UploadOpen(h) \/ UploadWrite(h) \/ UploadStat(h)
    BY <2>2 DEF UploadOpen, UploadWrite, UploadStat, StepSeen
  <2>3. CASE UploadInsert(h)
    <3> h \in Threads  BY DEF Threads
    <3>1. PICK f \in Files : f = file[h] /\ WorkAt(h, f) /\ pc[h] = "u_insert"
      BY <2>3, Owner DEF AtRest, RestLabels, Orderly, UploadInsert, Goto
    <3>2. announced[f] = None  BY <3>1 DEF WorkAt, UploadAt, UploadLabels
    <3>3. Uploading(f) = {h}  BY <3>1 DEF Uploading, UploadLabels, FilesApart, Threads
    <3>4. body[h] \in Versions  BY <3>1 DEF Typed, Memory, UploadLabels
    <3>5. announced' = [announced EXCEPT ![f] = body[h]] /\ UNCHANGED reply
      BY <2>3, <3>1, <3>3 DEF UploadInsert
    <3> QED  BY <3>2, <3>4, <3>5 DEF StepSeen
  <2> QED  BY <1>1, <2>1, <2>2, <2>3 DEF Upload
<1>2. ASSUME NEW h \in Handlers, Download(h) PROVE StepSeen
  <2>1. CASE DownloadRow(h)  BY <2>1, RowAnswer DEF DownloadRow, StepSeen
  <2>2. CASE ServeRead(h)  BY <2>2, FileAnswer DEF ServeRead, StepSeen
  <2>3. CASE \/ UnpackSize(h) \/ UnpackBegin(h) \/ UnpackRead(h) \/ UnpackOpen(h)
             \/ UnpackWrite(h) \/ UnpackRemove(h) \/ UnpackUpdate(h) \/ ServeSize(h)
    BY <2>3 DEF UnpackSize, UnpackBegin, UnpackRead, UnpackOpen, UnpackWrite, UnpackRemove,
         UnpackUpdate, ServeSize, StepSeen
  <2>4. CASE UnpackCheck(h) \/ ServeBegin(h) \/ ServeCheck(h)
    BY <2>4, ReadsOn DEF StepSeen
  <2> QED  BY <1>2, <2>1, <2>2, <2>3, <2>4 DEF Download
<1>3. ASSUME NEW h \in Handlers, Request(h) PROVE StepSeen
  BY <1>3 DEF Request, StartDownload, StepSeen
<1>4. CASE RunModule
  BY <1>4 DEF RunModule, HotList, HotDone, HotSkip, HotPick, HotRow, HotSize, HotBegin,
       HotCheck, HotRead, HotOpen, HotWrite, HotRemove, HotUpdate, StepSeen
<1>5. CASE \E f \in Files : Age(f)  BY <1>5 DEF Age, StepSeen
<1>6. ~Crash  BY DEF Crash, Threads
<1>7. CASE UNCHANGED vars  BY <1>7 DEF vars, StepSeen
<1> QED  BY <1>1, <1>2, <1>3, <1>4, <1>5, <1>6, <1>7 DEF Next

(***************************************************************************)
(* While a file is in one thread's hands at a time, a client that is told   *)
(* 206 is sent the version it has part of, or one that the ETag cannot tell *)
(* from it: the ETag of the row and the content of the file come from the   *)
(* same upload.                                                             *)
(***************************************************************************)
THEOREM PartialFitsPerFile ==
  ASSUME SafeDisk, CrashLabels = {} PROVE Spec /\ []FilesApart => []PartialFitsETag
<1>1. Init => PartialFitsETag  BY DEF Init, PartialFitsETag
<1>2. ASSUME Typed, FilesApart, Orderly, PartialFitsETag, [Next]_vars
      PROVE  PartialFitsETag'
  <2>1. StepSeen  BY <1>2, EveryStepSeen
  <2>2. CASE UNCHANGED reply  BY <1>2, <2>2 DEF PartialFitsETag
  <2>3. CASE \E h \in Handlers : \E a : RightAnswer(h, a) /\ reply' = [reply EXCEPT ![h] = a]
    <3>1. PICK h \in Handlers : \E a : RightAnswer(h, a) /\ reply' = [reply EXCEPT ![h] = a]
      BY <2>3
    <3>2. PICK a : RightAnswer(h, a) /\ reply' = [reply EXCEPT ![h] = a]  BY <3>1
    <3>3. \A k \in Handlers : reply'[k] \in {reply[k], a}  BY <3>2
    <3>4. a.status = 206 =>
            a.body \in Versions /\ a.cond # None /\ a.cond.etag \in ETags[a.body]
      <4>1. a.file = file[h] /\ a.file \in Files  BY <3>2 DEF RightAnswer, Replies
      <4>2. announced[file[h]] \in Versions \cup {None}  BY <1>2, <4>1 DEF Typed, Tables
      <4> QED  BY <3>2, <4>2 DEF RightAnswer
    <3> QED  BY <1>2, <3>3, <3>4 DEF PartialFitsETag
  <2> QED  BY <2>1, <2>2, <2>3 DEF StepSeen
<1> QED  BY <1>1, <1>2, OrderlyAlways, PTL DEF Spec

(***************************************************************************)
(* So it is with a server that takes one request at a time.                 *)
(***************************************************************************)
THEOREM PartialFits ==
  ASSUME OneAtATime, CrashLabels = {} PROVE Spec => []PartialFitsETag
BY PartialFitsPerFile, SerialApart, PTL DEF OneAtATime

\* No two versions have the same size and were written in the same second.
ETagsDiffer == \A v, w \in Versions : ETags[v] \cap ETags[w] # {} => v = w

(***************************************************************************)
(* 206 always continues the very version that the client has part of, if    *)
(* the clients see to it that no two uploads are equally large and of the   *)
(* same second: that is all that the server leaves to chance.               *)
(***************************************************************************)
THEOREM PartialIsSameVersion ==
  ASSUME OneAtATime, CrashLabels = {}, ETagsDiffer
  PROVE  Spec => [](\A h \in Handlers : reply[h] # None /\ reply[h].status = 206 =>
                      reply[h].body = reply[h].cond.version)
<1>1. ASSUME Typed, PartialFitsETag, NEW h \in Handlers, reply[h] # None, reply[h].status = 206
      PROVE  reply[h].body = reply[h].cond.version
  <2>1. /\ reply[h].body \in Versions /\ reply[h].cond # None
        /\ reply[h].cond.etag \in ETags[reply[h].body]
    BY <1>1 DEF PartialFitsETag
  <2>2. reply[h].cond \in Copies  BY <1>1, <2>1 DEF Typed, Tables, Replies
  <2> QED  BY <2>1, <2>2 DEF ETagsDiffer, Copies
<1>2. Typed /\ PartialFitsETag =>
        \A h \in Handlers : reply[h] # None /\ reply[h].status = 206 =>
          reply[h].body = reply[h].cond.version
  BY <1>1
<1> QED  BY <1>2, TypedAlways, PartialFits, PTL

(***************************************************************************)
(* While a file is in one thread's hands at a time, the server is the store *)
(* of BackupStore: packing and restoring never show in an answer, nor do    *)
(* the requests for other files that are served meanwhile.                  *)
(***************************************************************************)
THEOREM IsStorePerFile ==
  ASSUME SafeDisk, CrashLabels = {} PROVE Spec /\ []FilesApart => ImplementsStore
<1>1. Init => Store!Init  BY DEF Init, Store!Init
<1>2. ASSUME Typed, Typed', FilesApart, Orderly, [Next]_vars PROVE [Store!Next]_(Store!vars)
  <2>1. StepSeen  BY <1>2, EveryStepSeen
  <2>2. CASE UNCHANGED <<announced, reply>>  BY <2>2 DEF Store!vars
  <2>3. ASSUME NEW f \in Files, announced' = [announced EXCEPT ![f] = None], UNCHANGED reply
        PROVE  Store!Next
    BY <2>3 DEF Store!Next, Store!BeginUpload
  <2>4. ASSUME NEW f \in Files, NEW v \in Versions, announced[f] = None,
               announced' = [announced EXCEPT ![f] = v], UNCHANGED reply
        PROVE  Store!Next
    BY <2>4 DEF Store!Next, Store!EndUpload
  <2>5. ASSUME NEW h \in Handlers, NEW a, RightAnswer(h, a),
               reply' = [reply EXCEPT ![h] = a], UNCHANGED announced
        PROVE  Store!Next
    <3>1. PICK f \in Files : f = file[h] /\ a.file = f /\ a.body \in Bodies \cup {Zeros}
      BY <2>5 DEF RightAnswer, Replies
    <3>2. announced[f] # None => a.body = announced[f]  BY <2>5, <3>1 DEF RightAnswer
    <3>3. a # None  BY <2>5, NamesAssumption DEF RightAnswer
    <3> DEFINE S == [k \in Handlers |-> IF reply[k] = None THEN None
                       ELSE [file |-> reply[k].file, body |-> reply[k].body]]
    <3>4. S' = [S EXCEPT ![h] = [file |-> f, body |-> a.body]]
      <4>1. \A k \in Handlers : reply'[k] = IF k = h THEN a ELSE reply[k]
        BY <1>2, <2>5 DEF Typed, Tables
      <4>2. \A k \in Handlers : S'[k] = IF k = h THEN [file |-> f, body |-> a.body]
                                         ELSE S[k]
        BY <3>1, <3>3, <4>1
      <4>3. S' = [k \in Handlers |-> S'[k]] /\ S = [k \in Handlers |-> S[k]]  OBVIOUS
      <4> HIDE DEF S
      <4> QED  BY <4>2, <4>3
    <3>5. announced' = announced  BY <2>5
    <3>6. Store!Answer(h, f)
      BY <3>1, <3>2, <3>4, <3>5, Zenon DEF Store!Answer
    <3> QED  BY <3>6, Zenon DEF Store!Next
  <2> QED  BY <2>1, <2>2, <2>3, <2>4, <2>5 DEF StepSeen
<1>3. Typed /\ [Next]_vars => Typed'  BY NextTyped
<1> QED  BY <1>1, <1>2, <1>3, OrderlyAlways, PTL DEF Spec, ImplementsStore, Store!Spec

(***************************************************************************)
(* One request at a time, the server is BackupStore whatever clients ask.   *)
(***************************************************************************)
THEOREM IsStore ==
  ASSUME OneAtATime, CrashLabels = {} PROVE Spec => ImplementsStore
BY IsStorePerFile, SerialApart, PTL DEF OneAtATime

-----------------------------------------------------------------------------
(***************************************************************************)
(* Requests that overlap.  The process is not killed, the file system does  *)
(* what it is told, and no file turns cold while a request for it is        *)
(* served; any number of handlers and the hot manager interleave.           *)
(***************************************************************************)
PromptService == Prompt /\ ~DiskMayFail /\ CrashLabels = {}

\* An upload has its file to itself, but for downloads of a file without a row.
UploadsApart ==
  \A f \in Files, h \in Handlers : file[h] = f /\ pc[h] \in UploadLabels =>
    \A t \in Threads : file[t] = f =>
      \/ t = h
      \/ row[f] = None /\ pc[t] \notin UploadLabels

\* f before its first upload ended, or while it is uploaded again.
Unannounced(f) ==
  /\ file[Hot] # f
  /\ \A h \in Handlers : file[h] = f => pc[h] \in UploadLabels \cup {"d_row"}
  /\ \A h \in Handlers : file[h] = f /\ pc[h] \in UploadLabels =>
       /\ pc[h] = "u_write" => open[h] = Real(f)
       /\ pc[h] \in {"u_stat", "u_insert"} => disk[Real(f)] = body[h]
       /\ pc[h] = "u_insert" => info[h] \in [pack_flag : {FALSE}, etag : ETags[body[h]]]
  /\ row[f] = None => ~cold[f]
  /\ (\A h \in Handlers : file[h] = f => pc[h] = "d_row") => Untouched(f)

\* Where a download only looks at the file.
LookLabels == {"d_row", "d_size", "d_begin", "d_check", "d_read"}

\* A file that was removed as it was read is kept whole.
ServesAt(h, f) == pc[h] \in {"d_check", "d_read"} => kept[h] \in {None, announced[f]}

\* f in the hands of the hot manager: downloads found it in back_dir, or do not
\* know yet.
Packing(f) ==
  /\ ~row[f].pack_flag
  /\ \A h \in Handlers : file[h] = f => pc[h] \in LookLabels /\ ServesAt(h, f)
  /\ kept[Hot] = None
  /\ disk[Real(f)] = IF pc[Hot] = "h_update" THEN Absent ELSE announced[f]
  /\ pc[Hot] # "h_row" => info[Hot] # None
  /\ pc[Hot] \in {"h_begin", "h_check", "h_read"} => seen[Hot] = "some"
  /\ pc[Hot] \in {"h_open", "h_write"} => body[Hot] = Archive(announced[f])
  /\ pc[Hot] = "h_write" => open[Hot] = PackOf(f)
  /\ pc[Hot] \in {"h_remove", "h_update"} => disk[PackOf(f)] = Archive(announced[f])

\* What a handler that restores f can rely on, whatever others do to f.
RestoresAt(h, f) ==
  /\ pc[h] \in {"d_open", "d_write"} => body[h] = announced[f]
  /\ pc[h] = "d_write" => open[h] = Real(f)
  /\ pc[h] \in {"d_write", "d_remove", "d_update"} => disk[Real(f)] # Absent
  /\ pc[h] = "d_pbegin" => seen[h] # "zero"
  /\ pc[h] = "d_pbegin" /\ seen[h] = "none" => disk[PackOf(f)] = Absent
  /\ pc[h] \in PackReads =>
       /\ seen[h] = "some" /\ kept[h] \in {None, Archive(announced[f])}
       /\ kept[h] = None => disk[PackOf(f)] # Absent

Writing(f) == \E h \in Handlers : file[h] = f /\ pc[h] = "d_write"

\* f in the hands of downloads only: it may be restored by several at a time.
Shared(f) ==
  /\ disk[Real(f)] \in {announced[f], Empty, Absent}
  /\ disk[Real(f)] = Absent => disk[PackOf(f)] = Archive(announced[f]) /\ row[f].pack_flag
  /\ disk[Real(f)] = Empty => Writing(f)
  /\ row[f].pack_flag \/ (\E h \in Handlers : file[h] = f /\ pc[h] \in RestoreLabels) =>
       disk[PackOf(f)] \in {Archive(announced[f]), Absent} /\ ~cold[f]
  /\ row[f].pack_flag /\ disk[Real(f)] # Absent =>
       \E h \in Handlers : file[h] = f /\ pc[h] \in {"d_write", "d_remove", "d_update"}
  /\ \A h \in Handlers : file[h] = f => RestoresAt(h, f) /\ ServesAt(h, f)

\* The inductive invariant, file by file.
FileRight(f) ==
  /\ cold[f] => disk[Real(f)] # Absent
  /\ announced[f] = None => Unannounced(f)
  /\ announced[f] # None =>
       /\ row[f] # None
       /\ \A h \in Handlers : file[h] = f => pc[h] \in DownloadLabels
       /\ file[Hot] = f => Packing(f)
       /\ file[Hot] # f => Shared(f)

FilesRight == \A f \in Files : FileRight(f)

\* Who has a file open for writing is about to write it.
WriteLabels == {"u_write", "d_write", "h_write"}
Writes ==
  \A t \in Threads : open[t] # NoPath =>
    pc[t] \in WriteLabels /\ open[t] \in {Real(file[t]), PackOf(file[t])}

LEMMA InitWrites == Init => Writes
BY DEF Init, Writes

\* A step of one thread, that opens a file, or closes it, or neither.
LEMMA WritesKept ==
  ASSUME Writes, NEW t \in Threads, OthersKept(t),
         \A u \in Threads \ {t} : open'[u] \in {open[u], NoPath},
         open'[t] # NoPath =>
           pc'[t] \in WriteLabels /\ open'[t] \in {Real(file'[t]), PackOf(file'[t])}
  PROVE  Writes'
<1> SUFFICES ASSUME NEW u \in Threads, open'[u] # NoPath
    PROVE  pc'[u] \in WriteLabels /\ open'[u] \in {Real(file'[u]), PackOf(file'[u])}
  BY DEF Writes
<1>1. CASE u = t  BY <1>1
<1>2. CASE u # t
  <2>1. file'[u] = file[u] /\ pc'[u] = pc[u] /\ open'[u] = open[u]  BY <1>2 DEF OthersKept
  <2> QED  BY <2>1 DEF Writes
<1> QED  BY <1>1, <1>2

LEMMA UploadWrites == ASSUME Typed, Writes, NEW h \in Handlers, Upload(h) PROVE Writes'
<1> h \in Threads  BY DEF Threads
<1> USE DEF Goto
<1>1. OthersKept(h)  BY UploadAlone DEF Undisturbed
<1>2. CASE UploadOpen(h)
  <2>1. open[h] = NoPath /\ pc'[h] = "u_write" /\ file' = file
    BY <1>2 DEF UploadOpen, Writes, WriteLabels, Typed, Control
  <2>2. /\ open'[h] \in {NoPath, Real(file[h])}
        /\ \A u \in Threads \ {h} : open'[u] = open[u]
    BY <1>2, <2>1 DEF UploadOpen, OpenForWriting, Typed, Open
  <2> QED  BY <1>1, <2>1, <2>2, WritesKept DEF WriteLabels
<1>3. CASE UploadWrite(h)
  <2>1. open'[h] = NoPath /\ \A u \in Threads \ {h} : open'[u] = open[u]
    BY <1>3 DEF UploadWrite, Write, Typed, Open
  <2> QED  BY <1>1, <2>1, WritesKept
<1>4. CASE ~UploadOpen(h) /\ ~UploadWrite(h)
  <2>1. open' = open /\ pc[h] \notin WriteLabels
    BY <1>4 DEF Upload, StartUpload, UploadStat, UploadInsert, WriteLabels
  <2> QED  BY <1>1, <2>1, WritesKept DEF Writes
<1> QED  BY <1>2, <1>3, <1>4

LEMMA DownloadWrites == ASSUME Typed, Writes, NEW h \in Handlers, Download(h) PROVE Writes'
<1> h \in Threads  BY DEF Threads
<1> USE DEF Goto
<1>1. OthersKept(h)  BY DownloadAlone DEF Undisturbed
<1>2. CASE UnpackOpen(h)
  <2>1. open[h] = NoPath /\ pc'[h] = "d_write" /\ file' = file
    BY <1>2 DEF UnpackOpen, Writes, WriteLabels, Typed, Control
  <2>2. /\ open'[h] \in {NoPath, Real(file[h])}
        /\ \A u \in Threads \ {h} : open'[u] = open[u]
    BY <1>2, <2>1 DEF UnpackOpen, OpenForWriting, Typed, Open
  <2> QED  BY <1>1, <2>1, <2>2, WritesKept DEF WriteLabels
<1>3. CASE UnpackWrite(h)
  <2>1. open'[h] = NoPath /\ \A u \in Threads \ {h} : open'[u] = open[u]
    BY <1>3 DEF UnpackWrite, Write, Typed, Open
  <2> QED  BY <1>1, <2>1, WritesKept
<1>4. CASE UnpackRemove(h)
  <2>1. open[h] = NoPath  BY <1>4 DEF UnpackRemove, Writes, WriteLabels
  <2>2. \A u \in Threads : open'[u] \in {open[u], NoPath}
    BY <1>4 DEF UnpackRemove, Remove
  <2> QED  BY <1>1, <2>1, <2>2, WritesKept
<1>5. CASE ~UnpackOpen(h) /\ ~UnpackWrite(h) /\ ~UnpackRemove(h)
  <2>1. open' = open /\ pc[h] \notin WriteLabels
    BY <1>5 DEF Download, DownloadRow, UnpackSize, UnpackBegin, UnpackCheck, UnpackRead,
         UnpackUpdate, ServeSize, ServeBegin, ServeCheck, ServeRead, WriteLabels
  <2> QED  BY <1>1, <2>1, WritesKept DEF Writes
<1> QED  BY <1>2, <1>3, <1>4, <1>5

LEMMA HotWrites == ASSUME Typed, Writes, RunModule PROVE Writes'
<1> Hot \in Threads  BY DEF Threads
<1> USE DEF Goto
<1>1. OthersKept(Hot)  BY HotAlone DEF Undisturbed
<1>2. CASE HotOpen
  <2>1. open[Hot] = NoPath /\ pc'[Hot] = "h_write" /\ file' = file
    BY <1>2 DEF HotOpen, Writes, WriteLabels, Typed, Control
  <2>2. /\ open'[Hot] \in {NoPath, PackOf(file[Hot])}
        /\ \A u \in Threads \ {Hot} : open'[u] = open[u]
    BY <1>2, <2>1 DEF HotOpen, OpenForWriting, Typed, Open
  <2> QED  BY <1>1, <2>1, <2>2, WritesKept DEF WriteLabels
<1>3. CASE HotWrite
  <2>1. open'[Hot] = NoPath /\ \A u \in Threads \ {Hot} : open'[u] = open[u]
    BY <1>3 DEF HotWrite, Write, Typed, Open
  <2> QED  BY <1>1, <2>1, WritesKept
<1>4. CASE HotRemove
  <2>1. open[Hot] = NoPath  BY <1>4 DEF HotRemove, Writes, WriteLabels
  <2>2. \A u \in Threads : open'[u] \in {open[u], NoPath}
    BY <1>4 DEF HotRemove, Remove
  <2> QED  BY <1>1, <2>1, <2>2, WritesKept
<1>5. CASE ~HotOpen /\ ~HotWrite /\ ~HotRemove
  <2>1. open' = open /\ pc[Hot] \notin WriteLabels
    BY <1>5 DEF RunModule, HotList, HotDone, HotSkip, HotPick, HotRow, HotSize, HotBegin,
         HotCheck, HotRead, HotUpdate, WriteLabels
  <2> QED  BY <1>1, <2>1, WritesKept DEF Writes
<1> QED  BY <1>2, <1>3, <1>4, <1>5

LEMMA NextWrites == Typed /\ Writes /\ [Next]_vars => Writes'
<1> SUFFICES ASSUME Typed, Writes, [Next]_vars PROVE Writes'  OBVIOUS
<1>1. ASSUME NEW h \in Handlers, Request(h) PROVE Writes'
  <2>1. h \in Threads /\ OthersKept(h)  BY <1>1, RequestAlone DEF Undisturbed, Threads
  <2>2. open' = open /\ pc[h] \notin WriteLabels
    BY <1>1 DEF Request, StartDownload, Goto, WriteLabels
  <2> QED  BY <2>1, <2>2, WritesKept DEF Writes
<1>2. CASE \E f \in Files : Age(f)  BY <1>2 DEF Age, Writes
<1>3. CASE Crash  BY <1>3 DEF Crash, Writes
<1>4. CASE UNCHANGED vars  BY <1>4 DEF vars, Writes
<1> QED  BY <1>1, <1>2, <1>3, <1>4, UploadWrites, DownloadWrites, HotWrites DEF Next

LEMMA ReadsWhat ==
  ASSUME NEW t \in Threads, NEW f \in Files
  PROVE  /\ Reads(t, PackOf(f)) => pc[t] \in PackReads /\ file[t] = f
         /\ pc[t] \in PackReads /\ file[t] = f => Reads(t, PackOf(f))
         /\ Reads(t, Real(f)) => pc[t] \in RealReads /\ file[t] = f
BY DEF Reads, PackReads, RealReads, Real, PackOf

\* What a reader of a removed file keeps is what was there, if nobody writes it.
LEMMA RemoveHolds ==
  ASSUME Typed, NEW p \in Paths, Remove(p), \A t \in Threads : open[t] # p
  PROVE  \A t \in Threads : kept'[t] = IF Reads(t, p) /\ kept[t] = None THEN disk[p] ELSE kept[t]
<1> DEFINE readers == {t \in Threads : Reads(t, p) /\ kept[t] = None}
<1>1. PICK held \in [readers -> {disk[p]} \cup {body[t] : t \in {u \in Threads : open[u] = p}}] :
        kept' = [t \in Threads |-> IF t \in readers THEN held[t] ELSE kept[t]]
  BY DEF Remove
<1>2. \A t \in readers : held[t] = disk[p]  BY <1>1
<1> QED  BY <1>1, <1>2

LEMMA FileKept ==
  ASSUME NEW g \in Files, FileRight(g), KeptFile(g), cold'[g] = cold[g],
         \A t \in Threads : file[t] = g \/ file'[t] = g => ThreadKept(t, g)
  PROVE  FileRight(g)'
<1> USE DEF ThreadKept, KeptFile, Threads
<1>1. \A t \in Threads : file'[t] = g <=> file[t] = g  OBVIOUS
<1>2. Unannounced(g) => Unannounced(g)'  BY <1>1 DEF Unannounced, Untouched
<1>0. \A h \in Handlers : file[h] = g /\ ServesAt(h, g) => ServesAt(h, g)'  BY DEF ServesAt
<1>3. ASSUME file[Hot] = g, Packing(g) PROVE Packing(g)'
  <2>1. \A h \in Handlers : file'[h] = g => pc'[h] \in LookLabels /\ ServesAt(h, g)'
    BY <1>0, <1>1, <1>3 DEF Packing
  <2> QED  BY <1>1, <1>3, <2>1 DEF Packing
<1>4. ASSUME Shared(g) PROVE Shared(g)'
  <2>1. \A h \in Handlers : file[h] = g => pc'[h] = pc[h]  OBVIOUS
  <2>2. Writing(g) <=> Writing(g)'  BY <1>1, <2>1 DEF Writing
  <2>3. \A h \in Handlers : file[h] = g /\ RestoresAt(h, g) => RestoresAt(h, g)'
    BY DEF RestoresAt
  <2>4. \A h \in Handlers : file'[h] = g => RestoresAt(h, g)' /\ ServesAt(h, g)'
    BY <1>0, <1>1, <1>4, <2>3 DEF Shared
  <2> QED  BY <1>1, <1>4, <2>1, <2>2, <2>4 DEF Shared
<1>5. \A h \in Handlers : file[h] = g => pc'[h] = pc[h]  OBVIOUS
<1> QED  BY <1>1, <1>2, <1>3, <1>4, <1>5 DEF FileRight

LEMMA OneFileSteps ==
  ASSUME Typed, FilesRight, NEW t \in Threads, NEW f \in Files,
         file[t] \in {f, None}, file'[t] \in {f, None}, OthersKept(t),
         \A g \in Files \ {f} : KeptFile(g) /\ cold'[g] = cold[g],
         \A u \in Threads \ {t}, g \in Files \ {f} :
           open[u] \in {Real(g), PackOf(g)} => open'[u] = open[u],
         \A u \in Threads \ {t} : kept'[u] = kept[u] \/ file[u] = f,
         FileRight(f)'
  PROVE  FilesRight'
<1>1. ASSUME NEW g \in Files, g # f PROVE FileRight(g)'
  <2>1. g # None  BY NamesAssumption
  <2>2. \A u \in Threads : file[u] = g \/ file'[u] = g => ThreadKept(u, g)
    BY <1>1, <2>1 DEF OthersKept, ThreadKept
  <2> QED  BY <1>1, <2>2, FileKept DEF FilesRight
<1> QED  BY <1>1 DEF FilesRight

LEMMA InitFiles == Init => FilesRight
BY NamesAssumption
    DEF Init, FilesRight, FileRight, Unannounced, Untouched, Paths, Real, PackOf, Threads

LEMMA Uploader ==
  ASSUME Typed, UploadsApart, FilesRight, NEW h \in Handlers, pc[h] \in UploadLabels
  PROVE  /\ file[h] \in Files /\ announced[file[h]] = None /\ Unannounced(file[h])
         /\ \A k \in Handlers \ {h} : file[k] = file[h] => pc[k] = "d_row" /\ row[file[h]] = None
<1> h \in Threads  BY DEF Threads
<1>1. PICK f \in Files : f = file[h]
  BY Owner DEF AtRest, RestLabels, UploadLabels
<1>2. announced[f] = None /\ Unannounced(f)
  BY <1>1 DEF FilesRight, FileRight, UploadLabels, DownloadLabels, RestoreLabels
<1>3. ASSUME NEW k \in Handlers \ {h}, file[k] = f PROVE pc[k] = "d_row" /\ row[f] = None
  <2>1. row[f] = None /\ pc[k] \notin UploadLabels
    BY <1>1, <1>3 DEF UploadsApart, Threads
  <2> QED  BY <1>2, <1>3, <2>1 DEF Unannounced
<1> QED  BY <1>1, <1>2, <1>3

LEMMA UploadFile ==
  ASSUME Typed, UploadsApart, FilesRight, NEW h \in Handlers, NEW f \in Files,
         NEW l \in UploadLabels,
         pc[h] \in UploadLabels, f = file[h], pc' = [pc EXCEPT ![h] = l],
         UNCHANGED <<row, file, announced>>,
         cold'[f] => cold[f] /\ disk'[Real(f)] # Absent,
         l = "u_write" => open'[h] = Real(f),
         l \in {"u_stat", "u_insert"} => disk'[Real(f)] = body'[h],
         l = "u_insert" => info'[h] \in [pack_flag : {FALSE}, etag : ETags[body'[h]]]
  PROVE  FileRight(f)'
<1> h \in Threads  BY DEF Threads
<1>1. /\ announced[f] = None /\ Unannounced(f)
      /\ \A k \in Handlers \ {h} : file[k] = f => pc[k] = "d_row" /\ row[f] = None
  BY Uploader
<1>2. pc'[h] = l /\ \A k \in Handlers \ {h} : pc'[k] = pc[k]
  BY DEF Typed, Control, Threads
<1>3. \A k \in Handlers \ {h} : file'[k] = f => pc'[k] = "d_row"  BY <1>1, <1>2
<1>4. "d_row" \notin UploadLabels  BY DEF UploadLabels
<1>5. Unannounced(f)'  BY <1>1, <1>2, <1>3, <1>4 DEF Unannounced
<1> QED  BY <1>1, <1>5 DEF FileRight

LEMMA UploadFiles ==
  ASSUME PromptService, Typed, UploadsApart, UploadsApart', FilesRight,
         NEW h \in Handlers, Upload(h)
  PROVE  FilesRight'
<1> USE NamesAssumption DEF PromptService, Goto
<1> h \in Threads  BY DEF Threads
<1>1. ASSUME NEW f \in Files, NEW v \in Versions, StartUpload(h, f, v) PROVE FilesRight'
  <2> USE <1>1 DEF StartUpload
  <2>1. /\ pc'[h] = "u_open" /\ file'[h] = f /\ file[h] = None
        /\ announced'[f] = None /\ OthersKept(h)
    BY DEF Typed, Control, Memory, Tables, RestLabels, OthersKept
  <2>2. ASSUME NEW t \in Threads \ {h}, file[t] = f
        PROVE  t \in Handlers /\ pc'[t] = "d_row" /\ row[f] = None
    <3>1. file'[t] = f /\ pc'[t] = pc[t]  BY <2>1, <2>2 DEF OthersKept
    <3>2. row[f] = None /\ pc[t] \notin UploadLabels
      BY <2>1, <2>2, <3>1 DEF UploadsApart, UploadLabels
    <3>3. Unannounced(f)  BY <3>2 DEF FilesRight, FileRight
    <3> QED  BY <2>2, <3>1, <3>2, <3>3 DEF Unannounced, Threads
  <2>3. Unannounced(f)'
    <3>1. file'[Hot] # f  BY <2>1, <2>2 DEF OthersKept, Threads
    <3>2. \A k \in Handlers \ {h} : file'[k] = f => pc'[k] = "d_row"
      BY <2>1, <2>2 DEF OthersKept, Threads
    <3>3. row[f] = None => ~cold[f]  BY DEF FilesRight, FileRight, Unannounced
    <3> QED  BY <2>1, <3>1, <3>2, <3>3 DEF Unannounced, UploadLabels
  <2>4. FileRight(f)'  BY <2>1, <2>3 DEF FilesRight, FileRight
  <2> QED  BY <2>1, <2>4, OneFileSteps DEF KeptFile, Typed, Tables
<1>2. ASSUME UploadOpen(h) PROVE FilesRight'
  <2> USE <1>2 DEF UploadOpen
  <2>1. PICK f \in Files : f = file[h]  BY Uploader DEF UploadLabels
  <2>2. /\ disk'[Real(f)] = Empty /\ open'[h] = Real(f)
        /\ \A q \in Paths \ {Real(f)} : disk'[q] = disk[q]
    BY <2>1, PathFacts, OpenEffect
  <2>3. FileRight(f)'
    BY <2>1, <2>2, UploadFile DEF UploadLabels, OpenForWriting
  <2>4. \A g \in Files \ {f} : KeptFile(g) /\ cold'[g] = cold[g]
    BY <2>1, <2>2, PathFacts DEF KeptFile, OpenForWriting, Typed, Tables
  <2>5. OthersKept(h) /\ \A u \in Threads \ {h} : open'[u] = open[u]
    BY DEF OthersKept, OpenForWriting, Typed, Control, Open
  <2> QED  BY <2>1, <2>3, <2>4, <2>5, OneFileSteps, Uploader DEF UploadLabels
<1>3. ASSUME UploadWrite(h) PROVE FilesRight'
  <2> USE <1>3 DEF UploadWrite
  <2>1. PICK f \in Files : f = file[h]  BY Uploader DEF UploadLabels
  <2>2. open[h] = Real(f) /\ body[h] \in Versions
    BY <2>1, Uploader DEF Unannounced, UploadLabels, Typed, Memory
  <2>3. /\ disk'[Real(f)] = body[h]
        /\ \A q \in Paths \ {Real(f)} : disk'[q] = disk[q]
    BY <2>1, <2>2, PathFacts, WriteEffect
  <2>4. FileRight(f)'
    BY <2>1, <2>2, <2>3, UploadFile DEF UploadLabels
  <2>5. \A g \in Files \ {f} : KeptFile(g) /\ cold'[g] = cold[g]
    BY <2>1, <2>3, PathFacts DEF KeptFile
  <2>6. OthersKept(h) /\ \A u \in Threads \ {h} : open'[u] = open[u]
    BY DEF OthersKept, Write, Typed, Control, Open
  <2> QED  BY <2>1, <2>2, <2>4, <2>5, <2>6, PathFacts, OneFileSteps
<1>4. ASSUME UploadStat(h) PROVE FilesRight'
  <2> USE <1>4 DEF UploadStat
  <2>1. PICK f \in Files : f = file[h]  BY Uploader DEF UploadLabels
  <2>2. disk[Real(f)] = body[h] /\ body[h] \in Versions
    BY <2>1, Uploader DEF Unannounced, UploadLabels, Typed, Memory
  <2>3. info'[h] \in [pack_flag : {FALSE}, etag : ETags[body[h]]]
    <3>1. body[h] # Absent  BY <2>2
    <3>2. PICK s \in ETags[body[h]] : info' = [info EXCEPT ![h] = [pack_flag |-> FALSE, etag |-> s]]
      BY <2>1, <2>2, <3>1
    <3> QED  BY <3>2 DEF Typed, Memory
  <2>4. FileRight(f)'
    BY <2>1, <2>2, <2>3, UploadFile DEF UploadLabels
  <2>5. OthersKept(h)
    BY DEF OthersKept, Typed, Control, Memory
  <2> QED  BY <2>1, <2>4, <2>5, OneFileSteps DEF KeptFile
<1>5. ASSUME UploadInsert(h) PROVE FilesRight'
  <2> USE <1>5 DEF UploadInsert
  <2>1. PICK f \in Files : f = file[h]  BY Uploader DEF UploadLabels
  <2>2. /\ disk[Real(f)] = body[h] /\ body[h] \in Versions
        /\ info[h] \in [pack_flag : {FALSE}, etag : ETags[body[h]]]
        /\ file[Hot] # f /\ announced[f] = None
        /\ \A k \in Handlers \ {h} : file[k] = f => pc[k] = "d_row"
    BY <2>1, Uploader DEF Unannounced, UploadLabels, Typed, Memory
  <2>3. Uploading(f) = {h}  BY <2>1, <2>2 DEF Uploading, UploadLabels
  <2>4. info[h] \in Rows /\ info[h].pack_flag = FALSE
    BY <2>2, ETagsAssumption DEF Rows, Bodies
  <2>5. announced'[f] = body[h] /\ row'[f] = info[h] /\ file'[h] = None
    BY <2>1, <2>3, <2>4 DEF Forget, Typed, Tables, Control
  <2>6. OthersKept(h)
    BY DEF OthersKept, Forget, Typed, Control, Memory
  <2>7. \A k \in Handlers : file'[k] = f => pc'[k] = "d_row" /\ pc[k] = "d_row"
    BY <2>2, <2>5, <2>6 DEF OthersKept, Threads
  <2>8. file'[Hot] # f  BY <2>2, <2>6 DEF OthersKept, Threads
  <2>9. Shared(f)'
    <3>1. ~row'[f].pack_flag /\ disk'[Real(f)] = announced'[f]
      BY <2>2, <2>4, <2>5
    <3>2. disk'[Real(f)] \notin {Absent, Empty}  BY <2>2
    <3>3. \A k \in Handlers : file'[k] = f => RestoresAt(k, f)' /\ ServesAt(k, f)'
      BY <2>7 DEF RestoresAt, ServesAt, PackReads
    <3> QED  BY <3>1, <3>2, <3>3, <2>7 DEF Shared, RestoreLabels
  <2>10. FileRight(f)'
    <3>1. announced'[f] # None /\ row'[f] # None  BY <2>2, <2>4, <2>5 DEF Contents, Bodies
    <3>2. cold'[f] => disk'[Real(f)] # Absent  BY DEF FilesRight, FileRight
    <3> QED  BY <2>7, <2>8, <2>9, <3>1, <3>2 DEF FileRight, DownloadLabels
  <2>11. \A g \in Files \ {f} : KeptFile(g) /\ cold'[g] = cold[g]
    BY <2>1, <2>4 DEF KeptFile, Typed, Tables
  <2>12. \A u \in Threads \ {h} : kept'[u] = kept[u]  BY DEF Forget, Typed, Reading
  <2> QED  BY <2>1, <2>5, <2>6, <2>10, <2>11, <2>12, OneFileSteps
<1> QED  BY <1>1, <1>2, <1>3, <1>4, <1>5 DEF Upload

LEMMA Downloader ==
  ASSUME Typed, UploadsApart, FilesRight, NEW h \in Handlers, NEW f \in Files,
         file[h] = f, pc[h] \in DownloadLabels, row[f] # None
  PROVE  /\ announced[f] # None
         /\ pc[h] \in RestoreLabels => file[Hot] # f
<1>1. announced[f] # None
  <2> SUFFICES ASSUME announced[f] = None PROVE FALSE  OBVIOUS
  <2>1. Unannounced(f)  BY DEF FilesRight, FileRight
  <2>2. CASE \E k \in Handlers : file[k] = f /\ pc[k] \in UploadLabels
    BY <2>2 DEF UploadsApart, Threads, UploadLabels, DownloadLabels, RestoreLabels
  <2>3. CASE \A k \in Handlers : file[k] = f => pc[k] \notin UploadLabels
    BY <2>1, <2>3 DEF Unannounced, Untouched
  <2> QED  BY <2>2, <2>3
<1>2. file[Hot] = f => Packing(f)  BY <1>1 DEF FilesRight, FileRight
<1> QED  BY <1>1, <1>2 DEF Packing, RestoreLabels, LookLabels

LEMMA Restorer ==
  ASSUME Typed, UploadsApart, FilesRight,
         NEW h \in Handlers, pc[h] \in DownloadLabels \ {"d_row"}
  PROVE  /\ file[h] \in Files /\ announced[file[h]] \in Versions /\ row[file[h]] \in Rows
         /\ pc[h] \in RestoreLabels =>
              /\ file[Hot] # file[h] /\ Shared(file[h]) /\ RestoresAt(h, file[h])
              /\ disk[PackOf(file[h])] \in {Archive(announced[file[h]]), Absent}
              /\ ~cold[file[h]]
<1> h \in Threads  BY DEF Threads
<1>1. PICK f \in Files : f = file[h]
  BY Owner DEF AtRest, RestLabels, DownloadLabels, RestoreLabels
<1>2. announced[f] # None
  <2> SUFFICES ASSUME announced[f] = None PROVE FALSE  OBVIOUS
  <2>1. Unannounced(f)  BY DEF FilesRight, FileRight
  <2> QED  BY <1>1, <2>1 DEF Unannounced, UploadLabels, DownloadLabels, RestoreLabels
<1>3. row[f] # None  BY <1>2 DEF FilesRight, FileRight
<1>4. announced[f] \in Versions /\ row[f] \in Rows  BY <1>2, <1>3 DEF Typed, Tables
<1>5. ASSUME pc[h] \in RestoreLabels
      PROVE  /\ file[Hot] # f /\ Shared(f) /\ RestoresAt(h, f)
             /\ disk[PackOf(f)] \in {Archive(announced[f]), Absent} /\ ~cold[f]
  <2>1. file[Hot] # f  BY <1>1, <1>3, <1>5, Downloader
  <2>2. Shared(f)  BY <1>2, <2>1 DEF FilesRight, FileRight
  <2> QED  BY <1>1, <1>5, <2>1, <2>2 DEF Shared
<1> QED  BY <1>1, <1>4, <1>5

\* A step of a restoring handler or of one that has restored.
LEMMA RestoreFile ==
  ASSUME Typed, UploadsApart, FilesRight, NEW h \in Handlers, NEW f \in Files,
         NEW l \in DownloadLabels,
         pc[h] \in RestoreLabels, f = file[h], pc' = [pc EXCEPT ![h] = l],
         UNCHANGED <<file, announced, cold>>, row'[f] # None, Shared(f)'
  PROVE  FileRight(f)'
<1> h \in Threads  BY DEF Threads
<1>1. /\ announced[f] \in Versions /\ file[Hot] # f
  BY Restorer DEF DownloadLabels, RestoreLabels
<1>2. \A k \in Handlers : file'[k] = f => pc'[k] \in DownloadLabels
  BY <1>1, NamesAssumption DEF FilesRight, FileRight, Typed, Control, Contents, Bodies
<1>3. ~cold'[f]  BY <1>1, Restorer DEF DownloadLabels, RestoreLabels
<1> QED  BY <1>1, <1>2, <1>3, NamesAssumption DEF FileRight, Contents, Bodies

LEMMA RowFiles ==
  ASSUME Typed, UploadsApart, FilesRight, NEW h \in Handlers, DownloadRow(h)
  PROVE  FilesRight'
<1> USE NamesAssumption DEF Goto, DownloadRow, Answer
<1> h \in Threads  BY DEF Threads
<1>1. PICK f \in Files : f = file[h]
  BY Owner DEF AtRest, RestLabels
<1>2. OthersKept(h)  BY DEF OthersKept, Forget, Typed, Control, Memory
<1>3. \A k \in Handlers \ {h} : file'[k] = file[k] /\ pc'[k] = pc[k]
  BY <1>2 DEF OthersKept, Threads
<1>4. file'[Hot] = file[Hot] /\ pc'[Hot] = pc[Hot] /\ info'[Hot] = info[Hot]
      /\ seen'[Hot] = seen[Hot] /\ body'[Hot] = body[Hot]
  BY <1>2 DEF OthersKept, Threads
<1>8. \A u \in Threads \ {h} : kept'[u] = kept[u]  BY DEF Forget, Typed, Reading
<1>5. FileRight(f) /\ (cold[f] => disk[Real(f)] # Absent)  BY DEF FilesRight, FileRight
<1>6. CASE row[f] = None
  <2>1. announced[f] = None /\ Unannounced(f)  BY <1>5, <1>6 DEF FileRight
  <2>2. file'[h] = None  BY <1>1, <1>6 DEF Forget, Typed, Control
  <2>3. \A k \in Handlers \ {h} : file[k] = f => body'[k] = body[k] /\ info'[k] = info[k]
    BY <1>2 DEF OthersKept, Threads
  <2>4. Unannounced(f)'
    <3>1. UNCHANGED <<disk, cold, row, open>>  OBVIOUS
    <3>2. pc[h] = "d_row" /\ f # None  OBVIOUS
    <3>3. \A k \in Handlers : file'[k] = f =>
            k # h /\ file[k] = f /\ pc'[k] = pc[k] /\ body'[k] = body[k] /\ info'[k] = info[k]
      BY <1>3, <2>2, <2>3, <3>2
    <3>4. (\A k \in Handlers : file'[k] = f => pc'[k] = "d_row") =>
            (\A k \in Handlers : file[k] = f => pc[k] = "d_row")
      BY <1>3, <3>2
    <3> HIDE DEF DownloadRow
    <3> QED  BY <1>4, <2>1, <3>1, <3>3, <3>4 DEF Unannounced, Untouched
  <2>5. FileRight(f)'  BY <1>5, <2>1, <2>4 DEF FileRight
  <2> QED  BY <1>1, <1>2, <1>8, <2>2, <2>5, OneFileSteps DEF KeptFile
<1>7. CASE row[f] # None
  <2>1. announced[f] # None  BY <1>1, <1>7, Downloader DEF DownloadLabels
  <2>2. file' = file /\ info' = [info EXCEPT ![h] = row[f]] /\ UNCHANGED <<seen, body>>
    BY <1>1, <1>7
  <2>3. /\ row[f].pack_flag => pc'[h] = "d_psize"
        /\ ~row[f].pack_flag => pc'[h] = "d_size"
    BY <1>1, <1>7 DEF Typed, Control
  <2>4. \A k \in Handlers : file'[k] = f => pc'[k] \in DownloadLabels
    BY <1>3, <1>5, <2>1, <2>2, <2>3, <1>7 DEF FileRight, DownloadLabels, RestoreLabels
  <2>5. ASSUME file[Hot] = f PROVE Packing(f)'
    <3>1. Packing(f)  BY <1>5, <2>1, <2>5 DEF FileRight
    <3>2. \A k \in Handlers : file'[k] = f => pc'[k] \in LookLabels /\ ServesAt(k, f)'
      BY <1>3, <1>8, <2>2, <2>3, <3>1 DEF Packing, LookLabels, ServesAt, Threads
    <3>3. kept'[Hot] = None  BY <1>8, <3>1 DEF Packing, Threads
    <3> QED  BY <1>3, <1>4, <2>2, <2>3, <3>1, <3>2, <3>3 DEF Packing
  <2>6. ASSUME file[Hot] # f PROVE Shared(f)'
    <3>1. Shared(f)  BY <1>5, <2>1, <2>6 DEF FileRight
    <3>2. Writing(f)' <=> Writing(f)
      BY <1>1, <1>3, <2>2, <2>3 DEF Writing
    <3>3. \A k \in Handlers : file'[k] = f => RestoresAt(k, f)' /\ ServesAt(k, f)'
      <4>1. RestoresAt(h, f)' /\ ServesAt(h, f)'
        BY <2>3, <1>7 DEF RestoresAt, ServesAt, PackReads
      <4>2. ASSUME NEW k \in Handlers \ {h}, file[k] = f
            PROVE  RestoresAt(k, f)' /\ ServesAt(k, f)'
        <5>1. RestoresAt(k, f) /\ ServesAt(k, f) /\ kept'[k] = kept[k] /\ pc'[k] = pc[k]
          BY <1>3, <1>8, <3>1, <4>2 DEF Shared, Threads
        <5> QED  BY <2>2, <5>1 DEF RestoresAt, ServesAt
      <4> QED  BY <2>2, <4>1, <4>2
    <3>4. (\E k \in Handlers : file'[k] = f /\ pc'[k] \in RestoreLabels)
            => row[f].pack_flag \/ (\E k \in Handlers : file[k] = f /\ pc[k] \in RestoreLabels)
      BY <1>3, <2>2, <2>3 DEF RestoreLabels
    <3>5. (\E k \in Handlers : file[k] = f /\ pc[k] \in {"d_write", "d_remove", "d_update"})
            => (\E k \in Handlers : file'[k] = f /\ pc'[k] \in {"d_write", "d_remove", "d_update"})
      BY <1>3, <2>2
    <3> QED  BY <1>5, <3>1, <3>2, <3>3, <3>4, <3>5 DEF Shared
  <2>7. FileRight(f)'  BY <1>5, <1>7, <2>1, <2>2, <2>4, <2>5, <2>6 DEF FileRight
  <2> QED  BY <1>1, <1>2, <1>8, <2>2, <2>7, OneFileSteps DEF KeptFile
<1> QED  BY <1>6, <1>7

LEMMA RestoreShared ==
  ASSUME Typed, UploadsApart, FilesRight, NEW h \in Handlers, NEW f \in Files,
         NEW l \in RestoreLabels \cup {"d_size"},
         pc[h] \in RestoreLabels, f = file[h], pc' = [pc EXCEPT ![h] = l],
         UNCHANGED <<file, announced, cold>>, OthersKept(h),
         \A k \in Handlers \ {h} : open[k] = Real(f) => open'[k] = open[k],
         disk'[Real(f)] \in {announced[f], Empty, Absent},
         disk'[PackOf(f)] \in {Archive(announced[f]), Absent},
         disk'[Real(f)] = Absent => disk[Real(f)] = Absent,
         disk[PackOf(f)] = Absent => disk'[PackOf(f)] = Absent,
         disk'[Real(f)] = Absent => disk'[PackOf(f)] = Archive(announced[f]) /\ row'[f].pack_flag,
         disk'[Real(f)] = Empty => Writing(f)',
         row'[f].pack_flag /\ disk'[Real(f)] # Absent =>
           \/ l \in {"d_write", "d_remove", "d_update"}
           \/ /\ row[f].pack_flag /\ disk[Real(f)] # Absent
              /\ pc[h] \notin {"d_write", "d_remove", "d_update"},
         disk'[PackOf(f)] = disk[PackOf(f)] \/
           \A k \in Handlers \ {h} : file[k] = f /\ pc[k] \in PackReads => kept'[k] # None,
         \A k \in Handlers \ {h} : file[k] = f =>
           kept'[k] = kept[k] \/ (pc[k] \in PackReads /\ kept'[k] = Archive(announced[f])),
         RestoresAt(h, f)'
  PROVE  Shared(f)'
<1> h \in Threads  BY DEF Threads
<1>1. Shared(f) /\ ~cold[f]  BY Restorer DEF DownloadLabels, RestoreLabels
<1>2. pc'[h] = l /\ \A k \in Handlers \ {h} : pc'[k] = pc[k]
  BY DEF Typed, Control, Threads
<1>3. ASSUME NEW k \in Handlers, file[k] = f PROVE RestoresAt(k, f)' /\ ServesAt(k, f)'
  <2>1. CASE k = h  BY <1>2, <2>1 DEF ServesAt, RestoreLabels
  <2>2. CASE k # h
    <3>1. RestoresAt(k, f) /\ ServesAt(k, f)  BY <1>1, <1>3 DEF Shared
    <3>2. pc'[k] = pc[k] /\ seen'[k] = seen[k] /\ body'[k] = body[k]
      BY <2>2, <1>2 DEF OthersKept, Threads
    <3>3. ServesAt(k, f)'  BY <1>3, <2>2, <3>1, <3>2 DEF ServesAt, PackReads
    <3>4. pc[k] \in PackReads =>
            /\ seen[k] = "some" /\ kept'[k] \in {None, Archive(announced[f])}
            /\ kept'[k] = None => disk'[PackOf(f)] # Absent
      BY <1>3, <2>2, <3>1, NamesAssumption DEF RestoresAt
    <3> QED  BY <1>3, <2>2, <3>1, <3>2, <3>3, <3>4 DEF RestoresAt
  <2> QED  BY <2>1, <2>2
<1>4. row'[f].pack_flag /\ disk'[Real(f)] # Absent =>
        \E k \in Handlers : file'[k] = f /\ pc'[k] \in {"d_write", "d_remove", "d_update"}
  BY <1>1, <1>2 DEF Shared
<1> QED  BY <1>1, <1>3, <1>4 DEF Shared

LEMMA RestoreFiles ==
  ASSUME PromptService, Typed, Writes, UploadsApart, FilesRight, NEW h \in Handlers,
         \/ UnpackSize(h) \/ UnpackBegin(h) \/ UnpackCheck(h) \/ UnpackRead(h)
         \/ UnpackOpen(h) \/ UnpackWrite(h) \/ UnpackRemove(h) \/ UnpackUpdate(h)
  PROVE  FilesRight'
<1> USE NamesAssumption DEF PromptService, Goto
<1> h \in Threads  BY DEF Threads
<1>1. pc[h] \in RestoreLabels /\ pc[h] \in DownloadLabels \ {"d_row"}
  BY DEF UnpackSize, UnpackBegin, UnpackCheck, UnpackRead, UnpackOpen, UnpackWrite,
         UnpackRemove, UnpackUpdate, RestoreLabels, DownloadLabels
<1>2. PICK f \in Files, v \in Versions : f = file[h] /\ v = announced[f]
  BY <1>1, Restorer
<1>3. /\ Shared(f) /\ RestoresAt(h, f) /\ row[f] \in Rows
      /\ disk[PackOf(f)] \in {Archive(v), Absent} /\ ~cold[f]
  BY <1>1, <1>2, Restorer
<1>4. v \notin {Absent, Empty} /\ Archive(v) \notin {Absent, Empty}  OBVIOUS
<1>5. /\ disk[Real(f)] \in {v, Empty, Absent}
      /\ disk[Real(f)] = Absent => disk[PackOf(f)] = Archive(v) /\ row[f].pack_flag
      /\ disk[Real(f)] = Empty => Writing(f)
  BY <1>2, <1>3 DEF Shared
<1>6. ASSUME UnpackSize(h) PROVE FilesRight'
  <2> USE <1>6 DEF UnpackSize
  <2>1. pc'[h] = "d_pbegin" /\ OthersKept(h)
    BY DEF OthersKept, GetSize, Typed, Control, Memory
  <2>2. RestoresAt(h, f)'
    <3>1. seen'[h] = Size(disk[PackOf(f)])  BY <1>2 DEF GetSize, Typed, Memory
    <3> QED  BY <1>3, <1>4, <2>1, <3>1 DEF RestoresAt, Size, PackReads
  <2>3. Writing(f) => Writing(f)'  BY DEF Writing, Typed, Control
  <2>4. Shared(f)'
    BY <1>1, <1>2, <1>3, <1>5, <2>1, <2>2, <2>3, RestoreShared
        DEF DownloadLabels, RestoreLabels
  <2>5. FileRight(f)'
    BY <1>1, <1>2, <1>3, <2>4, RestoreFile DEF DownloadLabels, RestoreLabels
  <2> QED  BY <1>2, <2>1, <2>5, OneFileSteps DEF KeptFile
<1>12. ASSUME UnpackBegin(h) PROVE FilesRight'
  <2> USE <1>12 DEF UnpackBegin, Returned
  <2>1. OthersKept(h) /\ \A u \in Threads \ {h} : kept'[u] = kept[u]
    BY DEF OthersKept, Typed, Control, Memory, Reading
  <2>2. CASE disk[PackOf(f)] = Absent
    <3>1. disk[Real(f)] # Absent  BY <1>4, <1>5, <2>2
    <3>2. pc' = [pc EXCEPT ![h] = "d_remove"] /\ pc'[h] = "d_remove"
      BY <1>2, <2>2 DEF Typed, Control
    <3>3. RestoresAt(h, f)'  BY <3>1, <3>2 DEF RestoresAt, PackReads
    <3>4. Writing(f) => Writing(f)'  BY <3>2 DEF Writing, Typed, Control
    <3>5. Shared(f)'
      BY <1>1, <1>2, <1>3, <1>5, <2>1, <3>2, <3>3, <3>4, RestoreShared
          DEF DownloadLabels, RestoreLabels, Threads
    <3>6. FileRight(f)'
      BY <1>1, <1>2, <1>3, <3>2, <3>5, RestoreFile DEF DownloadLabels, RestoreLabels
    <3> QED  BY <1>2, <2>1, <3>6, OneFileSteps DEF KeptFile
  <2>3. CASE disk[PackOf(f)] # Absent
    <3>1. seen[h] = "some" /\ kept[h] = None
      BY <1>3, <2>3 DEF RestoresAt, Typed, Memory, Reading, ReadLabels, PackReads, RealReads
    <3>2. /\ pc' = [pc EXCEPT ![h] = "d_pcheck"] /\ pc'[h] = "d_pcheck"
          /\ UNCHANGED <<seen, kept>>
      BY <1>2, <2>3 DEF Typed, Control
    <3>3. RestoresAt(h, f)'  BY <2>3, <3>1, <3>2 DEF RestoresAt
    <3>4. Writing(f) => Writing(f)'  BY <3>2 DEF Writing, Typed, Control
    <3>5. Shared(f)'
      BY <1>1, <1>2, <1>3, <1>5, <2>1, <3>2, <3>3, <3>4, RestoreShared
          DEF DownloadLabels, RestoreLabels, Threads
    <3>6. FileRight(f)'
      BY <1>1, <1>2, <1>3, <3>2, <3>5, RestoreFile DEF DownloadLabels, RestoreLabels
    <3> QED  BY <1>2, <2>1, <3>6, OneFileSteps DEF KeptFile
  <2> QED  BY <2>2, <2>3
<1>13. ASSUME UnpackCheck(h) PROVE FilesRight'
  <2>1. pc[h] = "d_pcheck" /\ seen[h] = "some"
    BY <1>3, <1>13 DEF UnpackCheck, RestoresAt, PackReads
  <2>2. Fits(h, PackOf(file[h])) /\ ~Throws(h, PackOf(file[h]))
    BY <1>2, <1>3, <1>4, <2>1 DEF Fits, Throws
  <2>3. /\ pc' = [pc EXCEPT ![h] = "d_pread"]
        /\ UNCHANGED <<disk, cold, row, file, open, seen, kept, body, info, announced>>
    BY <1>13, <2>2 DEF UnpackCheck
  <2>4. pc'[h] = "d_pread"  BY <2>3 DEF Typed, Control
  <2>5. OthersKept(h)  BY <2>3 DEF OthersKept, Typed, Control
  <2>6. RestoresAt(h, f)'  BY <1>3, <2>1, <2>3, <2>4 DEF RestoresAt, PackReads
  <2>7. Writing(f) => Writing(f)'  BY <2>1, <2>3 DEF Writing, Typed, Control
  <2>8. Shared(f)'
    BY <1>1, <1>2, <1>3, <1>5, <2>1, <2>3, <2>5, <2>6, <2>7, RestoreShared
        DEF DownloadLabels, RestoreLabels
  <2>9. FileRight(f)'
    BY <1>1, <1>2, <1>3, <2>3, <2>8, RestoreFile DEF DownloadLabels, RestoreLabels
  <2> QED  BY <1>2, <2>3, <2>5, <2>9, OneFileSteps DEF KeptFile
<1>7. ASSUME UnpackRead(h) PROVE FilesRight'
  <2> USE <1>7 DEF UnpackRead, Returned
  <2>1. OthersKept(h) /\ \A u \in Threads \ {h} : kept'[u] = kept[u]
    BY DEF OthersKept, Typed, Control, Memory, Reading
  <2>2. Source(h, PackOf(f)) = Archive(v) /\ seen[h] = "some"
    BY <1>2, <1>3 DEF Source, RestoresAt, PackReads
  <2>3. Good(h, PackOf(f)) /\ Read(h, PackOf(f)) = Archive(v)
    BY <1>4, <2>2 DEF Good, Read, Size
  <2>4. Unpack(Read(h, PackOf(f))) = v  BY <2>3 DEF Unpack, Archive
  <2>5. pc' = [pc EXCEPT ![h] = "d_open"] /\ pc'[h] = "d_open" /\ body'[h] = v
    BY <1>2, <2>3, <2>4 DEF Typed, Control, Memory
  <2>6. RestoresAt(h, f)'  BY <1>2, <2>5 DEF RestoresAt, PackReads
  <2>7. Writing(f) => Writing(f)'  BY <2>5 DEF Writing, Typed, Control
  <2>8. Shared(f)'
    BY <1>1, <1>2, <1>3, <1>5, <2>1, <2>5, <2>6, <2>7, RestoreShared
        DEF DownloadLabels, RestoreLabels, Threads
  <2>9. FileRight(f)'
    BY <1>1, <1>2, <1>3, <2>5, <2>8, RestoreFile DEF DownloadLabels, RestoreLabels
  <2> QED  BY <1>2, <2>1, <2>9, OneFileSteps DEF KeptFile

<1>8. ASSUME UnpackOpen(h) PROVE FilesRight'
  <2> USE <1>8 DEF UnpackOpen
  <2>1. pc'[h] = "d_write" /\ OthersKept(h)
    BY DEF OthersKept, Typed, Control, Memory
  <2>2. /\ disk'[Real(f)] = Empty /\ open'[h] = Real(f)
        /\ \A q \in Paths \ {Real(f)} : disk'[q] = disk[q]
    BY <1>2, PathFacts, OpenEffect
  <2>3. cold' = cold /\ \A u \in Threads \ {h} : open'[u] = open[u]
    BY <1>2, <1>3, PathFacts DEF OpenForWriting, Typed, Tables, Open
  <2>4. body[h] = v  BY <1>2, <1>3 DEF RestoresAt
  <2>5. disk'[PackOf(f)] = disk[PackOf(f)]  BY <2>2, PathFacts
  <2>6. RestoresAt(h, f)'  BY <1>2, <2>1, <2>2, <2>4 DEF RestoresAt, PackReads
  <2>7. Writing(f)'  BY <1>2, <2>1 DEF Writing
  <2>8. Shared(f)'
    BY <1>1, <1>2, <1>3, <2>1, <2>2, <2>3, <2>5, <2>6, <2>7, RestoreShared
        DEF DownloadLabels, RestoreLabels, Threads
  <2>9. FileRight(f)'
    BY <1>1, <1>2, <1>3, <2>3, <2>8, RestoreFile DEF DownloadLabels, RestoreLabels
  <2>10. \A g \in Files \ {f} : KeptFile(g) /\ cold'[g] = cold[g]
    BY <2>2, <2>3, PathFacts DEF KeptFile
  <2> QED  BY <1>2, <2>1, <2>3, <2>9, <2>10, OneFileSteps
<1>9. ASSUME UnpackWrite(h) PROVE FilesRight'
  <2> USE <1>9 DEF UnpackWrite
  <2>1. pc'[h] = "d_remove" /\ OthersKept(h)
    BY DEF OthersKept, Typed, Control, Memory
  <2>2. body[h] = v /\ open[h] = Real(f)  BY <1>2, <1>3 DEF RestoresAt
  <2>3. /\ disk'[Real(f)] = v
        /\ \A q \in Paths \ {Real(f)} : disk'[q] = disk[q]
    BY <2>2, PathFacts, WriteEffect
  <2>4. \A u \in Threads \ {h} : open'[u] = open[u]  BY DEF Write, Typed, Open
  <2>5. disk'[PackOf(f)] = disk[PackOf(f)]  BY <2>3, PathFacts
  <2>6. RestoresAt(h, f)'  BY <1>4, <2>1, <2>3 DEF RestoresAt, PackReads
  <2>7. Shared(f)'
    BY <1>1, <1>2, <1>3, <1>4, <2>1, <2>3, <2>4, <2>5, <2>6, RestoreShared
        DEF DownloadLabels, RestoreLabels, Threads
  <2>8. FileRight(f)'
    BY <1>1, <1>2, <1>3, <2>7, RestoreFile DEF DownloadLabels, RestoreLabels
  <2>9. \A g \in Files \ {f} : KeptFile(g) /\ cold'[g] = cold[g]
    BY <2>3, PathFacts DEF KeptFile
  <2> QED  BY <1>2, <2>1, <2>4, <2>8, <2>9, OneFileSteps
<1>10. ASSUME UnpackRemove(h) PROVE FilesRight'
  <2> USE <1>10 DEF UnpackRemove
  <2>1. pc'[h] = "d_update" /\ OthersKept(h)
    BY DEF OthersKept, Typed, Control, Memory
  <2>2. disk[Real(f)] # Absent  BY <1>3 DEF RestoresAt
  <2>3. /\ disk'[PackOf(f)] = Absent
        /\ \A q \in Paths \ {PackOf(f)} : disk'[q] = disk[q]
    BY <1>2, PathFacts, RemoveEffect
  <2>4. \A u \in Threads, p \in Paths \ {PackOf(f)} : open[u] = p => open'[u] = p
    BY <1>2 DEF Remove, Typed, Open
  <2>5. disk'[Real(f)] = disk[Real(f)]  BY <2>3, PathFacts
  <2>6. RestoresAt(h, f)'  BY <2>1, <2>2, <2>5 DEF RestoresAt, PackReads
  <2>7. Writing(f) => Writing(f)'  BY DEF Writing, Typed, Control
  <2>8. \A k \in Handlers \ {h} : open[k] = Real(f) => open'[k] = open[k]
    BY <2>4, PathFacts DEF Threads
  <2>13. \A t \in Threads : open[t] # PackOf(f)
    <3>1. open[Hot] # PackOf(f)
      <4>1. file[Hot] # f /\ PackOf(f) # NoPath  BY <1>1, <1>2, Restorer, PathFacts
      <4>2. PackOf(f) \notin {Real(file[Hot]), PackOf(file[Hot])}
        BY <4>1 DEF Real, PackOf
      <4> QED  BY <4>1, <4>2 DEF Writes, Threads
    <3> QED  BY <3>1 DEF Typed, Open, Threads
  <2>14. \A t \in Threads :
           kept'[t] = IF Reads(t, PackOf(f)) /\ kept[t] = None THEN disk[PackOf(f)] ELSE kept[t]
    BY <1>2, <2>13, PathFacts, RemoveHolds
  <2>15. ASSUME NEW k \in Handlers \ {h}, file[k] = f
         PROVE  /\ kept'[k] = kept[k] \/ (pc[k] \in PackReads /\ kept'[k] = Archive(v))
                /\ pc[k] \in PackReads => kept'[k] # None
    <3>1. k \in Threads /\ RestoresAt(k, f)  BY <1>3, <2>15 DEF Threads, Shared
    <3>2. Reads(k, PackOf(f)) => pc[k] \in PackReads  BY <3>1, ReadsWhat
    <3>3. pc[k] \in PackReads => Reads(k, PackOf(f))  BY <2>15, <3>1, ReadsWhat
    <3>4. pc[k] \in PackReads /\ kept[k] = None => disk[PackOf(f)] = Archive(v)
      BY <1>2, <1>3, <3>1 DEF RestoresAt
    <3>5. Archive(v) # None  BY <1>2 DEF Contents
    <3> QED  BY <2>14, <3>1, <3>2, <3>3, <3>4, <3>5
  <2>9. Shared(f)'
    BY <1>1, <1>2, <1>3, <1>5, <2>1, <2>2, <2>3, <2>5, <2>6, <2>7, <2>8, <2>15, RestoreShared
        DEF DownloadLabels, RestoreLabels
  <2>10. FileRight(f)'
    BY <1>1, <1>2, <1>3, <2>9, RestoreFile DEF DownloadLabels, RestoreLabels
  <2>11. \A g \in Files \ {f} : KeptFile(g) /\ cold'[g] = cold[g]
    BY <2>3, PathFacts DEF KeptFile
  <2>12. ASSUME NEW u \in Threads \ {h}, NEW g \in Files \ {f}, open[u] \in {Real(g), PackOf(g)}
         PROVE  open'[u] = open[u]
    BY <2>4, <2>12, PathFacts
  <2>16. \A u \in Threads \ {h} : kept'[u] = kept[u] \/ file[u] = f
    BY <2>14, ReadsWhat
  <2> QED  BY <1>2, <2>1, <2>10, <2>11, <2>12, <2>16, OneFileSteps
<1>11. ASSUME UnpackUpdate(h) PROVE FilesRight'
  <2> USE <1>11 DEF UnpackUpdate
  <2>1. pc'[h] = "d_size" /\ OthersKept(h)
    BY DEF OthersKept, Typed, Control, Memory
  <2>2. disk[Real(f)] # Absent  BY <1>3 DEF RestoresAt
  <2>3. Updata(f, FALSE) /\ row[f] # None  BY <1>2, <1>3
  <2>4. row'[f] # None /\ ~row'[f].pack_flag /\ \A g \in Files \ {f} : row'[g] = row[g]
    BY <2>3, UpdataRow
  <2>5. RestoresAt(h, f)'  BY <2>1 DEF RestoresAt, PackReads
  <2>6. Writing(f) => Writing(f)'  BY DEF Writing, Typed, Control
  <2>7. Shared(f)'
    BY <1>1, <1>2, <1>3, <1>5, <2>1, <2>2, <2>4, <2>5, <2>6, RestoreShared
        DEF DownloadLabels, RestoreLabels
  <2>8. FileRight(f)'
    BY <1>1, <1>2, <2>4, <2>7, RestoreFile DEF DownloadLabels, RestoreLabels
  <2> QED  BY <1>2, <2>1, <2>4, <2>8, OneFileSteps DEF KeptFile
<1> QED  BY <1>6, <1>7, <1>8, <1>9, <1>10, <1>11, <1>12, <1>13

\* A handler that serves a file goes on with it, or is done.
Serves(h) ==
  /\ pc[h] \in LookLabels \ {"d_row"}
  /\ UNCHANGED <<disk, row, open, announced>>
  /\ OthersKept(h) /\ \A u \in Threads \ {h} : kept'[u] = kept[u]
  /\ cold' = cold \/ cold' = [cold EXCEPT ![file[h]] = FALSE]
  /\ \/ file' = file /\ kept' = kept /\ pc'[h] \in LookLabels \ {"d_row"}
     \/ file'[h] = None

LEMMA ServeSteps ==
  ASSUME Typed, NEW h \in Handlers,
         ServeSize(h) \/ ServeBegin(h) \/ ServeCheck(h) \/ ServeRead(h)
  PROVE  Serves(h)
<1> h \in Threads  BY DEF Threads
<1> USE DEF Goto, Serves, LookLabels, OthersKept, Typed, Control, Memory, Reading
<1>1. CASE ServeSize(h)  BY <1>1 DEF ServeSize, GetSize
<1>2. ASSUME NEW b, NEW e, NEW s, Answer(h, b, e, s)
      PROVE  /\ file'[h] = None
             /\ \A u \in Threads \ {h} : /\ file'[u] = file[u] /\ seen'[u] = seen[u]
                                         /\ body'[u] = body[u] /\ info'[u] = info[u]
                                         /\ kept'[u] = kept[u]
  BY <1>2 DEF Answer, Forget
<1>3. ASSUME NEW l \in Labels, pc' = [pc EXCEPT ![h] = l],
             \/ Fail(h) \/ \E b : Serve(h, b)
             \/ UNCHANGED <<file, seen, kept, body, info>> /\ l \in LookLabels \ {"d_row"}
      PROVE  /\ OthersKept(h) /\ \A u \in Threads \ {h} : kept'[u] = kept[u]
             /\ \/ file' = file /\ kept' = kept /\ pc'[h] \in LookLabels \ {"d_row"}
                \/ file'[h] = None
  BY <1>2, <1>3 DEF Fail, Serve
<1>4. {"idle", "d_check", "d_read"} \subseteq Labels
  BY DEF Labels, DownloadLabels, RestoreLabels, RestLabels
<1>5. CASE ServeBegin(h)
  <2> USE <1>5 DEF ServeBegin
  <2>1. CASE disk[Real(file[h])] = Absent
    <3>1. Serve(h, Empty) /\ pc' = [pc EXCEPT ![h] = "idle"]  BY <2>1
    <3> QED  BY <1>3, <1>4, <3>1
  <2>2. CASE disk[Real(file[h])] # Absent
    <3>1. pc' = [pc EXCEPT ![h] = "d_check"] /\ UNCHANGED <<file, seen, kept, body, info>>
      BY <2>2
    <3> QED  BY <1>3, <1>4, <3>1
  <2> QED  BY <2>1, <2>2
<1>6. CASE ServeCheck(h)
  <2> USE <1>6 DEF ServeCheck
  <2> DEFINE q == Real(file[h])
  <2>1. CASE Fits(h, q)
    <3>1. ~Throws(h, q)  BY <2>1 DEF Fits, Throws
    <3>2. pc' = [pc EXCEPT ![h] = "d_read"] /\ UNCHANGED <<file, seen, kept, body, info>>
      BY <2>1, <3>1
    <3> QED  BY <1>3, <1>4, <3>2
  <2>2. CASE Throws(h, q)
    <3>1. ~Fits(h, q)  BY <2>2 DEF Fits, Throws
    <3>2. pc' = [pc EXCEPT ![h] = "idle"] /\ Fail(h)  BY <2>2, <3>1
    <3> QED  BY <1>3, <1>4, <3>2
  <2>3. CASE ~Fits(h, q) /\ ~Throws(h, q)
    <3>1. pc' = [pc EXCEPT ![h] = "idle"] /\ Serve(h, Empty)  BY <2>3
    <3> QED  BY <1>3, <1>4, <3>1
  <2> QED  BY <2>1, <2>2, <2>3
<1>7. CASE ServeRead(h)
  <2>1. pc' = [pc EXCEPT ![h] = "idle"] /\ \E b : Serve(h, b)  BY <1>7 DEF ServeRead
  <2>2. cold' = cold \/ cold' = [cold EXCEPT ![file[h]] = FALSE]
    BY <1>7 DEF ServeRead, Touch
  <2>3. pc[h] = "d_read" /\ UNCHANGED <<disk, row, open, announced>>  BY <1>7 DEF ServeRead
  <2> QED  BY <1>3, <1>4, <2>1, <2>2, <2>3
<1> QED  BY <1>1, <1>5, <1>6, <1>7

LEMMA ServeFiles ==
  ASSUME Typed, UploadsApart, FilesRight, NEW h \in Handlers,
         ServeSize(h) \/ ServeBegin(h) \/ ServeCheck(h) \/ ServeRead(h)
  PROVE  FilesRight'
<1> USE NamesAssumption
<1> h \in Threads  BY DEF Threads
<1>0. Serves(h)  BY ServeSteps
<1> HIDE DEF Serves
<1>1. pc[h] \in LookLabels \ {"d_row"} /\ UNCHANGED <<disk, row, open, announced>>
  BY <1>0 DEF Serves
<1>2. pc[h] \in DownloadLabels \ {"d_row"} /\ pc[h] \notin RestoreLabels
  BY <1>1 DEF LookLabels, RestoreLabels, DownloadLabels
<1>3. PICK f \in Files : f = file[h] /\ announced[f] # None /\ row[f] # None
  BY <1>2, Restorer DEF Contents, Bodies
<1>4. OthersKept(h) /\ \A u \in Threads \ {h} : kept'[u] = kept[u]
  BY <1>0 DEF Serves
<1>5. /\ file'[h] = f => pc'[h] \in LookLabels \ {"d_row"}
      /\ file'[h] \in {f, None} /\ f # None
      /\ file'[h] = f => kept'[h] = kept[h]
  BY <1>0, <1>3 DEF Serves
<1>6. \A k \in Handlers \ {h} : /\ file'[k] = file[k] /\ pc'[k] = pc[k] /\ kept'[k] = kept[k]
                                /\ seen'[k] = seen[k] /\ body'[k] = body[k]
  BY <1>4 DEF OthersKept, Threads
<1>7. /\ file'[Hot] = file[Hot] /\ pc'[Hot] = pc[Hot] /\ info'[Hot] = info[Hot]
      /\ seen'[Hot] = seen[Hot] /\ body'[Hot] = body[Hot] /\ kept'[Hot] = kept[Hot]
  BY <1>4 DEF OthersKept, Threads
<1>8. /\ cold'[f] => cold[f]
      /\ \A g \in Files \ {f} : cold'[g] = cold[g]
  BY <1>0, <1>3 DEF Serves, Typed, Tables
<1>14. ASSUME NEW k \in Handlers, file[k] = f => ServesAt(k, f), file'[k] = f
       PROVE  ServesAt(k, f)'
  <2>1. CASE k = h
    <3>1. kept[h] # None => pc[h] \in {"d_check", "d_read"}
      BY <1>1 DEF Typed, Reading, ReadLabels, PackReads, RealReads, LookLabels
    <3> QED  BY <1>1, <1>3, <1>5, <1>14, <2>1, <3>1 DEF ServesAt
  <2>2. CASE k # h  BY <1>1, <1>6, <1>14, <2>2 DEF ServesAt
  <2> QED  BY <2>1, <2>2
<1>9. FileRight(f)  BY DEF FilesRight
<1>10. ASSUME file[Hot] = f PROVE Packing(f)'
  <2>1. Packing(f)  BY <1>3, <1>9, <1>10 DEF FileRight
  <2>2. \A k \in Handlers : file'[k] = f => pc'[k] \in LookLabels /\ ServesAt(k, f)'
    BY <1>5, <1>6, <1>14, <2>1 DEF Packing
  <2> QED  BY <1>1, <1>7, <2>1, <2>2 DEF Packing
<1>11. ASSUME file[Hot] # f PROVE Shared(f)'
  <2>1. Shared(f)  BY <1>3, <1>9, <1>11 DEF FileRight
  <2>2. Writing(f) => Writing(f)'  BY <1>1, <1>6 DEF Writing, LookLabels
  <2>3. (\E k \in Handlers : file'[k] = f /\ pc'[k] \in RestoreLabels)
          => (\E k \in Handlers : file[k] = f /\ pc[k] \in RestoreLabels)
    BY <1>5, <1>6 DEF RestoreLabels, LookLabels
  <2>4. (\E k \in Handlers : file[k] = f /\ pc[k] \in {"d_write", "d_remove", "d_update"})
          => (\E k \in Handlers : file'[k] = f /\ pc'[k] \in {"d_write", "d_remove", "d_update"})
    BY <1>1, <1>6 DEF LookLabels
  <2>5. \A k \in Handlers : file'[k] = f => RestoresAt(k, f)' /\ ServesAt(k, f)'
    <3>1. file'[h] = f => RestoresAt(h, f)'  BY <1>5 DEF RestoresAt, LookLabels, PackReads
    <3>2. ASSUME NEW k \in Handlers \ {h}, file[k] = f PROVE RestoresAt(k, f)'
      <4>1. RestoresAt(k, f)  BY <2>1, <3>2 DEF Shared
      <4> QED  BY <1>1, <1>6, <3>2, <4>1 DEF RestoresAt
    <3> QED  BY <1>6, <1>14, <2>1, <3>1, <3>2 DEF Shared
  <2> QED  BY <1>1, <1>8, <2>1, <2>2, <2>3, <2>4, <2>5 DEF Shared
<1>12. \A k \in Handlers : file'[k] = f => pc'[k] \in DownloadLabels
  BY <1>3, <1>5, <1>6, <1>9 DEF FileRight, DownloadLabels, LookLabels
<1>13. FileRight(f)'
  BY <1>1, <1>3, <1>7, <1>8, <1>9, <1>10, <1>11, <1>12 DEF FileRight
<1> QED  BY <1>1, <1>3, <1>4, <1>5, <1>8, <1>13, OneFileSteps DEF KeptFile

\* A step of a thread that works on no file.
LEMMA RestFiles ==
  ASSUME FilesRight, NEW t \in Threads, file[t] \notin Files, file'[t] \notin Files,
         OthersKept(t),
         UNCHANGED <<disk, cold, row, open, kept, announced>>
  PROVE  FilesRight'
<1> SUFFICES ASSUME NEW g \in Files PROVE FileRight(g)'  BY DEF FilesRight
<1>1. \A u \in Threads : file[u] = g \/ file'[u] = g => ThreadKept(u, g)
  BY DEF OthersKept, ThreadKept
<1> QED  BY <1>1, FileKept DEF FilesRight, KeptFile

LEMMA Packer ==
  ASSUME Typed, FilesRight, pc[Hot] \in PackLabels
  PROVE  /\ file[Hot] \in Files /\ announced[file[Hot]] \in Versions /\ row[file[Hot]] # None
         /\ Packing(file[Hot])
         /\ \A h \in Handlers : file[h] = file[Hot] => pc[h] \in LookLabels
         /\ cold[file[Hot]] => disk[Real(file[Hot])] # Absent
<1> Hot \in Threads  BY DEF Threads
<1>1. PICK f \in Files : f = file[Hot]  BY Owner DEF AtRest, RestLabels, PackLabels
<1>2. FileRight(f)  BY DEF FilesRight
<1>3. announced[f] # None  BY <1>1, <1>2 DEF FileRight, Unannounced
<1>4. announced[f] \in Versions  BY <1>3 DEF Typed, Tables
<1>5. Packing(f) /\ row[f] # None  BY <1>1, <1>2, <1>3 DEF FileRight
<1> QED  BY <1>1, <1>2, <1>4, <1>5 DEF Packing, FileRight

\* A step of the hot manager with a file that stays in its hands.
LEMMA PackFile ==
  ASSUME Typed, FilesRight, NEW f \in Files, NEW l \in PackLabels,
         pc[Hot] \in PackLabels, f = file[Hot], pc' = [pc EXCEPT ![Hot] = l],
         UNCHANGED <<file, announced, row>>,
         cold'[f] => cold[f] /\ disk'[Real(f)] # Absent,
         disk'[Real(f)] = IF l = "h_update" THEN Absent ELSE announced[f],
         info'[Hot] # None,
         l \in {"h_begin", "h_check", "h_read"} => seen'[Hot] = "some",
         kept'[Hot] = None,
         \A h \in Handlers : file[h] = f => kept'[h] \in {kept[h], announced[f]},
         l \in {"h_open", "h_write"} => body'[Hot] = Archive(announced[f]),
         l = "h_write" => open'[Hot] = PackOf(f),
         l \in {"h_remove", "h_update"} => disk'[PackOf(f)] = Archive(announced[f])
  PROVE  FileRight(f)'
<1>1. /\ announced[f] \in Versions /\ row[f] # None /\ Packing(f)
      /\ \A h \in Handlers : file[h] = f => pc[h] \in LookLabels
  BY Packer
<1>2. pc'[Hot] = l /\ \A h \in Handlers : pc'[h] = pc[h]
  BY NamesAssumption DEF Typed, Control, Threads
<1>5. \A h \in Handlers : file[h] = f => ServesAt(h, f)'
  BY <1>1, <1>2 DEF Packing, ServesAt
<1>3. Packing(f)'  BY <1>1, <1>2, <1>5 DEF Packing
<1>4. \A h \in Handlers : file[h] = f => pc'[h] \in DownloadLabels
  BY <1>1, <1>2 DEF DownloadLabels, LookLabels
<1> QED  BY <1>1, <1>3, <1>4, NamesAssumption DEF FileRight, Contents, Bodies

LEMMA HotFiles ==
  ASSUME PromptService, Typed, Writes, UploadsApart, UploadsApart', FilesRight, RunModule
  PROVE  FilesRight'
<1> USE NamesAssumption DEF PromptService, Goto
<1> Hot \in Threads  BY DEF Threads
<1>1. ASSUME HotList \/ HotDone \/ \E f \in Files : HotSkip(f) PROVE FilesRight'
  <2>1. /\ pc[Hot] \in {"h_list", "h_next"} /\ file' = file
        /\ UNCHANGED <<disk, cold, row, open, kept, announced>> /\ OthersKept(Hot)
    BY <1>1 DEF HotList, HotDone, HotSkip, OthersKept, Typed, Control
  <2>2. file[Hot] \notin Files  BY <2>1, Owner DEF AtRest, RestLabels
  <2> QED  BY <2>1, <2>2, RestFiles
<1>2. ASSUME NEW f \in Files, HotPick(f) PROVE FilesRight'
  <2> USE <1>2 DEF HotPick
  <2>1. /\ pc'[Hot] = "h_row" /\ file'[Hot] = f /\ file[Hot] = None /\ OthersKept(Hot)
    BY DEF Typed, Control, RestLabels, OthersKept
  <2>2. \A k \in Handlers : file'[k] = file[k] /\ pc'[k] = pc[k] /\ k \in Threads
    BY <2>1 DEF OthersKept, Threads
  <2>3. FileRight(f) /\ file[Hot] # f  BY <2>1 DEF FilesRight
  <2>4. announced[f] # None
    <3> SUFFICES ASSUME announced[f] = None PROVE FALSE  OBVIOUS
    <3>1. Unannounced(f)  BY <2>3 DEF FileRight
    <3>2. row[f] # None  BY <3>1 DEF Unannounced
    <3>3. PICK k \in Handlers : file[k] = f /\ pc[k] \in UploadLabels
      BY <3>1, <3>2 DEF Unannounced, Untouched
    <3>4. row'[f] = None  BY <2>1, <2>2, <3>3 DEF UploadsApart
    <3> QED  BY <3>2, <3>4
  <2>5. Shared(f) /\ row[f] # None /\ \A k \in Handlers : file[k] = f => pc[k] \in DownloadLabels
    BY <2>3, <2>4 DEF FileRight
  <2>6. ~row[f].pack_flag /\ \A k \in Handlers : file[k] = f => pc[k] \notin RestoreLabels
    BY <2>5 DEF Shared
  <2>7. disk[Real(f)] = announced[f]
    <3>1. ~Writing(f)  BY <2>6 DEF Writing, RestoreLabels
    <3>2. disk[Real(f)] # Absent  BY <2>3 DEF FileRight
    <3> QED  BY <2>5, <3>1, <3>2 DEF Shared
  <2>10. ASSUME NEW k \in Handlers, file[k] = f PROVE pc[k] \in LookLabels /\ ServesAt(k, f)'
    <3>1. ServesAt(k, f)  BY <2>5, <2>10 DEF Shared
    <3> QED  BY <2>2, <2>5, <2>6, <2>10, <3>1 DEF ServesAt, LookLabels, DownloadLabels
  <2>11. kept[Hot] = None
    BY DEF Typed, Reading, ReadLabels, PackReads, RealReads
  <2>8. Packing(f)'
    BY <2>1, <2>2, <2>6, <2>7, <2>10, <2>11 DEF Packing
  <2>9. FileRight(f)'
    BY <2>1, <2>2, <2>3, <2>4, <2>5, <2>8 DEF FileRight
  <2> QED  BY <2>1, <2>9, OneFileSteps DEF KeptFile
<1>3. ASSUME pc[Hot] \in PackLabels
      PROVE  \E f \in Files, v \in Versions :
               /\ f = file[Hot] /\ v = announced[f] /\ row[f] # None /\ Packing(f)
               /\ \A h \in Handlers : file[h] = f => pc[h] \in LookLabels
               /\ cold[f] => disk[Real(f)] # Absent
  BY <1>3, Packer
<1>4. ASSUME HotRow PROVE FilesRight'
  <2> USE <1>4 DEF HotRow
  <2>1. PICK f \in Files, v \in Versions :
          /\ f = file[Hot] /\ v = announced[f] /\ row[f] # None /\ Packing(f)
          /\ cold[f] => disk[Real(f)] # Absent
    BY <1>3 DEF PackLabels
  <2>2. info'[Hot] = row[f] /\ kept[Hot] = None  BY <2>1 DEF Typed, Memory, Packing
  <2>3. FileRight(f)'
    BY <2>1, <2>2, PackFile DEF Packing, PackLabels
  <2>4. OthersKept(Hot)  BY DEF OthersKept, Typed, Control, Memory
  <2> QED  BY <2>1, <2>3, <2>4, OneFileSteps DEF KeptFile
<1>5. ASSUME HotSize PROVE FilesRight'
  <2> USE <1>5 DEF HotSize
  <2>1. PICK f \in Files, v \in Versions :
          /\ f = file[Hot] /\ v = announced[f] /\ row[f] # None /\ Packing(f)
          /\ cold[f] => disk[Real(f)] # Absent
    BY <1>3 DEF PackLabels
  <2>2. disk[Real(f)] = v /\ info[Hot] # None /\ kept[Hot] = None  BY <2>1 DEF Packing
  <2>3. seen'[Hot] = "some"  BY <2>1, <2>2 DEF GetSize, Size, Typed, Memory
  <2>4. FileRight(f)'
    BY <2>1, <2>2, <2>3, PackFile DEF PackLabels
  <2>5. OthersKept(Hot)  BY DEF OthersKept, GetSize, Typed, Control, Memory
  <2> QED  BY <2>1, <2>4, <2>5, OneFileSteps DEF KeptFile
<1>11. ASSUME HotBegin PROVE FilesRight'
  <2>1. PICK f \in Files, v \in Versions :
          /\ f = file[Hot] /\ v = announced[f] /\ row[f] # None /\ Packing(f)
          /\ cold[f] => disk[Real(f)] # Absent
    BY <1>3, <1>11 DEF HotBegin, PackLabels
  <2>2. disk[Real(f)] = v /\ info[Hot] # None /\ seen[Hot] = "some" /\ kept[Hot] = None
    BY <1>11, <2>1 DEF HotBegin, Packing
  <2>3. /\ pc[Hot] = "h_begin" /\ pc' = [pc EXCEPT ![Hot] = "h_check"]
        /\ UNCHANGED <<disk, cold, row, file, open, seen, kept, body, info, announced>>
    BY <1>11, <2>1, <2>2 DEF HotBegin
  <2>4. FileRight(f)'
    BY <2>1, <2>2, <2>3, PackFile DEF PackLabels
  <2>5. OthersKept(Hot)  BY <2>3 DEF OthersKept, Typed, Control
  <2> QED  BY <2>1, <2>3, <2>4, <2>5, OneFileSteps DEF KeptFile
<1>12. ASSUME HotCheck PROVE FilesRight'
  <2>1. PICK f \in Files, v \in Versions :
          /\ f = file[Hot] /\ v = announced[f] /\ row[f] # None /\ Packing(f)
          /\ cold[f] => disk[Real(f)] # Absent
    BY <1>3, <1>12 DEF HotCheck, PackLabels
  <2>2. disk[Real(f)] = v /\ info[Hot] # None /\ seen[Hot] = "some" /\ kept[Hot] = None
    BY <1>12, <2>1 DEF HotCheck, Packing
  <2>6. Fits(Hot, Real(file[Hot]))  BY <2>1, <2>2 DEF Fits
  <2>3. /\ pc[Hot] = "h_check" /\ pc' = [pc EXCEPT ![Hot] = "h_read"]
        /\ UNCHANGED <<disk, cold, row, file, open, seen, kept, body, info, announced>>
    BY <1>12, <2>6 DEF HotCheck
  <2>4. FileRight(f)'
    BY <2>1, <2>2, <2>3, PackFile DEF PackLabels
  <2>5. OthersKept(Hot)  BY <2>3 DEF OthersKept, Typed, Control
  <2> QED  BY <2>1, <2>3, <2>4, <2>5, OneFileSteps DEF KeptFile
<1>6. ASSUME HotRead PROVE FilesRight'
  <2> USE <1>6 DEF HotRead, Returned
  <2>1. PICK f \in Files, v \in Versions :
          /\ f = file[Hot] /\ v = announced[f] /\ row[f] # None /\ Packing(f)
          /\ cold[f] => disk[Real(f)] # Absent
    BY <1>3 DEF PackLabels
  <2>2. disk[Real(f)] = v /\ info[Hot] # None /\ seen[Hot] = "some" /\ kept[Hot] = None
    BY <2>1 DEF Packing
  <2>3. Good(Hot, Real(f)) /\ Pack(Read(Hot, Real(f))) = Archive(v)
    BY <2>2 DEF Good, Read, Source, Size, Pack
  <2>8. kept'[Hot] = None /\ \A u \in Threads \ {Hot} : kept'[u] = kept[u]
    BY DEF Typed, Reading
  <2>4. /\ pc' = [pc EXCEPT ![Hot] = "h_open"] /\ body'[Hot] = Archive(v)
        /\ body' = [body EXCEPT ![Hot] = Archive(v)]
    BY <2>1, <2>2, <2>3 DEF Typed, Memory
  <2>5. (cold'[f] => cold[f]) /\ \A g \in Files \ {f} : cold'[g] = cold[g]
    BY <2>1, <2>2 DEF Touch, Typed, Tables
  <2>6. FileRight(f)'
    BY <2>1, <2>2, <2>4, <2>5, <2>8, PackFile DEF PackLabels, Threads
  <2>7. OthersKept(Hot)  BY <2>4 DEF OthersKept, Typed, Control, Memory
  <2> QED  BY <2>1, <2>5, <2>6, <2>7, <2>8, OneFileSteps DEF KeptFile
<1>7. ASSUME HotOpen PROVE FilesRight'
  <2> USE <1>7 DEF HotOpen
  <2>1. PICK f \in Files, v \in Versions :
          /\ f = file[Hot] /\ v = announced[f] /\ row[f] # None /\ Packing(f)
          /\ cold[f] => disk[Real(f)] # Absent
    BY <1>3 DEF PackLabels
  <2>2. disk[Real(f)] = v /\ info[Hot] # None /\ body[Hot] = Archive(v) /\ kept[Hot] = None
    BY <2>1 DEF Packing
  <2>3. /\ open'[Hot] = PackOf(f)
        /\ \A q \in Paths \ {PackOf(f)} : disk'[q] = disk[q]
    BY <2>1, PathFacts, OpenEffect
  <2>4. cold' = cold /\ \A u \in Threads \ {Hot} : open'[u] = open[u]
    BY <2>1, PathFacts DEF OpenForWriting, Typed, Tables, Open
  <2>5. disk'[Real(f)] = v  BY <2>2, <2>3, PathFacts
  <2>6. FileRight(f)'
    BY <2>1, <2>2, <2>3, <2>4, <2>5, PackFile DEF PackLabels
  <2>7. \A g \in Files \ {f} : KeptFile(g) /\ cold'[g] = cold[g]
    BY <2>3, <2>4, PathFacts DEF KeptFile
  <2>8. OthersKept(Hot)  BY DEF OthersKept, Typed, Control, Memory
  <2> QED  BY <2>1, <2>4, <2>6, <2>7, <2>8, OneFileSteps
<1>8. ASSUME HotWrite PROVE FilesRight'
  <2> USE <1>8 DEF HotWrite
  <2>1. PICK f \in Files, v \in Versions :
          /\ f = file[Hot] /\ v = announced[f] /\ row[f] # None /\ Packing(f)
          /\ cold[f] => disk[Real(f)] # Absent
    BY <1>3 DEF PackLabels
  <2>2. /\ disk[Real(f)] = v /\ info[Hot] # None /\ body[Hot] = Archive(v)
        /\ open[Hot] = PackOf(f) /\ kept[Hot] = None
    BY <2>1 DEF Packing
  <2>3. /\ disk'[PackOf(f)] = Archive(v)
        /\ \A q \in Paths \ {PackOf(f)} : disk'[q] = disk[q]
    BY <2>2, PathFacts, WriteEffect
  <2>4. \A u \in Threads \ {Hot} : open'[u] = open[u]  BY DEF Write, Typed, Open
  <2>5. disk'[Real(f)] = v  BY <2>2, <2>3, PathFacts
  <2>6. FileRight(f)'
    BY <2>1, <2>2, <2>3, <2>5, PackFile DEF PackLabels
  <2>7. \A g \in Files \ {f} : KeptFile(g) /\ cold'[g] = cold[g]
    BY <2>3, PathFacts DEF KeptFile
  <2>8. OthersKept(Hot)  BY DEF OthersKept, Typed, Control, Memory
  <2> QED  BY <2>1, <2>4, <2>6, <2>7, <2>8, OneFileSteps
<1>9. ASSUME HotRemove PROVE FilesRight'
  <2> USE <1>9 DEF HotRemove
  <2>1. PICK f \in Files, v \in Versions :
          /\ f = file[Hot] /\ v = announced[f] /\ row[f] # None /\ Packing(f)
          /\ cold[f] => disk[Real(f)] # Absent
    BY <1>3 DEF PackLabels
  <2>2. info[Hot] # None /\ disk[PackOf(f)] = Archive(v)  BY <2>1 DEF Packing
  <2>3. /\ disk'[Real(f)] = Absent
        /\ \A q \in Paths \ {Real(f)} : disk'[q] = disk[q]
    BY <2>1, PathFacts, RemoveEffect
  <2>4. ~cold'[f] /\ \A g \in Files \ {f} : cold'[g] = cold[g]
    BY <2>1 DEF Typed, Tables
  <2>5. disk'[PackOf(f)] = Archive(v)  BY <2>2, <2>3, PathFacts
  <2>11. \A t \in Threads : open[t] # Real(f)
    <3> SUFFICES ASSUME NEW t \in Threads, open[t] = Real(f) PROVE FALSE  OBVIOUS
    <3>1. t \in Handlers  BY DEF Typed, Open, Threads
    <3>2. pc[t] \in WriteLabels /\ Real(f) \in {Real(file[t]), PackOf(file[t])}
      BY PathFacts DEF Writes
    <3>3. file[t] = f  BY <3>2 DEF Real, PackOf
    <3> QED  BY <2>1, <3>1, <3>2, <3>3 DEF Packing, LookLabels, WriteLabels
  <2>12. \A t \in Threads :
           kept'[t] = IF Reads(t, Real(f)) /\ kept[t] = None THEN v ELSE kept[t]
    <3>1. disk[Real(f)] = v  BY <2>1 DEF Packing
    <3> QED  BY <2>1, <2>11, <3>1, PathFacts, RemoveHolds
  <2>13. kept'[Hot] = None /\ \A h \in Handlers : kept'[h] \in {kept[h], v}
    <3>1. ~Reads(Hot, Real(f))  BY ReadsWhat DEF RealReads
    <3> QED  BY <2>1, <2>12, <3>1 DEF Packing, Threads
  <2>6. FileRight(f)'
    BY <2>1, <2>2, <2>3, <2>4, <2>5, <2>13, PackFile DEF PackLabels
  <2>7. \A g \in Files \ {f} : KeptFile(g) /\ cold'[g] = cold[g]
    BY <2>3, <2>4, PathFacts DEF KeptFile
  <2>8. \A u \in Threads, p \in Paths \ {Real(f)} : open[u] = p => open'[u] = p
    BY <2>1 DEF Remove, Typed, Open
  <2>9. ASSUME NEW u \in Threads \ {Hot}, NEW g \in Files \ {f}, open[u] \in {Real(g), PackOf(g)}
        PROVE  open'[u] = open[u]
    BY <2>8, <2>9, PathFacts
  <2>10. OthersKept(Hot)  BY DEF OthersKept, Typed, Control, Memory
  <2>14. \A u \in Threads \ {Hot} : kept'[u] = kept[u] \/ file[u] = f
    BY <2>12, ReadsWhat
  <2> QED  BY <2>1, <2>6, <2>7, <2>9, <2>10, <2>14, OneFileSteps
<1>10. ASSUME HotUpdate PROVE FilesRight'
  <2> USE <1>10 DEF HotUpdate
  <2>1. PICK f \in Files, v \in Versions :
          /\ f = file[Hot] /\ v = announced[f] /\ row[f] # None /\ Packing(f)
          /\ \A h \in Handlers : file[h] = f => pc[h] \in LookLabels
          /\ cold[f] => disk[Real(f)] # Absent
    BY <1>3 DEF PackLabels
  <2>2. info[Hot] # None /\ disk[PackOf(f)] = Archive(v) /\ disk[Real(f)] = Absent
    BY <2>1 DEF Packing
  <2>3. Updata(f, TRUE)  BY <2>1, <2>2
  <2>4. row'[f] # None /\ row'[f].pack_flag = TRUE /\ \A g \in Files \ {f} : row'[g] = row[g]
    BY <2>1, <2>3, UpdataRow
  <2>5. OthersKept(Hot) /\ file'[Hot] = None
    BY DEF Forget, OthersKept, Typed, Control, Memory
  <2>9. \A u \in Threads \ {Hot} : kept'[u] = kept[u]  BY DEF Forget, Typed, Reading
  <2>6. ASSUME NEW h \in Handlers, file'[h] = f PROVE pc'[h] \in LookLabels /\ ServesAt(h, f)'
    <3>1. h # Hot /\ h \in Threads  BY DEF Threads
    <3>2. pc'[h] = pc[h] /\ kept'[h] = kept[h] /\ file[h] = f
      BY <2>5, <2>6, <2>9, <3>1 DEF OthersKept
    <3>3. pc[h] \in LookLabels /\ ServesAt(h, f)  BY <2>1, <3>2 DEF Packing
    <3> QED  BY <3>2, <3>3 DEF ServesAt
  <2>7. Shared(f)'
    <3>1. \A h \in Handlers : file'[h] = f => RestoresAt(h, f)'
      BY <2>6 DEF RestoresAt, LookLabels, PackReads
    <3> QED  BY <2>1, <2>2, <2>4, <2>6, <3>1 DEF Shared, RestoreLabels, LookLabels
  <2>8. FileRight(f)'
    BY <2>1, <2>2, <2>4, <2>5, <2>6, <2>7 DEF FileRight, DownloadLabels, LookLabels, Contents, Bodies
  <2> QED  BY <2>1, <2>4, <2>5, <2>8, <2>9, OneFileSteps DEF KeptFile
<1> QED
  BY <1>1, <1>2, <1>4, <1>5, <1>6, <1>7, <1>8, <1>9, <1>10, <1>11, <1>12 DEF RunModule

LEMMA NextFiles ==
  ASSUME PromptService, Typed, Writes, UploadsApart, UploadsApart', FilesRight, [Next]_vars
  PROVE  FilesRight'
<1> USE NamesAssumption DEF PromptService, Goto
<1>1. ASSUME NEW h \in Handlers, Download(h) PROVE FilesRight'
  BY <1>1, RowFiles, RestoreFiles, ServeFiles DEF Download
<1>2. ASSUME NEW h \in Handlers, NEW f \in Files, NEW c \in Copies \cup {None},
             StartDownload(h, f, c)
      PROVE  FilesRight'
  <2> USE <1>2 DEF StartDownload
  <2> h \in Threads  BY DEF Threads
  <2>1. /\ pc'[h] = "d_row" /\ file'[h] = f /\ file[h] = None /\ OthersKept(h)
    BY DEF OthersKept, Typed, Control, Memory, RestLabels
  <2>2. \A t \in Threads \ {h} : ThreadKept(t, f)  BY <2>1 DEF OthersKept, ThreadKept
  <2>3. FileRight(f) /\ (cold[f] => disk[Real(f)] # Absent)  BY DEF FilesRight, FileRight
  <2>4. ASSUME Unannounced(f) PROVE Unannounced(f)'
    <3>1. UNCHANGED <<disk, cold, row, open>>  OBVIOUS
    <3>2. ASSUME NEW k \in Handlers, file'[k] = f
          PROVE  \/ k = h /\ pc'[k] = "d_row"
                 \/ /\ file[k] = f /\ pc'[k] = pc[k] /\ body'[k] = body[k]
                    /\ info'[k] = info[k]
      BY <2>1, <2>2, <3>2 DEF ThreadKept, Threads
    <3>3. (\A k \in Handlers : file'[k] = f => pc'[k] = "d_row") =>
            (\A k \in Handlers : file[k] = f => pc[k] = "d_row")
      BY <2>1, <2>2 DEF ThreadKept, Threads
    <3>4. file'[Hot] # f /\ "d_row" \notin UploadLabels
      BY <2>2, <2>4 DEF Unannounced, ThreadKept, Threads, UploadLabels
    <3> HIDE DEF StartDownload
    <3> QED  BY <2>4, <3>1, <3>2, <3>3, <3>4 DEF Unannounced, Untouched
  <2>10. ASSUME NEW k \in Handlers, file[k] = f => ServesAt(k, f), file'[k] = f
         PROVE  ServesAt(k, f)'
    <3>1. CASE k = h  BY <2>1, <3>1 DEF ServesAt
    <3>2. CASE k # h
      <4>1. ThreadKept(k, f)  BY <2>2, <3>2 DEF Threads
      <4> QED  BY <2>10, <4>1 DEF ServesAt, ThreadKept
    <3> QED  BY <3>1, <3>2
  <2>5. ASSUME file[Hot] = f, Packing(f) PROVE Packing(f)'
    <3>1. \A k \in Handlers : file'[k] = f => pc'[k] \in LookLabels /\ ServesAt(k, f)'
      BY <2>1, <2>2, <2>5, <2>10 DEF Packing, ThreadKept, Threads, LookLabels
    <3> QED  BY <2>1, <2>2, <2>5, <3>1 DEF Packing, ThreadKept, Threads
  <2>6. ASSUME Shared(f) PROVE Shared(f)'
    <3>1. \A k \in Handlers \ {h} : file'[k] = file[k] /\ pc'[k] = pc[k]
      BY <2>2 DEF ThreadKept, Threads
    <3>2. Writing(f) => Writing(f)'  BY <2>1, <3>1 DEF Writing
    <3>3. (\E k \in Handlers : file'[k] = f /\ pc'[k] \in RestoreLabels)
            => (\E k \in Handlers : file[k] = f /\ pc[k] \in RestoreLabels)
      BY <2>1, <3>1 DEF RestoreLabels
    <3>4. (\E k \in Handlers : file[k] = f /\ pc[k] \in {"d_write", "d_remove", "d_update"})
            => (\E k \in Handlers : file'[k] = f /\ pc'[k] \in {"d_write", "d_remove", "d_update"})
      BY <2>1, <3>1
    <3>5. \A k \in Handlers : file'[k] = f => RestoresAt(k, f)' /\ ServesAt(k, f)'
      <4>1. RestoresAt(h, f)'  BY <2>1 DEF RestoresAt, PackReads
      <4>2. ASSUME NEW k \in Handlers \ {h}, file[k] = f PROVE RestoresAt(k, f)'
        <5>1. RestoresAt(k, f) /\ ThreadKept(k, f)  BY <2>2, <2>6, <4>2 DEF Shared, Threads
        <5> QED  BY <5>1 DEF RestoresAt, ThreadKept
      <4> QED  BY <2>6, <2>10, <3>1, <4>1, <4>2 DEF Shared
    <3> QED  BY <2>6, <3>2, <3>3, <3>4, <3>5 DEF Shared
  <2>7. file'[Hot] = file[Hot]  BY <2>2 DEF ThreadKept, Threads
  <2>8. \A k \in Handlers \ {h} : file'[k] = file[k] /\ pc'[k] = pc[k]
    BY <2>2 DEF ThreadKept, Threads
  <2>9. FileRight(f)'
    BY <2>1, <2>3, <2>4, <2>5, <2>6, <2>7, <2>8 DEF FileRight, DownloadLabels
  <2> QED  BY <2>1, <2>9, OneFileSteps DEF KeptFile
<1>3. ASSUME NEW f \in Files, Age(f) PROVE FilesRight'
  <2> USE <1>3 DEF Age
  <2>1. ASSUME NEW g \in Files \ {f} PROVE FileRight(g)'
    <3>1. cold'[g] = cold[g]  BY DEF Typed, Tables
    <3> QED  BY <2>1, <3>1, FileKept DEF FilesRight, KeptFile, ThreadKept
  <2>2. \A h \in Handlers : file[h] # f  BY Owner DEF Threads
  <2>3. row[f] # None /\ announced[f] # None
    BY <2>2 DEF FilesRight, FileRight, Unannounced, Untouched
  <2>4. Packing(f) => Packing(f)'  BY <2>2 DEF Packing
  <2>5. Shared(f) => Shared(f)'  BY <2>2 DEF Shared, Writing
  <2>6. FileRight(f)'  BY <2>2, <2>3, <2>4, <2>5 DEF FilesRight, FileRight
  <2> QED  BY <2>1, <2>6 DEF FilesRight
<1>4. ~Crash  BY DEF Crash, Threads
<1>5. CASE UNCHANGED vars
  BY <1>5, FileKept DEF vars, FilesRight, KeptFile, ThreadKept
<1> QED
  BY <1>1, <1>2, <1>3, <1>4, <1>5, UploadFiles, HotFiles DEF Next, Request

LEMMA FilesAlways ==
  ASSUME PromptService PROVE Spec /\ []UploadsApart => [](Typed /\ FilesRight)
<1>1. Init => Typed /\ Writes /\ FilesRight  BY InitTyped, InitWrites, InitFiles
<1>2. Typed /\ Writes /\ FilesRight /\ UploadsApart /\ UploadsApart' /\ [Next]_vars
        => Typed' /\ Writes' /\ FilesRight'
  BY NextTyped, NextWrites, NextFiles
<1> QED  BY <1>1, <1>2, PTL DEF Spec

LEMMA FilesNotLost == ASSUME Typed, FilesRight PROVE NeverLost
<1> SUFFICES ASSUME NEW f \in Files, announced[f] # None
             PROVE  \/ OnDisk(f, announced[f])
                    \/ \E h \in Handlers : /\ file[h] = f /\ pc[h] \in {"d_open", "d_write"}
                                           /\ body[h] = announced[f]
  BY DEF NeverLost
<1>1. CASE file[Hot] = f
  <2>1. Packing(f) /\ pc[Hot] \in PackLabels
    BY <1>1, NamesAssumption DEF FilesRight, FileRight, Typed, Control, RestLabels, Threads
  <2> QED  BY <2>1 DEF Packing, OnDisk
<1>2. CASE file[Hot] # f
  BY <1>2 DEF FilesRight, FileRight, Shared, OnDisk, Writing, RestoresAt
<1> QED  BY <1>1, <1>2

LEMMA FilesRows == ASSUME Typed, FilesRight PROVE RowTellsWhere
<1> SUFFICES ASSUME \A t \in Threads : AtRest(t), NEW f \in Files, announced[f] # None
    PROVE  /\ row[f] # None
           /\ IF row[f].pack_flag
                THEN disk[PackOf(f)] = Archive(announced[f]) /\ disk[Real(f)] = Absent
                ELSE disk[Real(f)] = announced[f]
  BY DEF RowTellsWhere
<1>1. \A t \in Threads : file[t] # f  BY Owner
<1>2. Shared(f) /\ row[f] # None  BY <1>1 DEF FilesRight, FileRight, Threads
<1>3. ~Writing(f)  BY <1>1 DEF Writing, Threads
<1> QED  BY <1>1, <1>2, <1>3 DEF Shared, Threads

(***************************************************************************)
(* However downloads of any number of handlers and the hot manager's passes *)
(* interleave, files that are restored several times at once included,      *)
(* nothing announced is lost, as long as an upload has its file to itself.  *)
(***************************************************************************)
THEOREM NothingLostWhenApart ==
  ASSUME PromptService PROVE Spec /\ []UploadsApart => []NeverLost
BY FilesAlways, FilesNotLost, PTL

(***************************************************************************)
(* And when all is quiet again pack_flag tells where every file is, whatever*)
(* order the rows were updated in.                                          *)
(***************************************************************************)
THEOREM RowsRightWhenApart ==
  ASSUME PromptService PROVE Spec /\ []UploadsApart => []RowTellsWhere
BY FilesAlways, FilesRows, PTL

\* Nobody is sent another version than the one that was announced last, nor an
\* archive.
AnswersTrue ==
  [][\A h \in Handlers : reply'[h] # reply[h] =>
       reply'[h].body \in {announced[reply'[h].file], Empty, Zeros}]_vars

(***************************************************************************)
(* Under overlapping downloads an answer is the announced version, or empty *)
(* or nothing but zeros when the file is packed or restored as it is read.  *)
(***************************************************************************)
THEOREM AnswersTrueWhenApart ==
  ASSUME PromptService PROVE Spec /\ []UploadsApart => AnswersTrue
<1> DEFINE A == \A h \in Handlers : reply'[h] # reply[h] =>
                  reply'[h].body \in {announced[reply'[h].file], Empty, Zeros}
<1>1. ASSUME Typed, FilesRight, UploadsApart, [Next]_vars PROVE A
  <2>1. CASE UNCHANGED reply  BY <2>1
  <2>2. ASSUME NEW h \in Handlers, NEW b, NEW e, NEW s, Answer(h, b, e, s),
               b \in {announced[file[h]], Empty, Zeros}
        PROVE  A
    <3> DEFINE a == [file |-> file[h], body |-> b, etag |-> e, status |-> s, cond |-> cond[h]]
    <3>1. reply' = [reply EXCEPT ![h] = a]  BY <2>2 DEF Answer
    <3>2. a.file = file[h] /\ a.body = b  OBVIOUS
    <3> HIDE DEF a
    <3>3. \A k \in Handlers : reply'[k] = IF k = h THEN a ELSE reply[k]
      BY <1>1, <3>1 DEF Typed, Tables
    <3> QED  BY <2>2, <3>2, <3>3
  <2>3. ASSUME NEW h \in Handlers, ServeRead(h) PROVE A
    <3>1. PICK f \in Files : f = file[h] /\ announced[f] \in Versions
      BY <1>1, <2>3, Restorer DEF ServeRead, Goto, DownloadLabels
    <3>2. announced[f] # None  BY <3>1, NamesAssumption DEF Contents, Bodies
    <3>3. disk[Real(f)] \in {announced[f], Empty, Absent} /\ ServesAt(h, f)
      BY <1>1, <3>1, <3>2 DEF FilesRight, FileRight, Packing, Shared
    <3>4. kept[h] \in {None, announced[f]}
      BY <2>3, <3>3 DEF ServeRead, Goto, ServesAt
    <3>5. Source(h, Real(f)) \in {announced[f], Empty, Absent}  BY <3>3, <3>4 DEF Source
    <3> DEFINE b == IF Good(h, Real(f)) THEN Read(h, Real(f)) ELSE Zeros
    <3>6. b \in {announced[f], Empty, Zeros}
      <4>1. CASE seen[h] = "zero"  BY <4>1 DEF Good, Read
      <4>2. CASE seen[h] # "zero" /\ Good(h, Real(f))
        <5>1. Size(Source(h, Real(f))) = "some"  BY <4>2 DEF Good
        <5>2. Source(h, Real(f)) = announced[f]  BY <3>5, <5>1 DEF Size
        <5> QED  BY <4>2, <5>2 DEF Read
      <4>3. CASE ~Good(h, Real(f))  BY <4>3
      <4> QED  BY <4>1, <4>2, <4>3
    <3>7. Answer(h, b, info[h].etag, Status(h, info[h].etag))
      BY <2>3, <3>1 DEF ServeRead, Serve
    <3> QED  BY <2>2, <3>1, <3>6, <3>7
  <2>4. ASSUME NEW h \in Handlers, Download(h), ~ServeRead(h), ~UNCHANGED reply PROVE A
    <3>1. \E e, s : Answer(h, Empty, e, s)
      <4>1. CASE DownloadRow(h)  BY <2>4, <4>1 DEF DownloadRow
      <4>2. CASE UnpackCheck(h)
        BY <2>4, <4>2 DEF UnpackCheck, Fits, Throws, Fail
      <4>3. CASE ServeBegin(h)  BY <2>4, <4>3 DEF ServeBegin, Serve
      <4>4. CASE ServeCheck(h)
        BY <2>4, <4>4 DEF ServeCheck, Fits, Throws, Fail, Serve
      <4> QED
        BY <2>4, <4>1, <4>2, <4>3, <4>4 DEF Download, UnpackSize, UnpackBegin, UnpackRead,
            UnpackOpen, UnpackWrite, UnpackRemove, UnpackUpdate, ServeSize
    <3> QED  BY <2>2, <3>1
  <2>5. UNCHANGED reply \/ \E h \in Handlers : Download(h)
    <3>1. ~Crash  BY DEF Crash, Threads, PromptService
    <3>2. ASSUME NEW h \in Handlers, Upload(h) PROVE UNCHANGED reply
      BY <3>2 DEF Upload, StartUpload, UploadOpen, UploadWrite, UploadStat, UploadInsert
    <3>3. ASSUME NEW h \in Handlers, Request(h) PROVE UNCHANGED reply
      BY <3>3 DEF Request, StartDownload
    <3>4. ASSUME RunModule PROVE UNCHANGED reply
      BY <3>4 DEF RunModule, HotList, HotDone, HotSkip, HotPick, HotRow, HotSize, HotBegin,
           HotCheck, HotRead, HotOpen, HotWrite, HotRemove, HotUpdate
    <3> QED  BY <1>1, <3>1, <3>2, <3>3, <3>4 DEF Next, Age, vars
  <2> QED  BY <2>1, <2>3, <2>4, <2>5
<1>2. Typed /\ FilesRight /\ UploadsApart /\ [Next]_vars => [A]_vars  BY <1>1
<1> QED  BY <1>2, FilesAlways, PTL DEF Spec, AnswersTrue

\* With one version there is one upload: nothing is known before it ends.
OneUpload ==
  /\ fresh # {} => \A f \in Files : row[f] = None
  /\ \A h \in Handlers : pc[h] \in UploadLabels =>
       /\ fresh = {} /\ \A f \in Files : row[f] = None
       /\ \A k \in Handlers : pc[k] \in UploadLabels => k = h

LEMMA NextOneUpload ==
  ASSUME \A v, w \in Versions : v = w, Typed, OneUpload, [Next]_vars
  PROVE  OneUpload'
<1> USE NamesAssumption DEF Goto
<1>1. ASSUME UNCHANGED fresh, \A f \in Files : row[f] = None => row'[f] = None,
             \A h \in Handlers : pc'[h] \in UploadLabels => pc[h] \in UploadLabels
      PROVE  OneUpload'
  BY <1>1 DEF OneUpload
<1>2. ASSUME NEW h \in Handlers, Upload(h) PROVE OneUpload'
  <2> h \in Threads  BY DEF Threads
  <2>1. ASSUME NEW f \in Files, NEW v \in Versions, StartUpload(h, f, v) PROVE OneUpload'
    <3>1. fresh # {} /\ fresh' = {} /\ row' = row
      BY <2>1 DEF StartUpload, Typed, Tables
    <3>2. \A k \in Handlers \ {h} : pc'[k] = pc[k]
      BY <2>1 DEF StartUpload, Typed, Control, Threads
    <3> QED  BY <3>1, <3>2 DEF OneUpload
  <2>2. CASE UploadOpen(h) \/ UploadWrite(h) \/ UploadStat(h)
    BY <2>2, <1>1
        DEF UploadOpen, UploadWrite, UploadStat, UploadLabels, Typed, Control, Threads
  <2>3. CASE UploadInsert(h)
    <3>1. pc[h] \in UploadLabels /\ pc'[h] = "idle" /\ fresh' = fresh
      BY <2>3 DEF UploadInsert, UploadLabels, Typed, Control
    <3>2. \A k \in Handlers \ {h} : pc'[k] = pc[k]
      BY <2>3 DEF UploadInsert, Typed, Control, Threads
    <3> QED  BY <3>1, <3>2 DEF OneUpload, UploadLabels
  <2> QED  BY <1>2, <2>1, <2>2, <2>3 DEF Upload
<1>3. ASSUME NEW h \in Handlers, Download(h) PROVE OneUpload'
  <2> h \in Threads  BY DEF Threads
  <2>1. CASE UnpackUpdate(h)
    <3>1. file[h] \in Files  BY <2>1, Owner DEF UnpackUpdate, AtRest, RestLabels
    <3>2. \A f \in Files : row[f] = None => row'[f] = None
      BY <2>1, <3>1, UpdataRow DEF UnpackUpdate
    <3> QED  BY <2>1, <3>2, <1>1 DEF UnpackUpdate, UploadLabels, Typed, Control, Threads
  <2>2. CASE ~UnpackUpdate(h)
    <3>1. UNCHANGED <<row, fresh>>
      BY <1>3, <2>2 DEF Download, DownloadRow, UnpackSize, UnpackBegin, UnpackCheck,
           UnpackRead, UnpackOpen, UnpackWrite, UnpackRemove, ServeSize, ServeBegin,
           ServeCheck, ServeRead
    <3>2. \E l : pc' = [pc EXCEPT ![h] = l] /\ l \notin UploadLabels
      <4>1. CASE UnpackCheck(h) \/ ServeCheck(h)
        BY <4>1 DEF UnpackCheck, ServeCheck, Fits, Throws, UploadLabels
      <4> QED
        BY <1>3, <2>2, <4>1 DEF Download, DownloadRow, UnpackSize, UnpackBegin, UnpackRead,
             UnpackOpen, UnpackWrite, UnpackRemove, ServeSize, ServeBegin, ServeRead,
             UploadLabels
    <3>3. \A k \in Handlers : pc'[k] \in UploadLabels => pc[k] \in UploadLabels
      BY <3>2 DEF Typed, Control, Threads
    <3> QED  BY <3>1, <3>3, <1>1
  <2> QED  BY <2>1, <2>2
<1>4. ASSUME NEW h \in Handlers, Request(h) PROVE OneUpload'
  BY <1>4, <1>1 DEF Request, StartDownload, UploadLabels, Typed, Control, Threads
<1>5. CASE RunModule
  <2>0. \A k \in Handlers : pc'[k] = pc[k]
    BY <1>5, HotAlone, NamesAssumption DEF Undisturbed, OthersKept, Threads
  <2>1. CASE HotUpdate
    <3>1. file[Hot] \in Files  BY <2>1, Owner DEF HotUpdate, AtRest, RestLabels, Threads
    <3>2. \A f \in Files : row[f] = None => row'[f] = None
      BY <2>1, <3>1, UpdataRow DEF HotUpdate
    <3> QED  BY <2>0, <2>1, <3>2, <1>1 DEF HotUpdate
  <2>2. CASE ~HotUpdate
    BY <1>5, <2>0, <2>2, <1>1 DEF RunModule, HotList, HotDone, HotSkip, HotPick, HotRow,
         HotSize, HotBegin, HotCheck, HotRead, HotOpen, HotWrite, HotRemove
  <2> QED  BY <2>1, <2>2
<1>6. CASE \E f \in Files : Age(f)  BY <1>6, <1>1 DEF Age
<1>7. CASE Crash
  BY <1>7, <1>1 DEF Crash, UploadLabels, Threads
<1>8. CASE UNCHANGED vars  BY <1>8, <1>1 DEF vars
<1> QED  BY <1>2, <1>3, <1>4, <1>5, <1>6, <1>7, <1>8 DEF Next

LEMMA OneVersionApart ==
  ASSUME \A v, w \in Versions : v = w PROVE Spec => []UploadsApart
<1>1. Init => OneUpload  BY NamesAssumption DEF Init, OneUpload, UploadLabels, Threads
<1>2. Typed /\ OneUpload /\ [Next]_vars => OneUpload'  BY NextOneUpload
<1>3. Typed /\ OneUpload => UploadsApart
  <2>1. Typed => pc[Hot] \notin UploadLabels
    BY DEF Typed, Control, UploadLabels, PackLabels
  <2> QED  BY <2>1 DEF OneUpload, UploadsApart, Threads
<1> QED  BY <1>1, <1>2, <1>3, TypedAlways, PTL DEF Spec

(***************************************************************************)
(* With one version there is one upload, and nothing has to be asked of the *)
(* clients: it is never lost.                                               *)
(***************************************************************************)
THEOREM NothingLostOneUpload ==
  ASSUME PromptService, \A v, w \in Versions : v = w PROVE Spec => []NeverLost
BY NothingLostWhenApart, OneVersionApart, PTL

(***************************************************************************)
(* With one version, pack_flag is right whenever all is quiet.              *)
(***************************************************************************)
THEOREM RowsRightOneUpload ==
  ASSUME PromptService, \A v, w \in Versions : v = w PROVE Spec => []RowTellsWhere
BY RowsRightWhenApart, OneVersionApart, PTL
=============================================================================

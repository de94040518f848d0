----------------------------- MODULE CloudStore -----------------------------
(***************************************************************************)
(* The backup server of Cloud/Config: HTTP handlers (server.hpp) and the    *)
(* hot-file manager (hot.hpp) over one directory of files, one directory of *)
(* archives and one table of file rows (data_text.hpp).                     *)
(*                                                                          *)
(* Every file system call and every table operation is a step.  DataManager *)
(* takes its lock for one operation at a time, so that what a thread read   *)
(* from a row or a file may be out of date when it acts on it.              *)
(*                                                                          *)
(* Contents are versions, each uploaded once, all of the same size: a file  *)
(* is missing, empty (just truncated) or holds a whole version.  An ETag is *)
(* the file's name, its size and the whole second of its last write, and    *)
(* two versions may agree in it.  Requests without a cookie are answered    *)
(* before they touch anything and left out.                                 *)
(***************************************************************************)
EXTENDS Naturals, FiniteSets

CONSTANTS
  Handlers,      \* threads of the HTTP server that serve requests
  Hot,           \* the thread of HotManager::RunModule
  Files, Versions,
  ETags,         \* ETags[c]: what size and second may say of content c
  Stamps,        \* sizes and seconds
  None,          \* no row, no answer, no version
  Absent, Empty, \* a path without a file; a file of size 0
  Zeros,         \* an answer of as many zeros as a version is long
  NoPath,
  Serial,        \* TRUE: a request, or one file of a hot pass, at a time
  Prompt,        \* TRUE: no file turns cold while a request for it is served
  DiskMayFail,   \* TRUE: opening and writing a file may fail
  CrashLabels    \* where every thread may be when the process is killed

ASSUME FlagsAssumption == {Serial, Prompt, DiskMayFail} \subseteq BOOLEAN

VARIABLES
  disk,          \* content of every path
  cold,          \* cold[f]: the access time of f is more than hot_time ago
  row,           \* table file_info
  pc, file,      \* per thread: next step, file it works on
  open,          \* the path a thread has open for writing, if still linked
  seen,          \* the size GetContent read before it opens the file
  kept,          \* what a file that is open for reading and was removed holds
  body,          \* content in memory
  info,          \* the thread's BackupInfo
  cond,          \* the ETag of If-Range and the version it came with
  reply,         \* what the handler answered last
  todo,          \* rest of the hot manager's listing of back_dir
  fresh,         \* versions not uploaded yet
  announced      \* last version whose upload ended, None during an upload

vars == <<disk, cold, row, pc, file, open, seen, kept, body, info, cond, reply,
          todo, fresh, announced>>

Threads  == Handlers \cup {Hot}
Paths    == {"real", "pack"} \X Files
Real(f)  == <<"real", f>>
PackOf(f) == <<"pack", f>>

\* bundle::pack and bundle::unpack: an empty body stays empty, and unpack
\* returns what is no archive as it is.
Archive(v) == [lzip |-> v]
Pack(c)    == IF c = Empty THEN Empty ELSE Archive(c)
Unpack(c)  == IF \E v \in Versions : c = Archive(v)
                THEN CHOOSE v \in Versions : c = Archive(v)
                ELSE c

Bodies   == Versions \cup {Empty}
Contents == Bodies \cup {Absent} \cup {Archive(v) : v \in Versions}
Rows     == [pack_flag : BOOLEAN, etag : Stamps]
Copies   == {c \in [version : Versions, etag : Stamps] : c.etag \in ETags[c.version]}
Replies  == [file : Files, body : Bodies \cup {Zeros}, etag : Stamps \cup {None},
             status : {200, 206, 500}, cond : Copies \cup {None}]

UploadLabels   == {"u_open", "u_write", "u_stat", "u_insert"}
RestoreLabels  == {"d_psize", "d_pbegin", "d_pcheck", "d_pread",
                   "d_open", "d_write", "d_remove", "d_update"}
DownloadLabels == RestoreLabels \cup {"d_row", "d_size", "d_begin", "d_check", "d_read"}
PackLabels     == {"h_row", "h_size", "h_begin", "h_check", "h_read", "h_open", "h_write",
                   "h_remove", "h_update"}
RestLabels     == {"idle", "h_list", "h_next"}
Labels         == UploadLabels \cup DownloadLabels \cup PackLabels \cup RestLabels

ASSUME NamesAssumption ==
  /\ Hot \notin Handlers /\ NoPath \notin Paths
  /\ None \notin Files \cup Contents /\ None \notin Stamps
  /\ None \notin Rows \cup Copies \cup Replies
  /\ Absent # Empty /\ Zeros \notin Contents
  /\ {Absent, Empty} \cap (Versions \cup {Archive(v) : v \in Versions}) = {}

ASSUME ETagsAssumption == ETags \in [Bodies -> SUBSET Stamps] /\ \A c \in Bodies : ETags[c] # {}

ASSUME CrashAssumption == CrashLabels \subseteq Labels

TypeOK ==
  /\ disk \in [Paths -> Contents]
  /\ cold \in [Files -> BOOLEAN]
  /\ row \in [Files -> Rows \cup {None}]
  /\ pc \in [Threads -> Labels]
  /\ file \in [Threads -> Files \cup {None}]
  /\ open \in [Threads -> Paths \cup {NoPath}]
  /\ seen \in [Threads -> {"none", "zero", "some"}]
  /\ kept \in [Threads -> Contents \cup {None}]
  /\ body \in [Threads -> Contents]
  /\ info \in [Threads -> Rows \cup {None}]
  /\ cond \in [Handlers -> Copies \cup {None}]
  /\ reply \in [Handlers -> Replies \cup {None}]
  /\ todo \subseteq Files
  /\ fresh \subseteq Versions
  /\ announced \in [Files -> Versions \cup {None}]

Init ==
  /\ disk = [p \in Paths |-> Absent]
  /\ cold = [f \in Files |-> FALSE]
  /\ row = [f \in Files |-> None]
  /\ pc = [t \in Threads |-> IF t = Hot THEN "h_list" ELSE "idle"]
  /\ file = [t \in Threads |-> None]
  /\ open = [t \in Threads |-> NoPath]
  /\ seen = [t \in Threads |-> "none"]
  /\ kept = [t \in Threads |-> None]
  /\ body = [t \in Threads |-> Empty]
  /\ info = [t \in Threads |-> None]
  /\ cond = [h \in Handlers |-> None]
  /\ reply = [h \in Handlers |-> None]
  /\ todo = {}
  /\ fresh = Versions
  /\ announced = [f \in Files |-> None]

Goto(t, from, to) ==
  /\ pc[t] = from
  /\ pc' = [pc EXCEPT ![t] = to]

\* The locals of a call are gone when it returns.
Forget(t) ==
  /\ file' = [file EXCEPT ![t] = None]
  /\ seen' = [seen EXCEPT ![t] = "none"]
  /\ kept' = [kept EXCEPT ![t] = None]
  /\ body' = [body EXCEPT ![t] = Empty]
  /\ info' = [info EXCEPT ![t] = None]

AtRest(t)  == pc[t] \in RestLabels
MayStart(t) == Serial => \A u \in Threads \ {t} : AtRest(u)

-----------------------------------------------------------------------------
(* FileUtil *)

Size(c) == IF c = Absent THEN "none" ELSE IF c = Empty THEN "zero" ELSE "some"

\* GetContent asks for the size (-1 when stat fails) ...
GetSize(t, p) == seen' = [seen EXCEPT ![t] = Size(disk[p])]

\* ... then GetPosLen opens the file, if there is one, ...
Reads(t, p) ==
  \/ pc[t] \in {"d_pcheck", "d_pread"} /\ p = PackOf(file[t])
  \/ pc[t] \in {"d_check", "d_read", "h_check", "h_read"} /\ p = Real(file[t])

\* ... asks for the size again, in unsigned numbers, where -1 is the largest:
\* a file that got shorter is refused, one that was removed is not, ...
Fits(t, p) == seen[t] = "zero" \/ (seen[t] = "some" /\ disk[p] # Empty)

\* ... and makes room for that much, which throws when both sizes were -1.
Throws(t, p) == seen[t] = "none" /\ disk[p] = Absent

\* Then it reads: a file that is empty by now fails, and leaves zeros.
Source(t, p) == IF kept[t] = None THEN disk[p] ELSE kept[t]
Good(t, p) == seen[t] = "zero" \/ Size(Source(t, p)) = "some"
Read(t, p) == IF seen[t] = "zero" THEN Empty ELSE Source(t, p)

\* The locals of GetContent are gone when it returns.
Returned(t) ==
  /\ seen' = [seen EXCEPT ![t] = "none"]
  /\ kept' = [kept EXCEPT ![t] = None]

\* Reading may refresh the access time: the mount options decide.
Touch(t) ==
  \/ UNCHANGED cold
  \/ kept[t] = None /\ cold' = [cold EXCEPT ![file[t]] = FALSE]

\* SetContent opens the file, which creates or truncates it ...
OpenForWriting(t, p) ==
  \/ /\ disk' = [disk EXCEPT ![p] = Empty]
     /\ open' = [open EXCEPT ![t] = p]
     /\ cold' = [f \in Files |-> cold[f] /\ ~(p = Real(f) /\ disk[p] = Absent)]
  \/ DiskMayFail /\ UNCHANGED <<disk, open, cold>>

\* ... then writes the whole body; a file removed since is not written.
Write(t, c) ==
  /\ \/ disk' = [p \in Paths |-> IF p = open[t] THEN c ELSE disk[p]]
     \/ DiskMayFail /\ UNCHANGED disk
  /\ open' = [open EXCEPT ![t] = NoPath]

\* Who has the file open keeps it: a reader may still find what was in it, or
\* what a writer that has it open is about to write.
Remove(p) ==
  /\ disk' = [disk EXCEPT ![p] = Absent]
  /\ LET writers == {t \in Threads : open[t] = p}
         readers == {t \in Threads : Reads(t, p) /\ kept[t] = None}
     IN \E held \in [readers -> {disk[p]} \cup {body[t] : t \in writers}] :
          kept' = [t \in Threads |-> IF t \in readers THEN held[t] ELSE kept[t]]
  /\ open' = [t \in Threads |-> IF open[t] = p THEN NoPath ELSE open[t]]

\* DataManager::Updata: sets the flag of the row that has this filename.
Updata(f, flag) ==
  row' = IF row[f] = None THEN row ELSE [row EXCEPT ![f].pack_flag = flag]

-----------------------------------------------------------------------------
(* Server::Upload *)

StartUpload(h, f, v) ==
  /\ MayStart(h)
  /\ v \in fresh
  /\ Goto(h, "idle", "u_open")
  /\ file' = [file EXCEPT ![h] = f]
  /\ body' = [body EXCEPT ![h] = v]
  /\ fresh' = fresh \ {v}
  /\ announced' = [announced EXCEPT ![f] = None]
  /\ UNCHANGED <<disk, cold, row, open, seen, kept, info, cond, reply, todo>>

UploadOpen(h) ==
  /\ Goto(h, "u_open", "u_write")
  /\ OpenForWriting(h, Real(file[h]))
  /\ UNCHANGED <<row, file, seen, kept, body, info, cond, reply, todo, fresh, announced>>

UploadWrite(h) ==
  /\ Goto(h, "u_write", "u_stat")
  /\ Write(h, body[h])
  /\ UNCHANGED <<cold, row, file, seen, kept, body, info, cond, reply, todo, fresh, announced>>

\* NewBackupInfo: nothing is filled in when the file is gone.
UploadStat(h) ==
  /\ Goto(h, "u_stat", "u_insert")
  /\ LET c == disk[Real(file[h])] IN
       IF c = Absent THEN UNCHANGED info
       ELSE \E s \in ETags[c] :
              info' = [info EXCEPT ![h] = [pack_flag |-> FALSE, etag |-> s]]
  /\ UNCHANGED <<disk, cold, row, file, open, seen, kept, body, cond, reply, todo, fresh, announced>>

Uploading(f) == {h \in Handlers : file[h] = f /\ pc[h] \in UploadLabels}

\* Mutant: ON DUPLICATE KEY UPDATE does not renew Mtime and fsize.
UploadInsertKeepsEtag(h) ==
  LET f == file[h] IN
  /\ Goto(h, "u_insert", "idle")
  /\ row' = IF info[h] = None THEN row
            ELSE IF row[f] = None THEN [row EXCEPT ![f] = info[h]]
            ELSE [row EXCEPT ![f].pack_flag = FALSE]
  /\ announced' = [announced EXCEPT ![f] = IF Uploading(f) = {h} THEN body[h] ELSE None]
  /\ Forget(h)
  /\ UNCHANGED <<disk, cold, open, cond, reply, todo, fresh>>

\* Insert, then "Upload success!": with no BackupInfo a row of no file is made.
UploadInsert(h) ==
  LET f == file[h] IN
  /\ Goto(h, "u_insert", "idle")
  /\ row' = IF info[h] = None THEN row ELSE [row EXCEPT ![f] = info[h]]
  /\ announced' = [announced EXCEPT ![f] = IF Uploading(f) = {h} THEN body[h] ELSE None]
  /\ Forget(h)
  /\ UNCHANGED <<disk, cold, open, cond, reply, todo, fresh>>

-----------------------------------------------------------------------------
(* Server::Download *)

StartDownload(h, f, c) ==
  /\ MayStart(h)
  /\ Goto(h, "idle", "d_row")
  /\ file' = [file EXCEPT ![h] = f]
  /\ body' = [body EXCEPT ![h] = Empty]
  /\ cond' = [cond EXCEPT ![h] = c]
  /\ UNCHANGED <<disk, cold, row, open, seen, kept, info, reply, todo, fresh, announced>>

Status(h, etag) == IF cond[h] # None /\ cond[h].etag = etag THEN 206 ELSE 200

\* The request is over and its locals are gone.
Answer(h, b, etag, status) ==
  /\ reply' = [reply EXCEPT ![h] =
       [file |-> file[h], body |-> b, etag |-> etag, status |-> status, cond |-> cond[h]]]
  /\ cond' = [cond EXCEPT ![h] = None]
  /\ Forget(h)

\* What the HTTP library answers when a handler throws.
Fail(h) == Answer(h, Empty, None, 500)

\* GetOneByURL; without a row every path is empty and nothing is found there.
DownloadRow(h) ==
  LET r == row[file[h]] IN
  /\ pc[h] = "d_row"
  /\ IF r = None
       THEN Goto(h, "d_row", "idle") /\ Answer(h, Empty, None, 200)
       ELSE /\ Goto(h, "d_row", IF r.pack_flag THEN "d_psize" ELSE "d_size")
            /\ info' = [info EXCEPT ![h] = r]
            /\ UNCHANGED <<file, seen, kept, body, cond, reply>>
  /\ UNCHANGED <<disk, cold, row, open, todo, fresh, announced>>

UnpackSize(h) ==
  /\ Goto(h, "d_psize", "d_pbegin")
  /\ GetSize(h, PackOf(file[h]))
  /\ UNCHANGED <<disk, cold, row, file, open, kept, body, info, cond, reply, todo, fresh, announced>>

\* uncompare gives up when the archive cannot be read; Download goes on.
UnpackBegin(h) ==
  /\ pc[h] = "d_pbegin"
  /\ IF disk[PackOf(file[h])] = Absent
       THEN Goto(h, "d_pbegin", "d_remove") /\ Returned(h)
       ELSE Goto(h, "d_pbegin", "d_pcheck") /\ UNCHANGED <<seen, kept>>
  /\ UNCHANGED <<disk, cold, row, file, open, body, info, cond, reply, todo, fresh, announced>>

UnpackCheck(h) ==
  LET p == PackOf(file[h]) IN
  /\ pc[h] = "d_pcheck"
  /\ CASE Fits(h, p)   -> /\ Goto(h, "d_pcheck", "d_pread")
                          /\ UNCHANGED <<file, seen, kept, body, info, cond, reply>>
       [] Throws(h, p) -> Goto(h, "d_pcheck", "idle") /\ Fail(h)
       [] OTHER        -> /\ Goto(h, "d_pcheck", "d_remove") /\ Returned(h)
                          /\ UNCHANGED <<file, body, info, cond, reply>>
  /\ UNCHANGED <<disk, cold, row, open, todo, fresh, announced>>

\* Mutant: the archive is restored as it is, not unpacked.
UnpackReadRaw(h) ==
  LET p == PackOf(file[h]) IN
  /\ pc[h] = "d_pread"
  /\ IF Good(h, p)
       THEN /\ Goto(h, "d_pread", "d_open")
            /\ body' = [body EXCEPT ![h] = Read(h, p)]
       ELSE Goto(h, "d_pread", "d_remove") /\ UNCHANGED body
  /\ Returned(h)
  /\ UNCHANGED <<disk, cold, row, file, open, info, cond, reply, todo, fresh, announced>>

UnpackRead(h) ==
  LET p == PackOf(file[h]) IN
  /\ pc[h] = "d_pread"
  /\ IF Good(h, p)
       THEN /\ Goto(h, "d_pread", "d_open")
            /\ body' = [body EXCEPT ![h] = Unpack(Read(h, p))]
       ELSE Goto(h, "d_pread", "d_remove") /\ UNCHANGED body
  /\ Returned(h)
  /\ UNCHANGED <<disk, cold, row, file, open, info, cond, reply, todo, fresh, announced>>

\* Mutant: the archive is removed before the file is written.
UnpackOpenRemoves(h) ==
  /\ Goto(h, "d_open", "d_write")
  /\ disk' = [disk EXCEPT ![Real(file[h])] = Empty, ![PackOf(file[h])] = Absent]
  /\ open' = [open EXCEPT ![h] = Real(file[h])]
  /\ cold' = [cold EXCEPT ![file[h]] = FALSE]
  /\ UNCHANGED <<row, file, seen, kept, body, info, cond, reply, todo, fresh, announced>>

UnpackOpen(h) ==
  /\ Goto(h, "d_open", "d_write")
  /\ OpenForWriting(h, Real(file[h]))
  /\ UNCHANGED <<row, file, seen, kept, body, info, cond, reply, todo, fresh, announced>>

UnpackWrite(h) ==
  /\ Goto(h, "d_write", "d_remove")
  /\ Write(h, body[h])
  /\ UNCHANGED <<cold, row, file, seen, kept, body, info, cond, reply, todo, fresh, announced>>

UnpackRemove(h) ==
  /\ Goto(h, "d_remove", "d_update")
  /\ Remove(PackOf(file[h]))
  /\ UNCHANGED <<cold, row, file, seen, body, info, cond, reply, todo, fresh, announced>>

\* Mutant: the row is not told that the file is back.
UnpackUpdateForgotten(h) ==
  /\ Goto(h, "d_update", "d_size")
  /\ UNCHANGED <<disk, cold, row, file, open, seen, kept, body, info, cond, reply, todo, fresh, announced>>

UnpackUpdate(h) ==
  /\ Goto(h, "d_update", "d_size")
  /\ Updata(file[h], FALSE)
  /\ UNCHANGED <<disk, cold, file, open, seen, kept, body, info, cond, reply, todo, fresh, announced>>

ServeSize(h) ==
  /\ Goto(h, "d_size", "d_begin")
  /\ GetSize(h, Real(file[h]))
  /\ UNCHANGED <<disk, cold, row, file, open, kept, body, info, cond, reply, todo, fresh, announced>>

\* Download answers with whatever GetContent left in the body.
Serve(h, b) == Answer(h, b, info[h].etag, Status(h, info[h].etag))

ServeBegin(h) ==
  /\ pc[h] = "d_begin"
  /\ IF disk[Real(file[h])] = Absent
       THEN Goto(h, "d_begin", "idle") /\ Serve(h, Empty)
       ELSE /\ Goto(h, "d_begin", "d_check")
            /\ UNCHANGED <<file, seen, kept, body, info, cond, reply>>
  /\ UNCHANGED <<disk, cold, row, open, todo, fresh, announced>>

ServeCheck(h) ==
  LET p == Real(file[h]) IN
  /\ pc[h] = "d_check"
  /\ CASE Fits(h, p)   -> /\ Goto(h, "d_check", "d_read")
                          /\ UNCHANGED <<file, seen, kept, body, info, cond, reply>>
       [] Throws(h, p) -> Goto(h, "d_check", "idle") /\ Fail(h)
       [] OTHER        -> Goto(h, "d_check", "idle") /\ Serve(h, Empty)
  /\ UNCHANGED <<disk, cold, row, open, todo, fresh, announced>>

ServeRead(h) ==
  LET p == Real(file[h]) IN
  /\ Goto(h, "d_read", "idle")
  /\ Serve(h, IF Good(h, p) THEN Read(h, p) ELSE Zeros)
  /\ Touch(h)
  /\ UNCHANGED <<disk, row, open, todo, fresh, announced>>

-----------------------------------------------------------------------------
(* HotManager::RunModule *)

HotList ==
  /\ Goto(Hot, "h_list", "h_next")
  /\ todo' = {f \in Files : disk[Real(f)] # Absent}
  /\ UNCHANGED <<disk, cold, row, file, open, seen, kept, body, info, cond, reply, fresh, announced>>

HotDone ==
  /\ todo = {}
  /\ Goto(Hot, "h_next", "h_list")
  /\ UNCHANGED <<disk, cold, row, file, open, seen, kept, body, info, cond, reply, todo, fresh, announced>>

\* Mutant: HotJudge may call a cold file hot.
HotSkipAny(f) ==
  /\ f \in todo
  /\ Goto(Hot, "h_next", "h_next")
  /\ todo' = todo \ {f}
  /\ UNCHANGED <<disk, cold, row, file, open, seen, kept, body, info, cond, reply, fresh, announced>>

HotSkip(f) ==
  /\ f \in todo /\ ~cold[f]
  /\ Goto(Hot, "h_next", "h_next")
  /\ todo' = todo \ {f}
  /\ UNCHANGED <<disk, cold, row, file, open, seen, kept, body, info, cond, reply, fresh, announced>>

\* Mutant: files are packed whatever their access time.
HotPickAny(f) ==
  /\ MayStart(Hot)
  /\ f \in todo
  /\ Goto(Hot, "h_next", "h_row")
  /\ todo' = todo \ {f}
  /\ file' = [file EXCEPT ![Hot] = f]
  /\ UNCHANGED <<disk, cold, row, open, seen, kept, body, info, cond, reply, fresh, announced>>

HotPick(f) ==
  /\ MayStart(Hot)
  /\ f \in todo /\ cold[f]
  /\ Goto(Hot, "h_next", "h_row")
  /\ todo' = todo \ {f}
  /\ file' = [file EXCEPT ![Hot] = f]
  /\ UNCHANGED <<disk, cold, row, open, seen, kept, body, info, cond, reply, fresh, announced>>

\* GetOneByRealPath returns true whether or not it found a row.
HotRow ==
  /\ Goto(Hot, "h_row", "h_size")
  /\ info' = [info EXCEPT ![Hot] = row[file[Hot]]]
  /\ UNCHANGED <<disk, cold, row, file, open, seen, kept, body, cond, reply, todo, fresh, announced>>

HotSize ==
  /\ Goto(Hot, "h_size", "h_begin")
  /\ GetSize(Hot, Real(file[Hot]))
  /\ UNCHANGED <<disk, cold, row, file, open, kept, body, info, cond, reply, todo, fresh, announced>>

\* compare gives up when the file cannot be read; RunModule goes on.  Nobody
\* else removes what was listed, so that no size is -1 and nothing throws.
HotBegin ==
  /\ pc[Hot] = "h_begin"
  /\ IF disk[Real(file[Hot])] = Absent
       THEN Goto(Hot, "h_begin", "h_remove") /\ Returned(Hot)
       ELSE Goto(Hot, "h_begin", "h_check") /\ UNCHANGED <<seen, kept>>
  /\ UNCHANGED <<disk, cold, row, file, open, body, info, cond, reply, todo, fresh, announced>>

HotCheck ==
  /\ pc[Hot] = "h_check"
  /\ IF Fits(Hot, Real(file[Hot]))
       THEN Goto(Hot, "h_check", "h_read") /\ UNCHANGED <<seen, kept>>
       ELSE Goto(Hot, "h_check", "h_remove") /\ Returned(Hot)
  /\ UNCHANGED <<disk, cold, row, file, open, body, info, cond, reply, todo, fresh, announced>>

\* There is no archive to write to when there was no row.
HotRead ==
  LET p == Real(file[Hot]) IN
  /\ pc[Hot] = "h_read"
  /\ IF Good(Hot, p)
       THEN /\ body' = [body EXCEPT ![Hot] = Pack(Read(Hot, p))]
            /\ Goto(Hot, "h_read", IF info[Hot] = None THEN "h_remove" ELSE "h_open")
       ELSE Goto(Hot, "h_read", "h_remove") /\ UNCHANGED body
  /\ Touch(Hot) /\ Returned(Hot)
  /\ UNCHANGED <<disk, row, file, open, info, cond, reply, todo, fresh, announced>>

HotOpen ==
  /\ Goto(Hot, "h_open", "h_write")
  /\ OpenForWriting(Hot, PackOf(file[Hot]))
  /\ UNCHANGED <<row, file, seen, kept, body, info, cond, reply, todo, fresh, announced>>

HotWrite ==
  /\ Goto(Hot, "h_write", "h_remove")
  /\ Write(Hot, body[Hot])
  /\ UNCHANGED <<cold, row, file, seen, kept, body, info, cond, reply, todo, fresh, announced>>

HotRemove ==
  /\ Goto(Hot, "h_remove", "h_update")
  /\ Remove(Real(file[Hot]))
  /\ cold' = [cold EXCEPT ![file[Hot]] = FALSE]
  /\ UNCHANGED <<row, file, seen, body, info, cond, reply, todo, fresh, announced>>

\* Mutant: the row is not told that the file is packed.
HotUpdateForgotten ==
  /\ Goto(Hot, "h_update", "h_next")
  /\ Forget(Hot)
  /\ UNCHANGED <<disk, cold, row, open, cond, reply, todo, fresh, announced>>

\* Without a row the BackupInfo names no file and nothing is updated.
HotUpdate ==
  /\ Goto(Hot, "h_update", "h_next")
  /\ IF info[Hot] = None THEN UNCHANGED row ELSE Updata(file[Hot], TRUE)
  /\ Forget(Hot)
  /\ UNCHANGED <<disk, cold, open, cond, reply, todo, fresh, announced>>

-----------------------------------------------------------------------------
(* The world around the process *)

\* hot_time passes without an access to f.
Age(f) ==
  /\ disk[Real(f)] # Absent /\ ~cold[f]
  /\ Prompt => \A h \in Handlers : AtRest(h) \/ file[h] # f
  /\ cold' = [cold EXCEPT ![f] = TRUE]
  /\ UNCHANGED <<disk, row, pc, file, open, seen, kept, body, info, cond, reply, todo, fresh, announced>>

\* The process is killed and started again: disk and tables are what is left.
Crash ==
  /\ \A t \in Threads : pc[t] \in CrashLabels
  /\ pc' = [t \in Threads |-> IF t = Hot THEN "h_list" ELSE "idle"]
  /\ open' = [t \in Threads |-> NoPath]
  /\ file' = [t \in Threads |-> None]
  /\ seen' = [t \in Threads |-> "none"]
  /\ kept' = [t \in Threads |-> None]
  /\ body' = [t \in Threads |-> Empty]
  /\ info' = [t \in Threads |-> None]
  /\ cond' = [h \in Handlers |-> None]
  /\ reply' = [h \in Handlers |-> None]
  /\ todo' = {}
  /\ UNCHANGED <<disk, cold, row, fresh, announced>>

Upload(h) ==
  \/ \E f \in Files, v \in Versions : StartUpload(h, f, v)
  \/ UploadOpen(h) \/ UploadWrite(h) \/ UploadStat(h) \/ UploadInsert(h)

Download(h) ==
  \/ DownloadRow(h)
  \/ UnpackSize(h) \/ UnpackBegin(h) \/ UnpackCheck(h) \/ UnpackRead(h) \/ UnpackOpen(h) \/ UnpackWrite(h)
  \/ UnpackRemove(h) \/ UnpackUpdate(h)
  \/ ServeSize(h) \/ ServeBegin(h) \/ ServeCheck(h) \/ ServeRead(h)

Request(h) == \E f \in Files, c \in Copies \cup {None} : StartDownload(h, f, c)

RunModule ==
  \/ HotList \/ HotDone
  \/ \E f \in Files : HotSkip(f) \/ HotPick(f)
  \/ HotRow \/ HotSize \/ HotBegin \/ HotCheck \/ HotRead \/ HotOpen \/ HotWrite \/ HotRemove \/ HotUpdate

Next ==
  \/ \E h \in Handlers : Upload(h) \/ Download(h) \/ Request(h)
  \/ RunModule
  \/ \E f \in Files : Age(f)
  \/ Crash

\* The hot manager's thread runs; no client is obliged to send anything.
Spec == Init /\ [][Next]_vars /\ WF_vars(RunModule)
-----------------------------------------------------------------------------
(* Properties *)

\* v can still be had from the disk.
OnDisk(f, v) == disk[Real(f)] = v \/ disk[PackOf(f)] = Archive(v)

(***************************************************************************)
(* A file whose upload was announced is never lost: it is on disk, or a     *)
(* handler that restores it still has it in memory and is about to write    *)
(* it to its place.                                                         *)
(***************************************************************************)
NeverLost ==
  \A f \in Files : announced[f] # None =>
    \/ OnDisk(f, announced[f])
    \/ \E h \in Handlers : /\ file[h] = f /\ pc[h] \in {"d_open", "d_write"}
                            /\ body[h] = announced[f]

(***************************************************************************)
(* The same for a process that may be killed: memory does not count.        *)
(***************************************************************************)
Durable ==
  \A f \in Files : announced[f] # None => OnDisk(f, announced[f])

(***************************************************************************)
(* When nothing is under way, pack_flag tells where a file is: packed, or   *)
(* in back_dir with its last content.                                       *)
(***************************************************************************)
RowTellsWhere ==
  (\A t \in Threads : AtRest(t)) =>
    \A f \in Files : announced[f] # None =>
      /\ row[f] # None
      /\ IF row[f].pack_flag
           THEN /\ disk[PackOf(f)] = Archive(announced[f])
                /\ disk[Real(f)] = Absent
           ELSE disk[Real(f)] = announced[f]

(***************************************************************************)
(* 206 tells the client that the content it has part of is the one that is  *)
(* sent: a version that its ETag fits, the same or one that is as large and *)
(* was uploaded within the same second.                                     *)
(***************************************************************************)
PartialFitsETag ==
  \A h \in Handlers : reply[h] # None /\ reply[h].status = 206 =>
    /\ reply[h].cond # None /\ reply[h].body \in Versions
    /\ reply[h].cond.etag \in ETags[reply[h].body]

(***************************************************************************)
(* One request at a time, the server is the store its clients expect.       *)
(***************************************************************************)
Store == INSTANCE BackupStore WITH
  Clients <- Handlers, Bodies <- Bodies \cup {Zeros}, stored <- announced,
  reply <- [h \in Handlers |-> IF reply[h] = None THEN None
                               ELSE [file |-> reply[h].file, body |-> reply[h].body]]
ImplementsStore == Store!Spec

(***************************************************************************)
(* server.hpp:95, "Upload success!": what was uploaded is kept.             *)
(***************************************************************************)
UploadSuccess == NeverLost

(***************************************************************************)
(* A file nobody asks for is packed away in the end.                        *)
(***************************************************************************)
ColdFilesArePacked ==
  \A f \in Files :
    (cold[f] /\ disk[Real(f)] # Absent) ~> (~cold[f] \/ disk[Real(f)] = Absent)
=============================================================================

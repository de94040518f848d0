---------------------------- MODULE BackupStore ----------------------------
(***************************************************************************)
(* What the backup server of Cloud/Config promises its clients: a download  *)
(* that overlaps no upload of the same file answers with the content of the *)
(* file's last upload.  That cold files are packed and removed, and         *)
(* restored when they are asked for, does not show.                         *)
(***************************************************************************)
CONSTANTS
  Clients,     \* whose requests are handled at the same time
  Files,
  Versions,    \* the contents uploaded
  None,        \* nothing settled: never uploaded, or an upload is under way
  Bodies       \* what else an answer may hold

VARIABLES
  stored,      \* stored[f]: the content of file f
  reply        \* reply[c]: the last answer to client c

vars == <<stored, reply>>

Init ==
  /\ stored = [f \in Files |-> None]
  /\ reply = [c \in Clients |-> None]

BeginUpload(f) ==
  /\ stored' = [stored EXCEPT ![f] = None]
  /\ UNCHANGED reply

EndUpload(f, v) ==
  /\ stored[f] = None
  /\ stored' = [stored EXCEPT ![f] = v]
  /\ UNCHANGED reply

Answer(c, f) ==
  /\ \E b \in Bodies \cup Versions :
       /\ stored[f] # None => b = stored[f]
       /\ reply' = [reply EXCEPT ![c] = [file |-> f, body |-> b]]
  /\ UNCHANGED stored

Next ==
  \E f \in Files :
    \/ BeginUpload(f)
    \/ \E v \in Versions : EndUpload(f, v)
    \/ \E c \in Clients : Answer(c, f)

Spec == Init /\ [][Next]_vars
=============================================================================

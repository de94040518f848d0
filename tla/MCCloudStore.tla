---------------------------- MODULE MCCloudStore ----------------------------
(***************************************************************************)
(* Instances of CloudStore.  The number of versions bounds the uploads;     *)
(* downloads, hot passes and crashes are not bounded.                       *)
(***************************************************************************)
EXTENDS CloudStore

\* All versions are uploaded within the second 1, but for one in the second 2;
\* an empty file has another size than they.
MCStamps == 0 .. 2
MCETags ==
  LET later == CHOOSE v \in Versions : TRUE
  IN [c \in Bodies |-> CASE c = Empty -> {0} [] c = later -> {2} [] OTHER -> {1}]

\* A kill at any point that leaves no file truncated but unwritten, apart from
\* the one an upload writes.
CrashOutsideSetContent == Labels \ {"d_write", "h_write"}
=============================================================================

------------------------------ MODULE MCBackup -----------------------------
(* Backup over two days with one file kept, so that the second day prunes  *)
(* the first, and two commits, so that a backup can be older than another  *)
(* and the database younger than both.                                     *)
EXTENDS Backup
============================================================================

------------------------------ MODULE MCCallLog ------------------------------
(* Five calls; a file is rotated when it holds more than one record, two   *)
(* lines may wait for the writer, the log is cleared at most twice by one  *)
(* process, and the process restarts at most once.                         *)
EXTENDS CallLog
=============================================================================

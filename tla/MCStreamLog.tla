------------------------------ MODULE MCStreamLog ------------------------------
(* The stream's log in memory, for TLC. *)
EXTENDS StreamLog
================================================================================

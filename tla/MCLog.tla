------------------------------- MODULE MCLog --------------------------------
(* An instance of Log: two processes, and room for three blocks in the log, *)
(* so that a call has to wait for space while another one runs.             *)
EXTENDS Log
=============================================================================

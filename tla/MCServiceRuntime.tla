-------------------------- MODULE MCServiceRuntime ---------------------------
(* The instance of ServiceRuntime.                                         *)
EXTENDS ServiceRuntime

CONSTANTS s1, s2, s3
=============================================================================

----------------------------- MODULE MCLogUtils -----------------------------
(* Two threads that log, and an init that replaces the instance meanwhile.  *)
EXTENDS LogUtils

CONSTANTS l1, l2

MCLoggers == {l1, l2}

=============================================================================

---------------------------- MODULE MCRecvServer ----------------------------
(* One file, two servers one after the other or at once, clients of every  *)
(* kind, one connection waiting, and a screen that is created anew once.   *)
EXTENDS RecvServer

CONSTANT f1

MCFiles == {f1}

=============================================================================

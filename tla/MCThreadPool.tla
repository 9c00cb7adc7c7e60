---------------------------- MODULE MCThreadPool ----------------------------
(* Three tasks, a pool that begins with one worker and grows to two.        *)
EXTENDS ThreadPool

CONSTANTS t1, t2, t3

MCTasks == {t1, t2, t3}

=============================================================================

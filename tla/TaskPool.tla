------------------------------ MODULE TaskPool ------------------------------
(***************************************************************************)
(* What a pool of workers promises about the tasks committed to it,        *)
(* whatever its threads do: what is taken on is run once, in the order     *)
(* asked for and at most Limit at a time; nothing is taken on or begun     *)
(* once the pool is closed; and when the pool is gone nothing is running   *)
(* any more.  A task may be declined at any time.                          *)
(***************************************************************************)
EXTENDS Integers, Sequences, FiniteSets

CONSTANTS Tasks, Limit

VARIABLES
    waiting,  \* taken on and not begun, in the order in which they came
    running,
    ended,
    declined, \* never run
    fifo,     \* begin with the first that came, or with the last
    closed,
    gone

vars == <<waiting, running, ended, declined, fifo, closed, gone>>

Queued == {waiting[i] : i \in DOMAIN waiting}
Fresh == Tasks \ (Queued \cup running \cup ended \cup declined)

Init ==
    /\ waiting = <<>> /\ running = {} /\ ended = {} /\ declined = {}
    /\ fifo = TRUE /\ closed = FALSE /\ gone = FALSE

TakeOn(t) ==
    /\ t \in Fresh /\ ~closed
    /\ waiting' = Append(waiting, t)
    /\ UNCHANGED <<running, ended, declined, fifo, closed, gone>>

Decline(t) ==
    /\ t \in Fresh
    /\ declined' = declined \cup {t}
    /\ UNCHANGED <<waiting, running, ended, fifo, closed, gone>>

Begin ==
    /\ waiting # <<>> /\ ~closed /\ Cardinality(running) < Limit
    /\ \/ fifo /\ running' = running \cup {waiting[1]} /\ waiting' = Tail(waiting)
       \/ ~fifo /\ running' = running \cup {waiting[Len(waiting)]}
                /\ waiting' = SubSeq(waiting, 1, Len(waiting) - 1)
    /\ UNCHANGED <<ended, declined, fifo, closed, gone>>

End(t) ==
    /\ t \in running
    /\ running' = running \ {t} /\ ended' = ended \cup {t}
    /\ UNCHANGED <<waiting, declined, fifo, closed, gone>>

Reorder ==
    /\ fifo' = ~fifo
    /\ UNCHANGED <<waiting, running, ended, declined, closed, gone>>

Close ==
    /\ closed' = TRUE
    /\ UNCHANGED <<waiting, running, ended, declined, fifo, gone>>

\* What still waits is declined.
Destroy ==
    /\ closed /\ ~gone /\ running = {}
    /\ gone' = TRUE /\ waiting' = <<>> /\ declined' = declined \cup Queued
    /\ UNCHANGED <<running, ended, fifo, closed>>

Next ==
    \/ \E t \in Tasks : TakeOn(t) \/ Decline(t) \/ End(t)
    \/ Begin \/ Reorder \/ Close \/ Destroy

Spec == Init /\ [][Next]_vars

=============================================================================

----------------------------- MODULE ThreadPool -----------------------------
(***************************************************************************)
(* stdx::ThreadPool of toolbox/threadpool.h: workers that share a queue, a *)
(* mutex and a condition variable; commit, which may add a worker; quit    *)
(* and the destructor, which joins the workers.                            *)
(*                                                                         *)
(* What happens with the mutex held and touches nothing but what the mutex *)
(* protects is one step.  m_atmoic_quit_sign is also stored without it, so *)
(* a worker that evaluates the predicate of wait, blocks, looks at the     *)
(* sign again or takes a task, and a commit that looks at the sign a       *)
(* second time and adds its task, take a step for each, with the mutex     *)
(* held from the one to the next.                                          *)
(*                                                                         *)
(* A definition placed right before another with the same parameters, and  *)
(* named for what it leaves out, is a mutant listed in PROJECT.json.       *)
(***************************************************************************)
EXTENDS Integers, Sequences, FiniteSets

CONSTANTS
    Tasks,       \* what is committed, each once
    CountBegin,  \* the constructor's arguments
    CountMax,
    Threshold    \* DEFAULT_THREAD_POOL_COUNT_THRESHOLD

ASSUME CountAssumption ==
    CountBegin \in Nat /\ CountMax \in Nat /\ Threshold \in Nat \ {0}

Clamp(n)  == IF n > Threshold THEN Threshold ELSE n
PoolSize  == Clamp(CountBegin)
MaxGrowth == Clamp(CountMax)

Workers == 1..(IF PoolSize > MaxGrowth THEN PoolSize ELSE MaxGrowth)
Nobody == 0
Committing == -1
Nothing == "nothing"

ASSUME TaskAssumption == Nothing \notin Tasks

VARIABLES
    threads, \* m_threads.size()
    queue,   \* m_threadfuncs
    fifo,    \* m_atmoic_fifo_lifo
    counter, \* m_atmoic_working_couter
    quit,    \* m_atmoic_quit_sign
    mutex,   \* who holds m_mutex over more than one step: a worker, or a commit
    wpc,     \* where each worker is
    fn,      \* the task each worker has taken
    state,   \* what has become of each task
    dpc      \* where quit and the destructor are

vars == <<threads, queue, fifo, counter, quit, mutex, wpc, fn, state, dpc>>

Init ==
    /\ threads = PoolSize /\ queue = <<>> /\ fifo = TRUE /\ counter = 0
    /\ quit = FALSE /\ mutex = Nobody
    /\ wpc = [w \in Workers |-> IF w <= PoolSize THEN "loop" ELSE "none"]
    /\ fn = [w \in Workers |-> Nothing]
    /\ state = [t \in Tasks |-> "new"]
    /\ dpc = "none"

Goto(w, next) == wpc' = [wpc EXCEPT ![w] = next]
Asleep == {w \in Workers : wpc[w] = "asleep"}

-----------------------------------------------------------------------------
(* commit.                                                                  *)

\* The first look at the quit sign, without the mutex.
Enter(t) ==
    /\ state[t] = "new" /\ dpc # "gone"
    /\ state' = [state EXCEPT ![t] = IF quit THEN "refused" ELSE "entered"]
    /\ UNCHANGED <<threads, queue, fifo, counter, quit, mutex, wpc, fn, dpc>>

HasIdle == counter < threads

Grown   == IF ~HasIdle /\ threads < MaxGrowth THEN threads + 1 ELSE threads

\* notify_one, and the start of a worker that has just been added.
Woken(w) ==
    [v \in Workers |-> IF v = w THEN "lock"
                       ELSE IF v = threads + 1 /\ v <= Grown THEN "loop" ELSE wpc[v]]

\* The second look, with the mutex.
Admit(t) ==
    /\ state[t] = "entered" /\ mutex = Nobody /\ ~quit
    /\ mutex' = Committing
    /\ state' = [state EXCEPT ![t] = "admitted"]
    /\ UNCHANGED <<threads, queue, fifo, counter, quit, wpc, fn, dpc>>

PushQuietly(t) ==
    /\ state[t] = "admitted"
    /\ mutex' = Nobody
    /\ threads' = Grown
    /\ queue' = Append(queue, t)
    /\ wpc' = Woken(Nobody)
    /\ state' = [state EXCEPT ![t] = "pending"]
    /\ UNCHANGED <<fifo, counter, quit, fn, dpc>>

\* No idle worker and room for one more adds one, and one waiting worker is
\* notified.  quit may have been called since the look.
Push(t) ==
    /\ state[t] = "admitted"
    /\ mutex' = Nobody
    /\ threads' = Grown
    /\ queue' = Append(queue, t)
    /\ IF Asleep = {} THEN wpc' = Woken(Nobody)
                      ELSE \E w \in Asleep : wpc' = Woken(w)
    /\ state' = [state EXCEPT ![t] = "pending"]
    /\ UNCHANGED <<fifo, counter, quit, fn, dpc>>

Refuse(t) ==
    /\ state[t] = "entered" /\ mutex = Nobody /\ quit
    /\ state' = [state EXCEPT ![t] = "refused"]
    /\ UNCHANGED <<threads, queue, fifo, counter, quit, mutex, wpc, fn, dpc>>

\* The thread cannot be started: emplace_back throws before the task is queued, the
\* exception is caught, and the caller is told nothing.
GrowthFails(t) ==
    /\ state[t] = "admitted"
    /\ Grown # threads
    /\ mutex' = Nobody
    /\ state' = [state EXCEPT ![t] = "lost"]
    /\ UNCHANGED <<threads, queue, fifo, counter, quit, wpc, fn, dpc>>

SetOrder ==
    /\ dpc = "none"
    /\ fifo' = ~fifo
    /\ UNCHANGED <<threads, queue, counter, quit, mutex, wpc, fn, state, dpc>>

-----------------------------------------------------------------------------
(* A worker.                                                                *)

LoopTest(w) ==
    /\ wpc[w] = "loop"
    /\ Goto(w, IF quit THEN "ended" ELSE "lock")
    /\ UNCHANGED <<threads, queue, fifo, counter, quit, mutex, fn, state, dpc>>

\* The mutex is taken, on entry or after waking up, and the predicate evaluated.
Evaluate(w) ==
    /\ wpc[w] = "lock" /\ mutex = Nobody
    /\ mutex' = w
    /\ Goto(w, IF queue # <<>> \/ quit THEN "take" ELSE "block")
    /\ UNCHANGED <<threads, queue, fifo, counter, quit, fn, state, dpc>>

\* m_cv.wait gives up the mutex and blocks, at once.
Block(w) ==
    /\ wpc[w] = "block"
    /\ mutex' = Nobody
    /\ Goto(w, "asleep")
    /\ UNCHANGED <<threads, queue, fifo, counter, quit, fn, state, dpc>>

Spurious(w) ==
    /\ wpc[w] = "asleep"
    /\ Goto(w, "lock")
    /\ UNCHANGED <<threads, queue, fifo, counter, quit, mutex, fn, state, dpc>>

SeeQuit(w) ==
    /\ wpc[w] = "take" /\ quit
    /\ mutex' = Nobody
    /\ Goto(w, "ended")
    /\ UNCHANGED <<threads, queue, fifo, counter, quit, fn, state, dpc>>

SeeOpen(w) ==
    /\ wpc[w] = "take" /\ ~quit
    /\ Goto(w, "pop")
    /\ UNCHANGED <<threads, queue, fifo, counter, quit, mutex, fn, state, dpc>>

TakeCopy(w) ==
    /\ wpc[w] = "pop"
    /\ fn' = [fn EXCEPT ![w] = queue[IF fifo THEN 1 ELSE Len(queue)]]
    /\ state' = [state EXCEPT ![fn'[w]] = "taken"]
    /\ mutex' = Nobody
    /\ Goto(w, "taken")
    /\ UNCHANGED <<threads, queue, fifo, counter, quit, dpc>>

\* A task is moved out of the queue, from the front or from the back, also when quit
\* has been called since the look.
Take(w) ==
    /\ wpc[w] = "pop"
    /\ IF fifo
       THEN fn' = [fn EXCEPT ![w] = queue[1]] /\ queue' = Tail(queue)
       ELSE fn' = [fn EXCEPT ![w] = queue[Len(queue)]]
            /\ queue' = SubSeq(queue, 1, Len(queue) - 1)
    /\ state' = [state EXCEPT ![fn'[w]] = "taken"]
    /\ mutex' = Nobody
    /\ Goto(w, "taken")
    /\ UNCHANGED <<threads, fifo, counter, quit, dpc>>

\* Without the mutex again: the worker is counted only now.
StartTask(w) ==
    /\ wpc[w] = "taken"
    /\ counter' = counter + 1
    /\ Goto(w, "run")
    /\ UNCHANGED <<threads, queue, fifo, quit, mutex, fn, state, dpc>>

FinishTask(w) ==
    /\ wpc[w] = "run"
    /\ counter' = counter - 1
    /\ state' = [state EXCEPT ![fn[w]] = "done"]
    /\ fn' = [fn EXCEPT ![w] = Nothing]
    /\ Goto(w, "loop")
    /\ UNCHANGED <<threads, queue, fifo, quit, mutex, dpc>>

ThrowEnds(w) ==
    /\ wpc[w] = "run"
    /\ state' = [state EXCEPT ![fn[w]] = "threw"]
    /\ fn' = [fn EXCEPT ![w] = Nothing]
    /\ Goto(w, "ended")
    /\ UNCHANGED <<threads, queue, fifo, counter, quit, mutex, dpc>>

\* A task that throws is caught after the decrement was skipped: the worker counts
\* as busy from now on.
ThrowTask(w) ==
    /\ wpc[w] = "run"
    /\ state' = [state EXCEPT ![fn[w]] = "threw"]
    /\ fn' = [fn EXCEPT ![w] = Nothing]
    /\ Goto(w, "loop")
    /\ UNCHANGED <<threads, queue, fifo, counter, quit, mutex, dpc>>

-----------------------------------------------------------------------------
(* quit and the destructor.                                                 *)

QuitStore ==
    /\ dpc = "none"
    /\ quit' = TRUE
    /\ dpc' = "stored"
    /\ UNCHANGED <<threads, queue, fifo, counter, mutex, wpc, fn, state>>

NotifyUnlocked ==
    /\ dpc = "stored"
    /\ wpc' = [w \in Workers |-> IF wpc[w] = "asleep" THEN "lock" ELSE wpc[w]]
    /\ dpc' = "join"
    /\ UNCHANGED <<threads, queue, fifo, counter, quit, mutex, fn, state>>

\* notify_all, with the mutex.
QuitNotify ==
    /\ dpc = "stored" /\ mutex = Nobody
    /\ wpc' = [w \in Workers |-> IF wpc[w] = "asleep" THEN "lock" ELSE wpc[w]]
    /\ dpc' = "join"
    /\ UNCHANGED <<threads, queue, fifo, counter, quit, mutex, fn, state>>

JoinIdle ==
    /\ dpc = "join"
    /\ \A w \in 1..threads : wpc[w] \in {"ended", "taken", "run"}
    /\ dpc' = "gone"
    /\ queue' = <<>>
    /\ state' = [t \in Tasks |-> IF state[t] = "pending" THEN "dropped" ELSE state[t]]
    /\ UNCHANGED <<threads, fifo, counter, quit, mutex, wpc, fn>>

\* uninit walks over m_threads without the mutex and joins each; then the queue
\* goes with what is left in it.
Join ==
    /\ dpc = "join"
    /\ \A w \in 1..threads : wpc[w] = "ended"
    /\ dpc' = "gone"
    /\ queue' = <<>>
    /\ state' = [t \in Tasks |-> IF state[t] = "pending" THEN "dropped" ELSE state[t]]
    /\ UNCHANGED <<threads, fifo, counter, quit, mutex, wpc, fn>>

-----------------------------------------------------------------------------
Decide(t) == Admit(t) \/ Refuse(t) \/ Push(t) \/ GrowthFails(t)
Work(w) == \/ LoopTest(w) \/ Evaluate(w) \/ Block(w) \/ SeeQuit(w) \/ SeeOpen(w) \/ Take(w)
           \/ StartTask(w) \/ FinishTask(w) \/ ThrowTask(w)
Destroy == QuitNotify \/ Join

Next ==
    \/ \E t \in Tasks : Enter(t) \/ Decide(t)
    \/ \E w \in Workers : Work(w) \/ Spurious(w)
    \/ QuitStore \/ Destroy \/ SetOrder

Spec == Init /\ [][Next]_vars

(***************************************************************************)
(* Fairness: threads run, tasks end, and the mutex, which nobody keeps, is *)
(* not refused for ever to a thread that asks for it again and again.      *)
(***************************************************************************)
FairSpec ==
    /\ Spec
    /\ SF_vars(Destroy)
    /\ \A t \in Tasks : SF_vars(Decide(t))
    /\ \A w \in Workers : SF_vars(Work(w))

-----------------------------------------------------------------------------
(* What is checked.                                                         *)

Members(s) == {s[i] : i \in DOMAIN s}

\* The type of every variable.
TypeOK ==
    /\ threads \in 0..(IF PoolSize > MaxGrowth THEN PoolSize ELSE MaxGrowth)
    /\ queue \in Seq(Tasks) /\ fifo \in BOOLEAN /\ counter \in Nat
    /\ quit \in BOOLEAN /\ mutex \in Workers \cup {Nobody, Committing}
    /\ wpc \in [Workers -> {"none", "loop", "lock", "block", "asleep", "take", "pop",
                            "taken", "run", "ended"}]
    /\ fn \in [Workers -> Tasks \cup {Nothing}]
    /\ state \in [Tasks -> {"new", "entered", "admitted", "refused", "pending", "taken",
                            "done", "threw", "dropped", "lost"}]
    /\ dpc \in {"none", "stored", "join", "gone"}

\* A task is in the queue once, or with one worker, or nowhere: it is never run
\* twice and never lost while the pool lives, however workers, order changes and
\* commits interleave.
InOnePlace == \A t \in Tasks :
    LET places == {i \in DOMAIN queue : queue[i] = t}
        takers == {w \in Workers : fn[w] = t}
    IN  Cardinality(places) + Cardinality(takers)
          = IF state[t] \in {"pending", "taken"} THEN 1 ELSE 0

\* A pending task never finds every worker asleep: no wake-up is lost between a
\* worker's look at the queue and its sleep.
SomebodyAwake ==
    queue # <<>> /\ threads > 0 /\ ~quit => \E w \in 1..threads : wpc[w] # "asleep"

\* The pool keeps the promises of TaskPool: what commit takes on is run once, by the
\* order set, by no more workers than the limit; nothing is taken on or begun once
\* quit() has returned, though a commit or a worker may have looked at the sign
\* before it was stored; and nothing is running any more when the destructor returns.
In(states) == {t \in Tasks : state[t] \in states}

Promise == INSTANCE TaskPool WITH
    Limit <- IF PoolSize > MaxGrowth THEN PoolSize ELSE MaxGrowth,
    waiting <- queue, running <- In({"taken"}), ended <- In({"done", "threw"}),
    declined <- In({"refused", "lost", "dropped"}),
    closed <- dpc \in {"join", "gone"}, gone <- dpc = "gone"

KeepsPromise == Promise!Spec

\* While the destructor walks over m_threads nobody adds to it, also not a commit
\* that looked at the quit sign before it was stored: quit() waits for its mutex.
FixedWhileJoined == [][(dpc \in {"join", "gone"}) => UNCHANGED threads]_vars

\* Every task taken on is run, unless the pool is told to quit.
EachIsRun == threads > 0 => \A t \in Tasks :
    state[t] = "pending" ~> (state[t] \in {"done", "threw"} \/ quit)

\* quit reaches every worker, also one that is about to sleep: the destructor
\* returns.
QuitReturns == quit ~> dpc = "gone"

=============================================================================

-------------------------- MODULE ThreadPoolProofs --------------------------
(***************************************************************************)
(* The safety of the pool, for every number of workers and every set of    *)
(* tasks.  InOnePlace counts places and takers; what is inductive is said  *)
(* without counting: the queue has no task twice, no two workers have the  *)
(* same one, and a task's state says where it is.                          *)
(***************************************************************************)
EXTENDS ThreadPool, FiniteSetTheorems, SequenceTheorems, TLAPS

\* Where a worker or a commit may be while it holds the mutex, and what a worker has
\* then seen.
Locked ==
    /\ \A w \in Workers : wpc[w] \in {"take", "block", "pop"} => mutex = w
    /\ \A t \in Tasks : state[t] = "admitted" => mutex = Committing
    /\ \A s, t \in Tasks : state[s] = "admitted" /\ state[t] = "admitted" => s = t
    /\ \A w \in Workers : wpc[w] = "block" => queue = <<>>
    /\ \A w \in Workers : wpc[w] = "pop" => queue # <<>>
    /\ \A w \in Workers : wpc[w] = "take" => queue # <<>> \/ quit

\* Workers beyond m_threads.size() have not been started.
Started == \A w \in Workers : wpc[w] = "none" <=> w > threads

\* A task is where its state says.
Placed ==
    /\ \A i \in DOMAIN queue : state[queue[i]] = "pending"
    /\ \A t \in Tasks : state[t] = "pending" => \E i \in DOMAIN queue : queue[i] = t
    /\ \A w \in Workers : fn[w] # Nothing => state[fn[w]] = "taken"
    /\ \A t \in Tasks : state[t] = "taken" => \E w \in Workers : fn[w] = t

\* Nothing is anywhere twice.
Single ==
    /\ \A i, j \in DOMAIN queue : queue[i] = queue[j] => i = j
    /\ \A v, w \in Workers : fn[v] # Nothing /\ fn[v] = fn[w] => v = w

\* A worker has a task between taking and ending it.
Holding == \A w \in Workers : wpc[w] \in {"taken", "run"} <=> fn[w] # Nothing

\* The destructor begins with the quit sign, which stays; and once quit() has had the
\* mutex, nobody is left who looked at the sign before.
Quitting ==
    /\ dpc # "none" => quit
    /\ dpc \in {"join", "gone"} => /\ \A w \in Workers : wpc[w] # "pop"
                                  /\ \A t \in Tasks : state[t] # "admitted"

\* A worker that runs a task has been counted.
Running == {w \in Workers : wpc[w] = "run"}
Counted == Cardinality(Running) <= counter

IInv ==
    /\ TypeOK /\ Locked /\ Started /\ Placed /\ Single /\ Holding /\ Quitting
    /\ Counted /\ SomebodyAwake

-----------------------------------------------------------------------------
(* The constants.                                                           *)

LEMMA Sizes ==
    /\ PoolSize \in Nat /\ MaxGrowth \in Nat
    /\ \E n \in Nat : Workers = 1..n /\ PoolSize <= n /\ MaxGrowth <= n
                      /\ n = (IF PoolSize > MaxGrowth THEN PoolSize ELSE MaxGrowth)
  BY CountAssumption DEF PoolSize, MaxGrowth, Clamp, Workers

LEMMA NobodyIsNoWorker ==
    Nobody \notin Workers /\ Committing \notin Workers /\ Committing # Nobody
  BY DEF Nobody, Committing, Workers

LEMMA GrownRange ==
    ASSUME TypeOK
    PROVE  /\ Grown \in {threads, threads + 1}
           /\ Grown = threads + 1 => threads + 1 \in Workers
           /\ Grown \in 0..(IF PoolSize > MaxGrowth THEN PoolSize ELSE MaxGrowth)
  BY Sizes DEF Grown, TypeOK, Workers

-----------------------------------------------------------------------------
(* Two steps in detail.                                                     *)

\* A commit appends the task, and wakes a worker up or starts one.
LEMMA Pushed ==
    ASSUME IInv, NEW t \in Tasks, Push(t)
    PROVE  /\ queue' = Append(queue, t) /\ queue' \in Seq(Tasks)
           /\ Len(queue') = Len(queue) + 1 /\ queue'[Len(queue) + 1] = t
           /\ \A i \in 1..Len(queue) : queue'[i] = queue[i]
           /\ wpc' \in [Workers -> {"none", "loop", "lock", "block", "asleep", "take",
                                    "pop", "taken", "run", "ended"}]
           /\ \A v \in Workers :
                \/ wpc'[v] = wpc[v] /\ (v = threads + 1 => v > Grown)
                \/ wpc[v] = "asleep" /\ wpc'[v] = "lock"
                \/ wpc'[v] = "loop" /\ v = threads + 1 /\ v <= Grown
<1>1. queue \in Seq(Tasks) /\ wpc \in [Workers -> {"none", "loop", "lock", "block",
         "asleep", "take", "pop", "taken", "run", "ended"}]
  BY DEF IInv, TypeOK
<1>2. queue' = Append(queue, t)
  BY DEF Push
<1>3. PICK w \in Asleep \cup {Nobody} : wpc' = Woken(w)
  BY DEF Push
<1>4. wpc' = [v \in Workers |-> IF v = w THEN "lock"
               ELSE IF v = threads + 1 /\ v <= Grown THEN "loop" ELSE wpc[v]]
  BY <1>3 DEF Woken
<1>5. \A v \in Workers : v = w => wpc[v] = "asleep"
  BY <1>3, NobodyIsNoWorker DEF Asleep
<1>6. threads \in Nat /\ Grown \in Nat
  BY GrownRange, Sizes DEF IInv, TypeOK
<1>7. \A v \in Workers :
        \/ wpc'[v] = wpc[v] /\ (v = threads + 1 => v > Grown)
        \/ wpc[v] = "asleep" /\ wpc'[v] = "lock"
        \/ wpc'[v] = "loop" /\ v = threads + 1 /\ v <= Grown
  BY <1>4, <1>5, <1>6 DEF Workers
<1>. QED
  BY <1>1, <1>2, <1>4, <1>7

\* A worker takes the task at place k, and the others move up by d.
LEMMA Taken ==
    ASSUME IInv, NEW w \in Workers, Take(w)
    PROVE  \E k \in 1..Len(queue), d \in {0, 1} :
             /\ queue' \in Seq(Tasks) /\ Len(queue') = Len(queue) - 1
             /\ \A i \in 1..Len(queue') : queue'[i] = queue[i + d]
             /\ k = IF d = 1 THEN 1 ELSE Len(queue)
             /\ fn' = [fn EXCEPT ![w] = queue[k]]
             /\ queue[k] \in Tasks
             /\ state' = [state EXCEPT ![queue[k]] = "taken"]
<1>1. queue \in Seq(Tasks) /\ queue # <<>> /\ fn \in [Workers -> Tasks \cup {Nothing}]
  BY DEF Take, IInv, TypeOK, Locked
<1>2. Len(queue) \in Nat \ {0} /\ \A i \in 1..Len(queue) : queue[i] \in Tasks
  BY <1>1
<1>3. CASE fifo
  <2>1. fn' = [fn EXCEPT ![w] = queue[1]] /\ queue' = Tail(queue)
    BY <1>3 DEF Take
  <2>2. state' = [state EXCEPT ![queue[1]] = "taken"]
    BY <1>1, <2>1 DEF Take
  <2>3. /\ queue' \in Seq(Tasks) /\ Len(queue') = Len(queue) - 1
        /\ \A i \in 1..Len(queue') : queue'[i] = queue[i + 1]
    BY <1>1, <1>2, <2>1
  <2>4. 1 \in 1..Len(queue) /\ queue[1] \in Tasks /\ 1 = (IF 1 = 1 THEN 1 ELSE Len(queue))
    BY <1>2
  <2>. WITNESS 1 \in 1..Len(queue), 1 \in {0, 1}
  <2>. QED
    BY <2>1, <2>2, <2>3, <2>4
<1>4. CASE ~fifo
  <2>. DEFINE n == Len(queue)
  <2>1. fn' = [fn EXCEPT ![w] = queue[n]] /\ queue' = SubSeq(queue, 1, n - 1)
    BY <1>4 DEF Take
  <2>2. state' = [state EXCEPT ![queue[n]] = "taken"]
    BY <1>1, <2>1 DEF Take
  <2>3. /\ SubSeq(queue, 1, n - 1) \in Seq(Tasks)
        /\ Len(SubSeq(queue, 1, n - 1)) = n - 1
        /\ \A i \in 1..(n - 1) : SubSeq(queue, 1, n - 1)[i] = queue[i]
    <3>1. 1 \in Int /\ n - 1 \in Int /\ \A i \in 1..(n - 1) : queue[i] \in Tasks
      BY <1>2
    <3>2. /\ SubSeq(queue, 1, n - 1) \in Seq(Tasks)
          /\ Len(SubSeq(queue, 1, n - 1)) = IF 1 <= n - 1 THEN n - 1 - 1 + 1 ELSE 0
          /\ \A i \in 1..(n - 1 - 1 + 1) : SubSeq(queue, 1, n - 1)[i] = queue[1 + i - 1]
      BY <3>1, SubSeqProperties
    <3>3. n \in Nat \ {0}
      BY <1>2
    <3>. HIDE DEF n
    <3>4. n - 1 - 1 + 1 = n - 1 /\ (IF 1 <= n - 1 THEN n - 1 - 1 + 1 ELSE 0) = n - 1
      BY <3>3
    <3>5. \A i \in 1..(n - 1) : 1 + i - 1 = i
      OBVIOUS
    <3>. QED
      BY <3>2, <3>4, <3>5
  <2>4. \A i \in 1..(n - 1) : queue[i] = queue[i + 0]
    OBVIOUS
  <2>5. n \in 1..n /\ queue[n] \in Tasks /\ n = (IF 0 = 1 THEN 1 ELSE n)
    BY <1>2
  <2>. HIDE DEF n
  <2>6. /\ queue' \in Seq(Tasks) /\ Len(queue') = n - 1
        /\ \A i \in 1..Len(queue') : queue'[i] = queue[i + 0]
    BY <2>1, <2>3, <2>4
  <2>7. \E k \in 1..n, d \in {0, 1} :
             /\ queue' \in Seq(Tasks) /\ Len(queue') = n - 1
             /\ \A i \in 1..Len(queue') : queue'[i] = queue[i + d]
             /\ k = IF d = 1 THEN 1 ELSE n
             /\ fn' = [fn EXCEPT ![w] = queue[k]]
             /\ queue[k] \in Tasks
             /\ state' = [state EXCEPT ![queue[k]] = "taken"]
    BY <2>1, <2>2, <2>5, <2>6, Zenon
  <2>. QED
    BY <2>7 DEF n
<1>. QED
  BY <1>3, <1>4

-----------------------------------------------------------------------------
(* Every step keeps each part.                                              *)

LEMMA InitIInv == Init => IInv
<1> SUFFICES ASSUME Init PROVE IInv
  OBVIOUS
<1>1. TypeOK
  <2>1. threads \in 0..(IF PoolSize > MaxGrowth THEN PoolSize ELSE MaxGrowth)
    BY Sizes DEF Init
  <2>2. queue \in Seq(Tasks)
    BY DEF Init
  <2>3. /\ wpc \in [Workers -> {"none", "loop", "lock", "block", "asleep", "take", "pop",
                                "taken", "run", "ended"}]
        /\ fn \in [Workers -> Tasks \cup {Nothing}]
        /\ state \in [Tasks -> {"new", "entered", "admitted", "refused", "pending",
                                 "taken", "done", "threw", "dropped", "lost"}]
    BY DEF Init
  <2>. QED
    BY <2>1, <2>2, <2>3 DEF Init, TypeOK
<1>2. Locked /\ Started /\ Holding /\ Quitting
  BY Sizes DEF Init, Locked, Started, Holding, Quitting, Workers
<1>3. Placed /\ Single
  BY DEF Init, Placed, Single
<1>4. Counted
  <2>1. Running = {}
    BY DEF Init, Running
  <2>. QED
    BY <2>1, FS_EmptySet DEF Counted, Init
<1>5. SomebodyAwake
  BY DEF Init, SomebodyAwake
<1>. QED
  BY <1>1, <1>2, <1>3, <1>4, <1>5 DEF IInv

LEMMA CountStep == IInv /\ [Next]_vars => counter' \in Nat /\ Counted'
<1> SUFFICES ASSUME IInv, [Next]_vars PROVE counter' \in Nat /\ Counted'
  OBVIOUS
<1>1. /\ wpc \in [Workers -> {"none", "loop", "lock", "block", "asleep", "take", "pop",
                              "taken", "run", "ended"}]
      /\ counter \in Nat /\ Cardinality(Running) <= counter
  BY DEF IInv, TypeOK, Counted
<1>2. IsFiniteSet(Workers)
  <2>1. PICK n \in Nat : Workers = 1..n
    BY Sizes
  <2>2. IsFiniteSet(1..n)
    BY <2>1, FS_Interval
  <2>. QED
    BY <2>1, <2>2
<1>3. IsFiniteSet(Running) /\ Cardinality(Running) \in Nat
  BY <1>2, FS_Subset, FS_CardinalityType DEF Running
<1>4. ASSUME NEW w \in Workers, StartTask(w) PROVE counter' \in Nat /\ Counted'
  <2>1. w \notin Running /\ Running' = Running \cup {w} /\ counter' = counter + 1
    BY <1>1, <1>4 DEF StartTask, Goto, Running
  <2>2. Cardinality(Running') = Cardinality(Running) + 1
    BY <1>3, <2>1, FS_AddElement
  <2>. QED
    BY <1>1, <1>3, <2>1, <2>2 DEF Counted
<1>5. ASSUME NEW w \in Workers, FinishTask(w) PROVE counter' \in Nat /\ Counted'
  <2>1. w \in Running /\ Running' = Running \ {w} /\ counter' = counter - 1
    BY <1>1, <1>5 DEF FinishTask, Goto, Running
  <2>2. Cardinality(Running') = Cardinality(Running) - 1
    BY <1>3, <2>1, FS_RemoveElement
  <2>3. Cardinality(Running) > 0
    BY <1>3, <2>1, FS_EmptySet
  <2>. QED
    BY <1>1, <1>3, <2>1, <2>2, <2>3 DEF Counted
<1>6. ASSUME NEW w \in Workers, ThrowTask(w) PROVE counter' \in Nat /\ Counted'
  <2>1. w \in Running /\ Running' = Running \ {w} /\ counter' = counter
    BY <1>1, <1>6 DEF ThrowTask, Goto, Running
  <2>2. Cardinality(Running') = Cardinality(Running) - 1
    BY <1>3, <2>1, FS_RemoveElement
  <2>. QED
    BY <1>1, <1>3, <2>1, <2>2 DEF Counted
<1>7. ASSUME Running' = Running, counter' = counter PROVE counter' \in Nat /\ Counted'
  BY <1>1, <1>7 DEF Counted
<1>8. ASSUME NEW t \in Tasks, Push(t) PROVE Running' = Running /\ counter' = counter
  <2>1. \A v \in Workers : wpc'[v] = "run" <=> wpc[v] = "run"
    BY <1>8, Pushed, <1>1 DEF IInv, Started, TypeOK, Workers
  <2>. QED
    BY <2>1, <1>8 DEF Running, Push
<1>9. ASSUME NEW w \in Workers,
             LoopTest(w) \/ Evaluate(w) \/ Block(w) \/ SeeQuit(w) \/ SeeOpen(w)
             \/ Take(w) \/ Spurious(w)
      PROVE  Running' = Running /\ counter' = counter
  <2>1. \A v \in Workers : wpc'[v] = "run" <=> wpc[v] = "run"
    BY <1>1, <1>9 DEF LoopTest, Evaluate, Block, SeeQuit, SeeOpen, Take, Spurious, Goto
  <2>. QED
    BY <2>1, <1>9 DEF Running, LoopTest, Evaluate, Block, SeeQuit, SeeOpen, Take, Spurious
<1>10. ASSUME QuitNotify PROVE Running' = Running /\ counter' = counter
  BY <1>1, <1>10 DEF QuitNotify, Running
<1>11. ASSUME UNCHANGED <<wpc, counter>> PROVE Running' = Running /\ counter' = counter
  BY <1>11 DEF Running
<1>. QED
  BY <1>4, <1>5, <1>6, <1>7, <1>8, <1>9, <1>10, <1>11 DEF Next, Decide, Work, Destroy,
       Enter,
       Admit, Refuse, GrowthFails, QuitStore, Join, SetOrder, vars

LEMMA TypeStep == IInv /\ [Next]_vars => TypeOK'
<1> SUFFICES ASSUME IInv, [Next]_vars PROVE TypeOK'
  OBVIOUS
<1>. USE Sizes, NobodyIsNoWorker
<1>1. TypeOK /\ counter' \in Nat
  BY CountStep DEF IInv
<1>2. ASSUME NEW t \in Tasks, Push(t) PROVE TypeOK'
  BY <1>1, <1>2, Pushed, GrownRange DEF TypeOK, Push
<1>3. ASSUME NEW t \in Tasks, Enter(t) \/ Admit(t) \/ Refuse(t) \/ GrowthFails(t)
      PROVE  TypeOK'
  BY <1>1, <1>3 DEF TypeOK, Enter, Admit, Refuse, GrowthFails
<1>4. ASSUME NEW w \in Workers, LoopTest(w) \/ Spurious(w) \/ Evaluate(w) PROVE TypeOK'
  BY <1>1, <1>4 DEF TypeOK, LoopTest, Spurious, Evaluate, Goto
<1>5. ASSUME NEW w \in Workers, Block(w) \/ SeeQuit(w) \/ SeeOpen(w) \/ StartTask(w)
      PROVE  TypeOK'
  BY <1>1, <1>5 DEF TypeOK, Block, SeeQuit, SeeOpen, StartTask, Goto
<1>6. ASSUME NEW w \in Workers, Take(w) PROVE TypeOK'
  <2>1. /\ queue' \in Seq(Tasks) /\ fn' \in [Workers -> Tasks \cup {Nothing}]
        /\ state' \in [Tasks -> {"new", "entered", "admitted", "refused", "pending",
                                 "taken", "done", "threw", "dropped", "lost"}]
    BY <1>1, <1>6, Taken DEF TypeOK
  <2>. QED
    BY <1>1, <1>6, <2>1 DEF TypeOK, Take, Goto
<1>7. ASSUME NEW w \in Workers, FinishTask(w) \/ ThrowTask(w) PROVE TypeOK'
  <2>1. CASE FinishTask(w)
    BY <1>1, <2>1 DEF TypeOK, FinishTask, Goto
  <2>2. CASE ThrowTask(w)
    BY <1>1, <2>2 DEF TypeOK, ThrowTask, Goto
  <2>. QED
    BY <1>7, <2>1, <2>2
<1>8. ASSUME QuitStore \/ QuitNotify \/ SetOrder PROVE TypeOK'
  BY <1>1, <1>8 DEF TypeOK, QuitStore, QuitNotify, SetOrder
<1>9. ASSUME Join PROVE TypeOK'
  BY <1>1, <1>9 DEF TypeOK, Join
<1>10. ASSUME UNCHANGED vars PROVE TypeOK'
  BY <1>1, <1>10 DEF TypeOK, vars
<1>. QED
  BY <1>2, <1>3, <1>4, <1>5, <1>6, <1>7, <1>8, <1>9, <1>10 DEF Next, Decide, Work, Destroy

LEMMA LockedStep == IInv /\ [Next]_vars => Locked'
<1> SUFFICES ASSUME IInv, [Next]_vars PROVE Locked'
  OBVIOUS
<1>. USE NobodyIsNoWorker
<1>1. TypeOK /\ Locked /\ Started /\ Quitting
  BY DEF IInv
<1>2. ASSUME NEW t \in Tasks, Push(t) PROVE Locked'
  <2>1. \A v \in Workers : wpc[v] \notin {"take", "block", "pop"}
    BY <1>1, <1>2 DEF Push, Locked
  <2>2. \A v \in Workers : wpc'[v] \notin {"take", "block", "pop"}
    BY <1>2, <2>1, Pushed
  <2>3. \A s \in Tasks : state'[s] # "admitted"
    BY <1>1, <1>2 DEF Push, Locked, TypeOK
  <2>. QED
    BY <2>2, <2>3 DEF Locked
<1>3. ASSUME NEW t \in Tasks, Enter(t) \/ Refuse(t) PROVE Locked'
  <2>1. /\ UNCHANGED <<mutex, wpc, queue, quit>>
        /\ \A s \in Tasks : state'[s] = "admitted" => state[s] = "admitted"
    BY <1>1, <1>3 DEF TypeOK, Enter, Refuse
  <2>. QED
    BY <1>1, <2>1 DEF Locked
<1>4. ASSUME NEW t \in Tasks, Admit(t) PROVE Locked'
  <2>1. /\ \A v \in Workers : wpc[v] \notin {"take", "block", "pop"}
        /\ \A s \in Tasks : state[s] # "admitted"
    BY <1>1, <1>4 DEF Locked, Admit
  <2>2. \A s \in Tasks : state'[s] = "admitted" => s = t
    BY <1>1, <1>4, <2>1 DEF TypeOK, Admit
  <2>. QED
    BY <1>4, <2>1, <2>2 DEF Locked, Admit
<1>5. ASSUME NEW t \in Tasks, GrowthFails(t) PROVE Locked'
  <2>1. \A v \in Workers : wpc[v] \notin {"take", "block", "pop"}
    BY <1>1, <1>5 DEF GrowthFails, Locked
  <2>2. \A s \in Tasks : state'[s] # "admitted"
    BY <1>1, <1>5 DEF GrowthFails, Locked, TypeOK
  <2>. QED
    BY <1>5, <2>1, <2>2 DEF Locked, GrowthFails
<1>6. ASSUME NEW w \in Workers,
             LoopTest(w) \/ Spurious(w) \/ StartTask(w) \/ FinishTask(w) \/ ThrowTask(w)
      PROVE  Locked'
  <2>1. /\ UNCHANGED <<mutex, queue, quit>>
        /\ \A s \in Tasks : state'[s] = "admitted" => state[s] = "admitted"
    BY <1>1, <1>6 DEF TypeOK, LoopTest, Spurious, StartTask, FinishTask, ThrowTask
  <2>2. \A v \in Workers : wpc'[v] \in {"take", "block", "pop"} => wpc'[v] = wpc[v]
    BY <1>1, <1>6 DEF TypeOK, LoopTest, Spurious, StartTask, FinishTask, ThrowTask, Goto
  <2>. QED
    BY <1>1, <2>1, <2>2 DEF Locked
<1>7. ASSUME NEW w \in Workers, Evaluate(w) PROVE Locked'
  BY <1>1, <1>7 DEF TypeOK, Locked, Evaluate, Goto
<1>8. ASSUME NEW w \in Workers, SeeOpen(w) PROVE Locked'
  BY <1>1, <1>8 DEF TypeOK, Locked, SeeOpen, Goto
<1>9. ASSUME NEW w \in Workers, Block(w) \/ SeeQuit(w) \/ Take(w) PROVE Locked'
  <2>1. /\ \A v \in Workers : v # w => wpc[v] \notin {"take", "block", "pop"}
        /\ \A s \in Tasks : state[s] # "admitted"
    BY <1>1, <1>9 DEF Locked, Block, SeeQuit, Take
  <2>2. \A v \in Workers : wpc'[v] \notin {"take", "block", "pop"}
    BY <1>1, <1>9, <2>1 DEF TypeOK, Block, SeeQuit, Take, Goto
  <2>3. \A s \in Tasks : state'[s] # "admitted"
    <3>1. CASE Block(w) \/ SeeQuit(w)
      BY <2>1, <3>1 DEF Block, SeeQuit
    <3>2. CASE Take(w)
      <4>1. PICK u \in Tasks : state' = [state EXCEPT ![u] = "taken"]
        BY <3>2, Taken
      <4>. QED
        BY <1>1, <2>1, <4>1 DEF TypeOK
    <3>. QED
      BY <1>9, <3>1, <3>2
  <2>. QED
    BY <2>2, <2>3 DEF Locked
<1>10. ASSUME QuitStore \/ SetOrder PROVE Locked'
  BY <1>1, <1>10 DEF Locked, QuitStore, SetOrder
<1>11. ASSUME QuitNotify PROVE Locked'
  BY <1>1, <1>11 DEF TypeOK, Locked, QuitNotify
<1>12. ASSUME Join PROVE Locked'
  <2>1. quit /\ \A w \in Workers : wpc[w] # "pop"
    BY <1>1, <1>12 DEF Quitting, Join
  <2>2. \A s \in Tasks : state'[s] # "admitted"
    BY <1>1, <1>12 DEF Quitting, Join
  <2>. QED
    BY <1>1, <1>12, <2>1, <2>2 DEF Locked, Join
<1>13. ASSUME UNCHANGED vars PROVE Locked'
  BY <1>1, <1>13 DEF Locked, vars
<1>. QED
  BY <1>2, <1>3, <1>4, <1>5, <1>6, <1>7, <1>8, <1>9, <1>10, <1>11, <1>12, <1>13
  DEF Next, Decide, Work, Destroy

LEMMA StartedStep == IInv /\ [Next]_vars => Started'
<1> SUFFICES ASSUME IInv, [Next]_vars PROVE Started'
  OBVIOUS
<1>1. TypeOK /\ Started /\ threads \in Nat
  BY Sizes DEF IInv, TypeOK
<1>2. ASSUME NEW t \in Tasks, Push(t) PROVE Started'
  <2>1. threads' = Grown /\ Grown \in {threads, threads + 1}
    BY <1>1, <1>2, GrownRange DEF Push
  <2>2. ASSUME NEW v \in Workers PROVE wpc'[v] = "none" <=> v > threads'
    <3>1. v \in Nat
      BY DEF Workers
    <3>. QED
      BY <1>1, <1>2, <2>1, <3>1, Pushed DEF Started
  <2>. QED
    BY <2>2 DEF Started
<1>3. ASSUME NEW w \in Workers, Work(w) \/ Spurious(w) PROVE Started'
  <2>1. threads' = threads /\ \A v \in Workers : wpc'[v] = "none" <=> wpc[v] = "none"
    BY <1>1, <1>3 DEF TypeOK, Work, LoopTest, Evaluate, Block, SeeQuit, SeeOpen, Take,
         StartTask,
         FinishTask, ThrowTask, Spurious, Goto
  <2>. QED
    BY <1>1, <2>1 DEF Started
<1>4. ASSUME QuitNotify PROVE Started'
  BY <1>1, <1>4 DEF TypeOK, Started, QuitNotify
<1>5. ASSUME UNCHANGED <<threads, wpc>> PROVE Started'
  BY <1>1, <1>5 DEF Started
<1>. QED
  BY <1>2, <1>3, <1>4, <1>5 DEF Next, Decide, Destroy, Enter, Admit, Refuse, GrowthFails,
       QuitStore,
       Join, SetOrder, vars

LEMMA HoldingStep == IInv /\ [Next]_vars => Holding'
<1> SUFFICES ASSUME IInv, [Next]_vars PROVE Holding'
  OBVIOUS
<1>1. TypeOK /\ Started /\ Holding
  BY DEF IInv
<1>2. ASSUME NEW t \in Tasks, Push(t) PROVE Holding'
  <2>1. \A v \in Workers : wpc'[v] \in {"taken", "run"} <=> wpc[v] \in {"taken", "run"}
    BY <1>1, <1>2, Pushed DEF TypeOK, Started, Workers
  <2>. QED
    BY <1>1, <1>2, <2>1 DEF Holding, Push
<1>3. ASSUME NEW w \in Workers, Take(w) PROVE Holding'
  <2>1. PICK u \in Tasks : fn' = [fn EXCEPT ![w] = u]
    BY <1>3, Taken
  <2>2. wpc' = [wpc EXCEPT ![w] = "taken"]
    BY <1>3 DEF Take, Goto
  <2>. QED
    BY <1>1, <2>1, <2>2, TaskAssumption DEF TypeOK, Holding
<1>4. ASSUME NEW w \in Workers, FinishTask(w) \/ ThrowTask(w) PROVE Holding'
  BY <1>1, <1>4 DEF TypeOK, Holding, FinishTask, ThrowTask, Goto
<1>5. ASSUME NEW w \in Workers,
             LoopTest(w) \/ Spurious(w) \/ Evaluate(w) \/ Block(w) \/ SeeQuit(w)
             \/ SeeOpen(w) \/ StartTask(w)
      PROVE  Holding'
  BY <1>1, <1>5 DEF TypeOK, Holding, LoopTest, Spurious, Evaluate, Block, SeeQuit, SeeOpen,
       StartTask, Goto
<1>6. ASSUME QuitNotify PROVE Holding'
  BY <1>1, <1>6 DEF TypeOK, Holding, QuitNotify
<1>7. ASSUME UNCHANGED <<wpc, fn>> PROVE Holding'
  BY <1>1, <1>7 DEF Holding
<1>. QED
  BY <1>2, <1>3, <1>4, <1>5, <1>6, <1>7 DEF Next, Decide, Work, Destroy, Enter, Admit,
       Refuse,
       GrowthFails, QuitStore, Join, SetOrder, vars

\* quit() takes the mutex before it returns, and so waits for a worker or a commit
\* that has seen the sign unset.
LEMMA QuittingStep == IInv /\ [Next]_vars => Quitting'
<1> SUFFICES ASSUME IInv, [Next]_vars PROVE Quitting'
  OBVIOUS
<1>. USE NobodyIsNoWorker
<1>1. Quitting /\ Locked /\ TypeOK
  BY DEF IInv
<1>2. CASE QuitStore
  BY <1>2 DEF QuitStore, Quitting
<1>3. CASE QuitNotify
  <2>1. /\ \A w \in Workers : wpc[w] # "pop"
        /\ \A t \in Tasks : state[t] # "admitted"
    BY <1>1, <1>3 DEF QuitNotify, Locked
  <2>. QED
    BY <1>1, <1>3, <2>1 DEF QuitNotify, Quitting, TypeOK
<1>4. CASE Join
  BY <1>1, <1>4 DEF Join, Quitting
<1>5. ASSUME NEW t \in Tasks, Enter(t) \/ Decide(t) PROVE Quitting'
  <2>1. /\ UNCHANGED <<dpc, quit>>
        /\ dpc \in {"join", "gone"} => ~Push(t) /\ ~Admit(t)
    BY <1>1, <1>5 DEF Quitting, Enter, Decide, Admit, Push, Refuse, GrowthFails
  <2>2. CASE Push(t) \/ Admit(t)
    BY <1>1, <2>1, <2>2 DEF Quitting
  <2>3. CASE Enter(t) \/ Refuse(t) \/ GrowthFails(t)
    BY <1>1, <2>1, <2>3 DEF Quitting, TypeOK, Enter, Refuse, GrowthFails
  <2>. QED
    BY <1>5, <2>2, <2>3 DEF Decide
<1>6. ASSUME NEW w \in Workers, Take(w) PROVE Quitting'
  BY <1>1, <1>6 DEF Quitting, Take
<1>7. ASSUME NEW w \in Workers, Work(w) \/ Spurious(w), ~Take(w) PROVE Quitting'
  <2>1. /\ UNCHANGED <<dpc, quit>>
        /\ \A v \in Workers : wpc'[v] = "pop" => wpc[v] = "pop" \/ ~quit
        /\ \A t \in Tasks : state'[t] = "admitted" => state[t] = "admitted"
    BY <1>1, <1>7 DEF TypeOK, Work, LoopTest, Evaluate, Block, SeeQuit, SeeOpen, StartTask,
         FinishTask, ThrowTask, Spurious, Goto
  <2>. QED
    BY <1>1, <2>1 DEF Quitting
<1>8. CASE SetOrder \/ UNCHANGED vars
  BY <1>1, <1>8 DEF Quitting, SetOrder, vars
<1>. QED
  BY <1>2, <1>3, <1>4, <1>5, <1>6, <1>7, <1>8 DEF Next, Destroy

LEMMA PlacedStep == IInv /\ [Next]_vars => Placed' /\ Single'
<1> SUFFICES ASSUME IInv, [Next]_vars PROVE Placed' /\ Single'
  OBVIOUS
<1>1. TypeOK /\ Placed /\ Single /\ Holding
  BY DEF IInv
<1>2. /\ Len(queue) \in Nat /\ DOMAIN queue = 1..Len(queue)
      /\ \A i \in 1..Len(queue) : queue[i] \in Tasks
      /\ \A w \in Workers : fn[w] # Nothing => fn[w] \in Tasks
  BY <1>1 DEF TypeOK
<1>3. ASSUME NEW t \in Tasks, Push(t) PROVE Placed' /\ Single'
  <2>1. /\ DOMAIN queue' = 1..(Len(queue) + 1) /\ queue'[Len(queue) + 1] = t
        /\ \A i \in 1..Len(queue) : queue'[i] = queue[i]
    BY <1>2, <1>3, Pushed
  <2>2. state[t] = "admitted" /\ fn' = fn /\ state' = [state EXCEPT ![t] = "pending"]
    BY <1>3 DEF Push
  <2>3. \A i \in 1..Len(queue) : queue[i] # t
    BY <1>1, <1>2, <2>2 DEF Placed
  <2>4. \A w \in Workers : fn[w] # t
    BY <1>1, <2>2, TaskAssumption DEF Placed
  <2>5. Placed'
    BY <1>1, <1>2, <2>1, <2>2, <2>3, <2>4 DEF Placed, TypeOK
  <2>6. Single'
    BY <1>1, <1>2, <2>1, <2>2, <2>3 DEF Single
  <2>. QED
    BY <2>5, <2>6
<1>4. ASSUME NEW t \in Tasks, Enter(t) \/ Admit(t) \/ Refuse(t) \/ GrowthFails(t)
      PROVE  Placed' /\ Single'
  <2>1. /\ queue' = queue /\ fn' = fn /\ state[t] \in {"new", "entered", "admitted"}
        /\ \E r \in {"refused", "entered", "admitted", "lost"} :
             state' = [state EXCEPT ![t] = r]
    BY <1>4 DEF Enter, Admit, Refuse, GrowthFails
  <2>2. Single'
    BY <1>1, <2>1 DEF Single
  <2>3. Placed'
    BY <1>1, <1>2, <2>1 DEF Placed, TypeOK
  <2>. QED
    BY <2>2, <2>3
<1>5. ASSUME NEW w \in Workers, Take(w) PROVE Placed' /\ Single'
  <2>1. PICK k \in 1..Len(queue), d \in {0, 1} :
             /\ queue' \in Seq(Tasks) /\ Len(queue') = Len(queue) - 1
             /\ \A i \in 1..Len(queue') : queue'[i] = queue[i + d]
             /\ k = IF d = 1 THEN 1 ELSE Len(queue)
             /\ fn' = [fn EXCEPT ![w] = queue[k]]
             /\ queue[k] \in Tasks
             /\ state' = [state EXCEPT ![queue[k]] = "taken"]
    BY <1>5, Taken
  <2>. DEFINE u == queue[k]
  <2>2. DOMAIN queue' = 1..(Len(queue) - 1)
    BY <2>1
  <2>3. /\ \A i \in DOMAIN queue' : i + d \in 1..Len(queue) /\ i + d # k
        /\ \A j \in 1..Len(queue) : j # k => j - d \in DOMAIN queue' /\ (j - d) + d = j
    <3>. DEFINE n == Len(queue)
    <3>1. n \in Nat /\ k \in 1..n
      BY <1>2
    <3>2. k = IF d = 1 THEN 1 ELSE n
      BY <2>1
    <3>. HIDE DEF n
    <3>3. CASE d = 1
      BY <2>2, <3>1, <3>2, <3>3 DEF n
    <3>4. CASE d = 0
      BY <2>2, <3>1, <3>2, <3>4 DEF n
    <3>. QED
      BY <3>3, <3>4
  <2>4. /\ \A i \in DOMAIN queue' : queue'[i] = queue[i + d]
        /\ \A j \in 1..Len(queue) : j # k => queue'[j - d] = queue[j]
    <3>1. \A i \in DOMAIN queue' : queue'[i] = queue[i + d]
      BY <2>1
    <3>. QED
      BY <2>3, <3>1
  <2>5. \A j \in 1..Len(queue) : j # k => queue[j] # u
    BY <1>1, <1>2, <2>1 DEF Single
  <2>6. fn[w] = Nothing
    BY <1>1, <1>5 DEF Holding, Take
  <2>7. state[u] = "pending" /\ \A v \in Workers : fn[v] # u
    BY <1>1, <1>2, <2>1, TaskAssumption DEF Placed
  <2>. HIDE DEF u
  <2>8. /\ u \in Tasks /\ u # Nothing /\ fn' = [fn EXCEPT ![w] = u]
        /\ state' = [state EXCEPT ![u] = "taken"]
    BY <2>1, TaskAssumption DEF u
  <2>9. Single'
    <3>1. \A i, j \in DOMAIN queue' : queue'[i] = queue'[j] => i = j
      <4>1. SUFFICES ASSUME NEW i \in DOMAIN queue', NEW j \in DOMAIN queue', queue'[i] = queue'[j]
                     PROVE  i = j
        OBVIOUS
      <4>2. i + d = j + d
        BY <1>1, <1>2, <2>3, <2>4, <4>1 DEF Single
      <4>. QED
        BY <2>2, <4>2
    <3>2. \A x, v \in Workers : fn'[x] # Nothing /\ fn'[x] = fn'[v] => x = v
      BY <1>1, <2>7, <2>8 DEF Single, TypeOK
    <3>. QED
      BY <3>1, <3>2 DEF Single
  <2>10. Placed'
    <3>1. \A i \in DOMAIN queue' : state'[queue'[i]] = "pending"
      BY <1>1, <1>2, <2>3, <2>4, <2>5, <2>8 DEF Placed, TypeOK
    <3>2. \A t \in Tasks : state'[t] = "pending" => \E i \in DOMAIN queue' : queue'[i] = t
      <4>1. SUFFICES ASSUME NEW t \in Tasks, state'[t] = "pending"
                     PROVE  \E i \in DOMAIN queue' : queue'[i] = t
        OBVIOUS
      <4>2. t # u /\ state[t] = "pending"
        BY <1>1, <2>8, <4>1 DEF TypeOK
      <4>3. PICK j \in 1..Len(queue) : queue[j] = t
        BY <1>1, <1>2, <4>2 DEF Placed
      <4>4. j # k
        BY <4>2, <4>3 DEF u
      <4>. QED
        BY <2>3, <2>4, <4>3, <4>4
    <3>3. \A v \in Workers : fn'[v] # Nothing => state'[fn'[v]] = "taken"
      BY <1>1, <1>2, <2>8 DEF Placed, TypeOK
    <3>4. \A t \in Tasks : state'[t] = "taken" => \E v \in Workers : fn'[v] = t
      <4>1. SUFFICES ASSUME NEW t \in Tasks, state'[t] = "taken", t # u
                     PROVE  \E v \in Workers : fn'[v] = t
        BY <1>1, <2>8 DEF TypeOK
      <4>2. PICK v \in Workers : fn[v] = t
        BY <1>1, <2>8, <4>1 DEF Placed, TypeOK
      <4>3. v # w
        BY <2>6, <4>2, TaskAssumption
      <4>. QED
        BY <1>1, <2>8, <4>2, <4>3 DEF TypeOK
    <3>. QED
      BY <3>1, <3>2, <3>3, <3>4 DEF Placed
  <2>. QED
    BY <2>9, <2>10
<1>6. ASSUME NEW w \in Workers, FinishTask(w) \/ ThrowTask(w) PROVE Placed' /\ Single'
  <2>1. PICK u \in Tasks, r \in {"done", "threw"} :
          /\ u = fn[w] /\ queue' = queue
          /\ fn' = [fn EXCEPT ![w] = Nothing] /\ state' = [state EXCEPT ![u] = r]
    BY <1>1, <1>2, <1>6 DEF Holding, FinishTask, ThrowTask
  <2>2. state[u] = "taken" /\ \A v \in Workers : v # w => fn[v] # u
    BY <1>1, <2>1, TaskAssumption DEF Placed, Single
  <2>3. \A i \in DOMAIN queue : queue[i] # u
    BY <1>1, <2>2 DEF Placed
  <2>4. Single'
    BY <1>1, <2>1 DEF Single, TypeOK
  <2>5. Placed'
    BY <1>1, <1>2, <2>1, <2>2, <2>3, TaskAssumption DEF Placed, TypeOK
  <2>. QED
    BY <2>4, <2>5
<1>7. ASSUME Join PROVE Placed' /\ Single'
  <2>1. /\ queue' = <<>> /\ fn' = fn
        /\ state' = [t \in Tasks |-> IF state[t] = "pending" THEN "dropped" ELSE state[t]]
    BY <1>7 DEF Join
  <2>2. \A v \in Workers : fn[v] # Nothing => fn[v] \in Tasks /\ state'[fn[v]] = "taken"
    BY <1>1, <1>2, <2>1 DEF Placed
  <2>. QED
    BY <1>1, <2>1, <2>2 DEF Placed, Single
<1>8. ASSUME UNCHANGED <<queue, fn, state>> PROVE Placed' /\ Single'
  BY <1>1, <1>8 DEF Placed, Single
<1>. QED
  BY <1>3, <1>4, <1>5, <1>6, <1>7, <1>8 DEF Next, Decide, Work, Destroy, LoopTest, Evaluate,
       Block, SeeQuit, SeeOpen, StartTask, Spurious, QuitStore, QuitNotify, SetOrder, vars

LEMMA AwakeStep == IInv /\ [Next]_vars => SomebodyAwake'
<1> SUFFICES ASSUME IInv, [Next]_vars PROVE SomebodyAwake'
  OBVIOUS
<1>1. TypeOK /\ Locked /\ Started /\ Quitting /\ SomebodyAwake
  BY DEF IInv
<1>2. threads \in Nat /\ 1..threads \subseteq Workers
  BY <1>1, Sizes DEF TypeOK
<1>3. ASSUME NEW t \in Tasks, Push(t), threads' > 0
      PROVE  \E w \in 1..threads' : wpc'[w] # "asleep"
  <2>1. /\ threads' = Grown /\ Grown \in {threads, threads + 1}
        /\ Grown = threads + 1 => threads + 1 \in Workers
    BY <1>1, <1>3, GrownRange DEF Push
  <2>2. CASE Asleep = {}
    <3>1. 1 \in Workers /\ 1 \in 1..threads'
      BY <1>2, <1>3, <2>1
    <3>2. wpc[1] # "asleep"
      BY <2>2, <3>1 DEF Asleep
    <3>3. wpc'[1] # "asleep"
      BY <1>3, <3>1, <3>2, Pushed
    <3>. QED
      BY <3>1, <3>3
  <2>3. CASE Asleep # {}
    <3>1. PICK w \in Asleep : wpc' = Woken(w)
      BY <1>3, <2>3 DEF Push
    <3>2. w \in Workers /\ wpc'[w] = "lock"
      BY <3>1 DEF Asleep, Woken
    <3>3. w \in Nat /\ w >= 1 /\ ~(w > threads)
      BY <1>1, <3>1 DEF Asleep, Started, Workers
    <3>. QED
      BY <1>2, <2>1, <3>2, <3>3
  <2>. QED
    BY <2>2, <2>3
<1>4. ASSUME NEW w \in Workers, Block(w) PROVE SomebodyAwake'
  BY <1>1, <1>4 DEF Locked, Block, SomebodyAwake
<1>5. ASSUME NEW w \in Workers, Take(w) PROVE SomebodyAwake'
  <2>1. threads' = threads /\ wpc' = [wpc EXCEPT ![w] = "taken"] /\ wpc[w] = "pop"
    BY <1>5 DEF Take, Goto
  <2>2. w \in 1..threads
    BY <1>1, <1>2, <2>1 DEF Started, Workers
  <2>. QED
    BY <1>1, <2>1, <2>2 DEF SomebodyAwake, TypeOK
<1>6. ASSUME NEW w \in Workers,
             LoopTest(w) \/ Evaluate(w) \/ SeeQuit(w) \/ SeeOpen(w) \/ StartTask(w)
             \/ FinishTask(w)
             \/ ThrowTask(w) \/ Spurious(w)
      PROVE  SomebodyAwake'
  <2>1. /\ UNCHANGED <<threads, queue, quit>>
        /\ \A v \in Workers : wpc[v] # "asleep" => wpc'[v] # "asleep"
    BY <1>1, <1>6 DEF TypeOK, LoopTest, Evaluate, SeeQuit, SeeOpen, StartTask, FinishTask,
         ThrowTask,
         Spurious, Goto
  <2>. QED
    BY <1>1, <1>2, <2>1 DEF SomebodyAwake
<1>7. ASSUME QuitStore \/ QuitNotify \/ Join PROVE SomebodyAwake'
  <2>1. quit'
    BY <1>1, <1>7 DEF QuitStore, QuitNotify, Join, Quitting
  <2>. QED
    BY <2>1 DEF SomebodyAwake
<1>8. ASSUME UNCHANGED <<threads, queue, quit, wpc>> PROVE SomebodyAwake'
  BY <1>1, <1>8 DEF SomebodyAwake
<1>9. ASSUME NEW t \in Tasks, Push(t) PROVE SomebodyAwake'
  BY <1>3, <1>9 DEF SomebodyAwake
<1>. QED
  BY <1>4, <1>5, <1>6, <1>7, <1>8, <1>9 DEF Next, Decide, Work, Destroy, Enter, Admit,
       Refuse,
       GrowthFails, SetOrder, vars

-----------------------------------------------------------------------------
(* The theorems.                                                            *)

\* The inductive invariant holds in every state that the pool can reach.
THEOREM Invariance == Spec => []IInv
<1>1. IInv /\ [Next]_vars => IInv'
  BY CountStep, TypeStep, LockedStep, StartedStep, HoldingStep, QuittingStep, PlacedStep,
     AwakeStep DEF IInv
<1>. QED
  BY InitIInv, <1>1, PTL DEF Spec

\* The counter of busy workers never falls below zero, the number of workers stays
\* within its limit, and a worker has a task of the pool or none (threadpool.h).
THEOREM TypeInvariant == Spec => []TypeOK
<1>1. IInv => TypeOK
  BY DEF IInv
<1>. QED
  BY Invariance, <1>1, PTL

\* A task is in the queue once, or with one worker, or nowhere (commit, the
\* worker's loop).
THEOREM OnePlace == Spec => []InOnePlace
<1>1. ASSUME IInv, NEW t \in Tasks
      PROVE  Cardinality({i \in DOMAIN queue : queue[i] = t})
             + Cardinality({w \in Workers : fn[w] = t})
               = IF state[t] \in {"pending", "taken"} THEN 1 ELSE 0
  <2>. DEFINE places == {i \in DOMAIN queue : queue[i] = t}
              takers == {w \in Workers : fn[w] = t}
  <2>1. Placed /\ Single /\ t # Nothing
    BY <1>1, TaskAssumption DEF IInv
  <2>2. \A x : Cardinality({x}) = 1
    BY FS_Singleton
  <2>3. Cardinality({}) = 0
    BY FS_EmptySet
  <2>4. CASE state[t] = "pending"
    <3>1. PICK i \in DOMAIN queue : queue[i] = t
      BY <2>1, <2>4 DEF Placed
    <3>2. places = {i} /\ takers = {}
      BY <2>1, <2>4, <3>1 DEF Placed, Single
    <3>3. Cardinality(places) = 1 /\ Cardinality(takers) = 0
      BY <2>2, <2>3, <3>2, Zenon
    <3>. QED
      BY <2>4, <3>3
  <2>5. CASE state[t] = "taken"
    <3>1. PICK w \in Workers : fn[w] = t
      BY <2>1, <2>5 DEF Placed
    <3>2. places = {} /\ takers = {w}
      BY <2>1, <2>5, <3>1 DEF Placed, Single
    <3>3. Cardinality(places) = 0 /\ Cardinality(takers) = 1
      BY <2>2, <2>3, <3>2, Zenon
    <3>. QED
      BY <2>5, <3>3
  <2>6. CASE state[t] \notin {"pending", "taken"}
    <3>1. places = {} /\ takers = {}
      BY <2>1, <2>6 DEF Placed
    <3>. QED
      BY <2>3, <2>6, <3>1
  <2>. QED
    BY <2>4, <2>5, <2>6
<1>2. IInv => InOnePlace
  BY <1>1 DEF InOnePlace
<1>. QED
  BY Invariance, <1>2, PTL

\* No wake-up is lost between a worker's look at the queue and its sleep.
THEOREM NoLostWakeup == Spec => []SomebodyAwake
<1>1. IInv => SomebodyAwake
  BY DEF IInv
<1>. QED
  BY Invariance, <1>1, PTL

\* Nobody adds a worker while the destructor walks over m_threads (uninit).
THEOREM JoinedIsFixed == Spec => FixedWhileJoined
<1>1. IInv /\ [Next]_vars => [(dpc \in {"join", "gone"}) => UNCHANGED threads]_vars
  BY DEF IInv, Quitting, Next, Decide, Work, Destroy, Enter, Admit, Push, Refuse,
       GrowthFails, LoopTest,
       Evaluate, Block, SeeQuit, SeeOpen, Take, StartTask, FinishTask, ThrowTask, Spurious,
       QuitStore,
       QuitNotify, Join, SetOrder
<1>. QED
  BY Invariance, <1>1, PTL DEF Spec, FixedWhileJoined

-----------------------------------------------------------------------------
(* The refinement: ThreadPool implements TaskPool.                          *)

Most == IF PoolSize > MaxGrowth THEN PoolSize ELSE MaxGrowth

\* What waits in TaskPool is what is pending.
LEMMA QueuedIsPending == IInv => Promise!Queued = In({"pending"})
  BY DEF IInv, TypeOK, Placed, Promise!Queued, In

\* TaskPool counts as this module does.
LEMMA SameCount == \A S : Promise!Cardinality(S) = Cardinality(S)
  BY DEF Promise!Cardinality, Cardinality

\* What TaskPool has not heard of is new, or on its way through commit.
LEMMA FreshTasks ==
    ASSUME IInv, NEW t \in Tasks, state[t] \in {"new", "entered", "admitted"}
    PROVE  t \in Promise!Fresh
  BY QueuedIsPending DEF In, Promise!Fresh

\* One task moves on; the sets that it neither leaves nor enters stay.
LEMMA OneMoves ==
    ASSUME IInv, NEW t \in Tasks, NEW r, state' = [state EXCEPT ![t] = r]
    PROVE  \A S : state[t] \notin S /\ r \notin S => In(S)' = In(S)
  BY DEF IInv, TypeOK, In

\* A worker about to take a task has none, and no task has two workers: there are
\* fewer tasks running than workers.
LEMMA RoomForOne ==
    ASSUME IInv, NEW w \in Workers, wpc[w] = "pop"
    PROVE  Cardinality(In({"taken"})) < Most
<1>. DEFINE T == In({"taken"})
            others == Workers \ {w}
            worker == [t \in T |-> CHOOSE v \in Workers : fn[v] = t]
<1>1. Cardinality(Workers) = Most /\ IsFiniteSet(Workers) /\ Most \in Nat
  <2>1. PICK n \in Nat : Workers = 1..n /\ n = Most
    BY Sizes DEF Most
  <2>2. IsFiniteSet(1..n) /\ Cardinality(1..n) = n
    BY <2>1, FS_Interval
  <2>. QED
    BY <2>1, <2>2
<1>2. IsFiniteSet(others) /\ Cardinality(others) = Most - 1
  BY <1>1, FS_RemoveElement
<1>3. fn[w] = Nothing
  BY DEF IInv, Holding, TypeOK
<1>4. ASSUME NEW t \in T PROVE worker[t] \in others /\ fn[worker[t]] = t
  <2>1. \E v \in Workers : fn[v] = t
    BY <1>4 DEF In, IInv, Placed
  <2>2. worker[t] \in Workers /\ fn[worker[t]] = t
    BY <2>1
  <2>. QED
    BY <1>3, <1>4, <2>2, TaskAssumption DEF In
<1>. HIDE DEF worker, T, others
<1>5. worker \in [T -> others]
  BY <1>4 DEF worker
<1>6. \A s, t \in T : worker[s] = worker[t] => s = t
  BY <1>4
<1>7. worker \in Injection(T, others)
  BY <1>5, <1>6 DEF Injection, IsInjective
<1>8. IsFiniteSet(T) /\ Cardinality(T) <= Cardinality(others)
  BY <1>2, <1>7, FS_Injection
<1>9. Cardinality(T) \in Nat
  BY <1>8, FS_CardinalityType
<1>10. Cardinality(T) < Most
  BY <1>1, <1>2, <1>8, <1>9
<1>. QED
  BY <1>10 DEF T

\* The initial states are those of TaskPool.
LEMMA PromiseInit == Init => Promise!Init
<1> SUFFICES ASSUME Init PROVE Promise!Init
  OBVIOUS
<1>1. \A t \in Tasks : state[t] = "new"
  BY DEF Init
<1>2. In({"taken"}) = {} /\ In({"done", "threw"}) = {}
      /\ In({"refused", "lost", "dropped"}) = {}
  BY <1>1 DEF In
<1>. QED
  BY <1>2 DEF Init, Promise!Init

\* Nothing runs once every worker has ended.
LEMMA AllEnded ==
    ASSUME IInv, \A w \in 1..threads : wpc[w] = "ended"
    PROVE  In({"taken"}) = {}
<1> SUFFICES ASSUME NEW t \in Tasks, state[t] = "taken" PROVE FALSE
  BY DEF In
<1>1. PICK w \in Workers : fn[w] = t
  BY DEF IInv, Placed
<1>2. wpc[w] \in {"taken", "run"}
  BY <1>1, TaskAssumption DEF IInv, Holding
<1>3. ~(w > threads)
  BY <1>2 DEF IInv, Started
<1>4. threads \in Nat /\ w \in Nat /\ w >= 1
  BY Sizes DEF IInv, TypeOK, Workers
<1>. QED
  BY <1>2, <1>3, <1>4

\* Every step is a step of TaskPool or changes none of its variables.
LEMMA PromiseStep == IInv /\ [Next]_vars => [Promise!Next]_(Promise!vars)
<1> SUFFICES ASSUME IInv, [Next]_vars
             PROVE  Promise!Next \/ UNCHANGED Promise!vars
  OBVIOUS
<1>1. ASSUME UNCHANGED state, NEW S PROVE In(S)' = In(S)
  BY <1>1 DEF In
<1>2. ASSUME UNCHANGED <<queue, state, fifo, dpc>> PROVE UNCHANGED Promise!vars
  BY <1>1, <1>2 DEF Promise!vars
<1>3. ASSUME NEW t \in Tasks, state[t] \in {"new", "entered", "admitted"},
             NEW r \in {"refused", "lost"}, state' = [state EXCEPT ![t] = r],
             UNCHANGED <<queue, fifo, dpc>>
      PROVE  Promise!Decline(t)
  <2>1. In({"refused", "lost", "dropped"})' = In({"refused", "lost", "dropped"}) \cup {t}
    BY <1>3 DEF IInv, TypeOK, In
  <2>2. \A S : state[t] \notin S /\ r \notin S => In(S)' = In(S)
    BY <1>3, OneMoves
  <2>3. In({"taken"})' = In({"taken"}) /\ In({"done", "threw"})' = In({"done", "threw"})
    BY <1>3, <2>2
  <2>. QED
    BY <1>3, <2>1, <2>3, FreshTasks DEF Promise!Decline
<1>4. ASSUME NEW t \in Tasks, Enter(t) PROVE Promise!Next \/ UNCHANGED Promise!vars
  <2>1. CASE quit
    BY <1>3, <1>4, <2>1 DEF Enter, Promise!Next
  <2>2. CASE ~quit
    <3>1. state' = [state EXCEPT ![t] = "entered"] /\ state[t] = "new"
      BY <1>4, <2>2 DEF Enter
    <3>2. \A S : "new" \notin S /\ "entered" \notin S => In(S)' = In(S)
      BY <3>1, OneMoves
    <3>3. In({"taken"})' = In({"taken"}) /\ In({"done", "threw"})' = In({"done", "threw"})
          /\ In({"refused", "lost", "dropped"})' = In({"refused", "lost", "dropped"})
      BY <3>2
    <3>. QED
      BY <1>4, <3>3 DEF Enter, Promise!vars
  <2>. QED
    BY <2>1, <2>2
<1>5. ASSUME NEW t \in Tasks, Push(t) PROVE Promise!TakeOn(t)
  <2>1. /\ state[t] = "admitted" /\ state' = [state EXCEPT ![t] = "pending"]
        /\ queue' = Append(queue, t) /\ UNCHANGED <<fifo, dpc>>
    BY <1>5 DEF Push
  <2>2. dpc \notin {"join", "gone"}
    BY <2>1 DEF IInv, Quitting
  <2>3. \A S : "admitted" \notin S /\ "pending" \notin S => In(S)' = In(S)
    BY <2>1, OneMoves
  <2>4. In({"taken"})' = In({"taken"}) /\ In({"done", "threw"})' = In({"done", "threw"})
        /\ In({"refused", "lost", "dropped"})' = In({"refused", "lost", "dropped"})
    BY <2>3
  <2>. QED
    BY <2>1, <2>2, <2>4, FreshTasks DEF Promise!TakeOn
<1>6. ASSUME NEW t \in Tasks, Refuse(t) \/ GrowthFails(t) PROVE Promise!Decline(t)
  BY <1>3, <1>6 DEF Refuse, GrowthFails
<1>7. ASSUME NEW t \in Tasks, Admit(t) PROVE UNCHANGED Promise!vars
  <2>1. state' = [state EXCEPT ![t] = "admitted"] /\ state[t] = "entered"
    BY <1>7 DEF Admit
  <2>2. \A S : "entered" \notin S /\ "admitted" \notin S => In(S)' = In(S)
    BY <2>1, OneMoves
  <2>3. In({"taken"})' = In({"taken"}) /\ In({"done", "threw"})' = In({"done", "threw"})
        /\ In({"refused", "lost", "dropped"})' = In({"refused", "lost", "dropped"})
    BY <2>2
  <2>. QED
    BY <1>7, <2>3 DEF Admit, Promise!vars
<1>8. ASSUME NEW w \in Workers, Take(w) PROVE Promise!Begin
  <2>. DEFINE u == IF fifo THEN queue[1] ELSE queue[Len(queue)]
  <2>1. /\ wpc[w] = "pop" /\ UNCHANGED <<fifo, dpc>>
        /\ IF fifo THEN queue' = Tail(queue)
                   ELSE queue' = SubSeq(queue, 1, Len(queue) - 1)
        /\ state' = [state EXCEPT ![u] = "taken"]
    BY <1>8 DEF Take, IInv, TypeOK
  <2>2. queue # <<>> /\ queue \in Seq(Tasks)
    BY <2>1 DEF IInv, Locked, TypeOK
  <2>3. u \in Tasks /\ state[u] = "pending"
    BY <2>2 DEF IInv, Placed
  <2>4. Cardinality(In({"taken"})) < Most
    BY <2>1, RoomForOne
  <2>. HIDE DEF u
  <2>5. In({"taken"})' = In({"taken"}) \cup {u}
    BY <2>1, <2>3 DEF IInv, TypeOK, In
  <2>6. \A S : "pending" \notin S /\ "taken" \notin S => In(S)' = In(S)
    BY <2>1, <2>3, OneMoves
  <2>7. In({"done", "threw"})' = In({"done", "threw"})
        /\ In({"refused", "lost", "dropped"})' = In({"refused", "lost", "dropped"})
    BY <2>6
  <2>8. dpc \notin {"join", "gone"}
    BY <2>1 DEF IInv, Quitting
  <2>9. CASE fifo
    BY <2>1, <2>8, <2>2, <2>4, <2>5, <2>7, <2>9, SameCount DEF Promise!Begin, Most, u
  <2>10. CASE ~fifo
    BY <2>1, <2>8, <2>2, <2>4, <2>5, <2>7, <2>10, SameCount DEF Promise!Begin, Most, u
  <2>. QED
    BY <2>9, <2>10
<1>9. ASSUME NEW w \in Workers, FinishTask(w) \/ ThrowTask(w) PROVE Promise!End(fn[w])
  <2>1. PICK r \in {"done", "threw"} : state' = [state EXCEPT ![fn[w]] = r]
    BY <1>9 DEF FinishTask, ThrowTask
  <2>2. fn[w] \in Tasks /\ state[fn[w]] = "taken"
    BY <1>9 DEF FinishTask, ThrowTask, IInv, TypeOK, Holding, Placed
  <2>3. /\ In({"taken"})' = In({"taken"}) \ {fn[w]}
        /\ In({"done", "threw"})' = In({"done", "threw"}) \cup {fn[w]}
    BY <2>1, <2>2 DEF IInv, TypeOK, In
  <2>4. \A S : "taken" \notin S /\ "done" \notin S /\ "threw" \notin S => In(S)' = In(S)
    BY <2>1, <2>2, OneMoves
  <2>5. In({"refused", "lost", "dropped"})' = In({"refused", "lost", "dropped"})
    BY <2>4
  <2>6. UNCHANGED <<queue, fifo, dpc>>
    BY <1>9 DEF FinishTask, ThrowTask
  <2>7. fn[w] \in In({"taken"})
    BY <2>2 DEF In
  <2>. QED
    BY <2>3, <2>5, <2>6, <2>7 DEF Promise!End
<1>10. ASSUME SetOrder PROVE Promise!Reorder
  BY <1>1, <1>10 DEF SetOrder, Promise!Reorder
<1>11. ASSUME QuitStore PROVE UNCHANGED Promise!vars
  <2>1. UNCHANGED <<queue, state, fifo>> /\ (dpc \in {"join", "gone"}) = FALSE
        /\ (dpc' \in {"join", "gone"}) = FALSE /\ (dpc = "gone") = FALSE
        /\ (dpc' = "gone") = FALSE
    BY <1>11 DEF QuitStore
  <2>. QED
    BY <1>1, <2>1 DEF Promise!vars
<1>12. ASSUME Join PROVE Promise!Destroy
  <2>1. /\ dpc = "join" /\ dpc' = "gone" /\ queue' = <<>> /\ UNCHANGED fifo
        /\ state' = [t \in Tasks |-> IF state[t] = "pending" THEN "dropped" ELSE state[t]]
        /\ \A w \in 1..threads : wpc[w] = "ended"
    BY <1>12 DEF Join
  <2>2. (dpc \in {"join", "gone"}) = TRUE /\ (dpc' \in {"join", "gone"}) = TRUE
    BY <2>1
  <2>3. In({"taken"}) = {}
    BY <2>1, AllEnded
  <2>4. In({"taken"})' = In({"taken"}) /\ In({"done", "threw"})' = In({"done", "threw"})
    BY <2>1 DEF In
  <2>5. In({"refused", "lost", "dropped"})'
          = In({"refused", "lost", "dropped"}) \cup In({"pending"})
    BY <2>1 DEF In
  <2>. QED
    BY <2>1, <2>2, <2>3, <2>4, <2>5, QueuedIsPending DEF Promise!Destroy
<1>13. ASSUME NEW w \in Workers,
              LoopTest(w) \/ Evaluate(w) \/ Block(w) \/ SeeQuit(w) \/ SeeOpen(w)
              \/ StartTask(w) \/ Spurious(w)
       PROVE  UNCHANGED Promise!vars
  BY <1>2, <1>13 DEF LoopTest, Evaluate, Block, SeeQuit, SeeOpen, StartTask, Spurious
<1>14. ASSUME QuitNotify PROVE Promise!Close
  <2>1. UNCHANGED <<queue, state, fifo>> /\ (dpc' \in {"join", "gone"}) = TRUE
        /\ (dpc = "gone") = FALSE /\ (dpc' = "gone") = FALSE
    BY <1>14 DEF QuitNotify
  <2>. QED
    BY <1>1, <2>1 DEF Promise!Close
<1>15. ASSUME UNCHANGED vars PROVE UNCHANGED Promise!vars
  BY <1>2, <1>15 DEF vars
<1>16. ASSUME NEW w \in Workers, FinishTask(w) \/ ThrowTask(w) PROVE fn[w] \in Tasks
  BY <1>16 DEF FinishTask, ThrowTask, IInv, TypeOK, Holding
<1>. QED
  BY <1>4, <1>5, <1>6, <1>8, <1>9, <1>10, <1>11, <1>12, <1>13, <1>14, <1>15, <1>16, <1>7
  DEF Next, Decide, Work, Destroy, Promise!Next

\* The pool implements TaskPool: whatever the workers, the committers and the
\* destructor do, a task taken on is begun once, in the order set, by no more
\* workers than the limit, none is begun or taken on once quit() has returned, and
\* none runs when the destructor returns.
THEOREM Refinement == Spec => KeepsPromise
<1>. QED
  BY PromiseInit, PromiseStep, Invariance, PTL DEF Spec, KeepsPromise, Promise!Spec

=============================================================================

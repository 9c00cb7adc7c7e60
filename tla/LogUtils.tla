------------------------------ MODULE LogUtils ------------------------------
(***************************************************************************)
(* LogUtils of toolbox/logutils.h: threads that log put records on a queue *)
(* that a thread of the instance writes to its file; LogUtils::init, which *)
(* recvFile and sendFile call each time, replaces the instance while other *)
(* threads may be logging.                                                 *)
(*                                                                         *)
(* Everything done under m_mutex is one step, but for the last write and   *)
(* the closing of the file, which the writer does with the mutex held.     *)
(*                                                                         *)
(* A definition placed right before another with the same parameters, and  *)
(* named for what it leaves out, is a mutant listed in PROJECT.json.       *)
(***************************************************************************)
EXTENDS Integers, Sequences, FiniteSets, SequencesExt

CONSTANTS
    Loggers,      \* threads that log
    MaxRecords,   \* bound: records of each logger
    MaxInstances  \* bound: instances made

ASSUME BoundAssumption == MaxRecords \in Nat /\ MaxInstances \in Nat \ {0}

Instances == 1..MaxInstances
Null == 0
End == <<"the end", 0>>
Records == (Loggers \X (1..MaxRecords)) \cup {End}

VARIABLES
    instance,  \* g_instance
    made,      \* instances made so far
    freed,     \* those deleted
    logs,      \* m_logs of each instance
    quit,      \* m_quit_thread
    open,      \* m_log_stream.is_open()
    failed,    \* m_log_stream could not be opened, or written to
    batch,     \* str_logs of its writer
    file,      \* what it has written
    wpc,       \* where its writer is
    lpc, ptr,  \* where each logger is, and the instance it was given
    begun,     \* records each logger has begun
    ipc, old,  \* where init is, and the instance it joined last
    pushed,    \* history: the records each instance was given, in order
    dangled    \* history: a logger touched an instance after its deletion

instVars == <<instance, made, freed>>
queueVars == <<logs, quit, open, failed, batch, file, wpc, pushed>>
logVars == <<lpc, ptr, begun, dangled>>
initVars == <<ipc, old>>
vars == <<instVars, queueVars, logVars, initVars>>

\* The first init has returned; nothing logs before.
Init ==
    /\ instance = 1 /\ made = 1 /\ freed = {}
    /\ logs = [i \in Instances |-> <<>>]
    /\ quit = [i \in Instances |-> FALSE]
    /\ \E opened \in BOOLEAN : open = [i \in Instances |-> i = 1 /\ opened]
    /\ failed = [i \in Instances |-> i = 1 /\ ~open[1]]
    /\ batch = [i \in Instances |-> <<>>]
    /\ file = [i \in Instances |-> <<>>]
    /\ wpc = [i \in Instances |-> IF i = 1 THEN "ready" ELSE "none"]
    /\ lpc = [t \in Loggers |-> "idle"]
    /\ ptr = [t \in Loggers |-> Null]
    /\ begun = [t \in Loggers |-> 0]
    /\ ipc = "idle" /\ old = Null
    /\ pushed = [i \in Instances |-> <<>>]
    /\ dangled = FALSE

\* A new instance opens its file, or fails to, which nobody looks at, and starts its
\* writer.
Construct ==
    /\ made < MaxInstances
    /\ made' = made + 1
    /\ instance' = made'
    /\ open' \in {[open EXCEPT ![made'] = opened] : opened \in BOOLEAN}
    /\ failed' = [failed EXCEPT ![made'] = ~open'[made']]
    /\ wpc' = [wpc EXCEPT ![made'] = "ready"]
    /\ UNCHANGED <<freed, logs, quit, batch, file, pushed>>

\* A waiting writer is notified.
Notify(i) == wpc' = [wpc EXCEPT ![i] = IF @ = "asleep" THEN "ready" ELSE @]

\* The writer keeps m_mutex over its last write.
Locked(i) == wpc[i] = "last"

-----------------------------------------------------------------------------
(* A thread that logs.                                                      *)

Current(t) == <<t, begun[t]>>

\* get_instance looks at g_instance without a lock ...
GetInstance(t) ==
    /\ lpc[t] = "idle" /\ begun[t] < MaxRecords
    /\ begun' = [begun EXCEPT ![t] = @ + 1]
    /\ lpc' = [lpc EXCEPT ![t] = IF instance = Null THEN "make" ELSE "given"]
    /\ ptr' = [ptr EXCEPT ![t] = instance]
    /\ UNCHANGED <<instVars, queueVars, initVars, dangled>>

\* ... and makes an instance when it found none.
MakeDefault(t) ==
    /\ lpc[t] = "make"
    /\ Construct
    /\ lpc' = [lpc EXCEPT ![t] = "given"]
    /\ ptr' = [ptr EXCEPT ![t] = instance']
    /\ UNCHANGED <<initVars, begun, dangled>>

\* log does nothing when the file is not open.
CheckOpen(t) ==
    /\ lpc[t] = "given" /\ ptr[t] \notin freed
    /\ lpc' = [lpc EXCEPT ![t] = IF open[ptr[t]] THEN "push" ELSE "idle"]
    /\ UNCHANGED <<instVars, queueVars, initVars, ptr, begun, dangled>>

PushQuietly(t) ==
    /\ lpc[t] = "push" /\ ptr[t] \notin freed /\ ~Locked(ptr[t])
    /\ logs' = [logs EXCEPT ![ptr[t]] = Append(@, Current(t))]
    /\ pushed' = [pushed EXCEPT ![ptr[t]] = Append(@, Current(t))]
    /\ lpc' = [lpc EXCEPT ![t] = "idle"]
    /\ UNCHANGED <<instVars, quit, open, failed, batch, file, wpc,
                   initVars, ptr, begun, dangled>>

\* The record is put on the queue and the writer notified.
Push(t) ==
    /\ lpc[t] = "push" /\ ptr[t] \notin freed /\ ~Locked(ptr[t])
    /\ logs' = [logs EXCEPT ![ptr[t]] = Append(@, Current(t))]
    /\ pushed' = [pushed EXCEPT ![ptr[t]] = Append(@, Current(t))]
    /\ Notify(ptr[t])
    /\ lpc' = [lpc EXCEPT ![t] = "idle"]
    /\ UNCHANGED <<instVars, quit, open, failed, batch, file,
                   initVars, ptr, begun, dangled>>

\* The instance is gone: what follows is undefined, and taken to be nothing.
Dangle(t) ==
    /\ lpc[t] \in {"given", "push"} /\ ptr[t] \in freed
    /\ dangled' = TRUE
    /\ lpc' = [lpc EXCEPT ![t] = "idle"]
    /\ UNCHANGED <<instVars, queueVars, initVars, ptr, begun>>

-----------------------------------------------------------------------------
(* The writer of an instance.                                               *)

Sleep(i) ==
    /\ wpc[i] = "ready" /\ logs[i] = <<>>
    /\ wpc' = [wpc EXCEPT ![i] = "asleep"]
    /\ UNCHANGED <<instVars, logs, quit, open, failed, batch, file, pushed,
                   logVars, initVars>>

Spurious(i) ==
    /\ wpc[i] = "asleep"
    /\ wpc' = [wpc EXCEPT ![i] = "ready"]
    /\ UNCHANGED <<instVars, logs, quit, open, failed, batch, file, pushed,
                   logVars, initVars>>

DrainOne(i) ==
    /\ wpc[i] = "ready" /\ logs[i] # <<>>
    /\ batch' = [batch EXCEPT ![i] = <<Head(logs[i])>>]
    /\ logs' = [logs EXCEPT ![i] = Tail(@)]
    /\ wpc' = [wpc EXCEPT ![i] = IF quit[i] THEN "last" ELSE "write"]
    /\ UNCHANGED <<instVars, quit, open, failed, file, pushed, logVars, initVars>>

\* Every record is taken off the queue; only then is m_quit_thread looked at.
Drain(i) ==
    /\ wpc[i] = "ready" /\ logs[i] # <<>>
    /\ batch' = [batch EXCEPT ![i] = logs[i]]
    /\ logs' = [logs EXCEPT ![i] = <<>>]
    /\ wpc' = [wpc EXCEPT ![i] = IF quit[i] THEN "last" ELSE "write"]
    /\ UNCHANGED <<instVars, quit, open, failed, file, pushed, logVars, initVars>>

\* m_log_stream << str_logs.  The disk may take all of it or only what comes first, and
\* a stream that has failed takes nothing more.
Put(i) == \E n \in 0..Len(batch[i]) :
    /\ failed[i] => n = 0
    /\ file' = [file EXCEPT ![i] = @ \o SubSeq(batch[i], 1, n)]
    /\ failed' = [failed EXCEPT ![i] = @ \/ n < Len(batch[i])]

WriteAgain(i) ==
    /\ wpc[i] = "write"
    /\ Put(i)
    /\ wpc' = [wpc EXCEPT ![i] = "ready"]
    /\ UNCHANGED <<instVars, logs, quit, open, batch, pushed, logVars, initVars>>

\* Written and flushed without the mutex; str_logs is cleared before it is used again.
Write(i) ==
    /\ wpc[i] = "write"
    /\ Put(i)
    /\ batch' = [batch EXCEPT ![i] = <<>>]
    /\ wpc' = [wpc EXCEPT ![i] = "ready"]
    /\ UNCHANGED <<instVars, logs, quit, open, pushed, logVars, initVars>>

WriteLast(i) ==
    /\ wpc[i] = "last"
    /\ Put(i)
    /\ batch' = [batch EXCEPT ![i] = <<>>]
    /\ open' = [open EXCEPT ![i] = FALSE]
    /\ wpc' = [wpc EXCEPT ![i] = "ended"]
    /\ UNCHANGED <<instVars, logs, quit, pushed, logVars, initVars>>

-----------------------------------------------------------------------------
(* init, called by one thread at a time: uninit, then a new instance.  The  *)
(* bound leaves room for the default instances that loggers may make.       *)

CallInit ==
    /\ ipc = "idle" /\ made + Cardinality(Loggers) < MaxInstances
    /\ ipc' = IF instance = Null THEN "make" ELSE "end"
    /\ UNCHANGED <<instVars, queueVars, logVars, old>>

QuitWithoutEnd ==
    /\ ipc = "end" /\ ~Locked(instance)
    /\ old' = instance
    /\ quit' = [quit EXCEPT ![instance] = TRUE]
    /\ Notify(instance)
    /\ ipc' = "join"
    /\ UNCHANGED <<instVars, logs, open, failed, batch, file, pushed, logVars>>

\* The end marker is put on the queue, as the writer wakes up for records only.
PushEnd ==
    /\ ipc = "end" /\ ~Locked(instance)
    /\ old' = instance
    /\ logs' = [logs EXCEPT ![instance] = Append(@, End)]
    /\ pushed' = [pushed EXCEPT ![instance] = Append(@, End)]
    /\ quit' = [quit EXCEPT ![instance] = TRUE]
    /\ Notify(instance)
    /\ ipc' = "join"
    /\ UNCHANGED <<instVars, open, failed, batch, file, logVars>>

\* The writer has been joined, and what g_instance points to is deleted.
Delete ==
    /\ ipc = "join" /\ wpc[old] = "ended" /\ instance = old
    /\ freed' = freed \cup {instance}
    /\ ipc' = "null"
    /\ UNCHANGED <<instance, made, queueVars, logVars, old>>

\* That may be another instance, which a logger has made since: its thread is still
\* joinable, and the program terminates.
Abort ==
    /\ ipc = "join" /\ wpc[old] = "ended" /\ instance # old
    /\ ipc' = "aborted"
    /\ UNCHANGED <<instVars, queueVars, logVars, old>>

SetNull ==
    /\ ipc = "null"
    /\ instance' = Null
    /\ ipc' = "make"
    /\ UNCHANGED <<made, freed, queueVars, logVars, old>>

\* A logger may have made the default instance meanwhile: then it stays.
MakeNew ==
    /\ ipc = "make"
    /\ IF instance = Null THEN Construct ELSE UNCHANGED <<instVars, queueVars>>
    /\ ipc' = "idle"
    /\ UNCHANGED <<logVars, old>>

-----------------------------------------------------------------------------
Log(t) == GetInstance(t) \/ MakeDefault(t) \/ CheckOpen(t) \/ Push(t) \/ Dangle(t)
Writer(i) == Sleep(i) \/ Drain(i) \/ Write(i) \/ WriteLast(i)
Restart == PushEnd \/ Delete \/ Abort \/ SetNull \/ MakeNew

Running == ipc # "aborted"

Next ==
    \/ Running /\ \E t \in Loggers : Log(t)
    \/ Running /\ \E i \in Instances : Writer(i) \/ Spurious(i)
    \/ CallInit \/ Restart

Spec == Init /\ [][Next]_vars

\* Threads run.  Nothing here keeps the mutex for long, and the last write only once.
FairSpec ==
    /\ Spec
    /\ WF_vars(Restart)
    /\ \A i \in Instances : WF_vars(Running /\ Writer(i))
    /\ \A t \in Loggers : WF_vars(Running /\ Log(t))

-----------------------------------------------------------------------------
(* What is checked.                                                         *)

\* The type of every variable; a writer that writes has something to write.
TypeOK ==
    /\ instance \in Instances \cup {Null} /\ made \in Instances
    /\ freed \subseteq Instances
    /\ logs \in [Instances -> Seq(Records)] /\ pushed \in [Instances -> Seq(Records)]
    /\ file \in [Instances -> Seq(Records)] /\ batch \in [Instances -> Seq(Records)]
    /\ quit \in [Instances -> BOOLEAN] /\ open \in [Instances -> BOOLEAN]
    /\ failed \in [Instances -> BOOLEAN]
    /\ \A i \in Instances : wpc[i] \in {"write", "last"} => batch[i] # <<>>
    /\ wpc \in [Instances -> {"none", "ready", "asleep", "write", "last", "ended"}]
    /\ lpc \in [Loggers -> {"idle", "make", "given", "push"}]
    /\ ptr \in [Loggers -> Instances \cup {Null}]
    /\ begun \in [Loggers -> 0..MaxRecords]
    /\ ipc \in {"idle", "end", "join", "null", "make", "aborted"}
    /\ old \in Instances \cup {Null} /\ dangled \in BOOLEAN

\* The file of an instance is a beginning of what the instance was given, without a
\* gap, a repetition or a change of order, also when a write fails; and as long as none
\* has, what it lacks is in the writer's hands and in the queue.
InOrder == \A i \in Instances :
    /\ IsPrefix(file[i], pushed[i])
    /\ ~failed[i] => pushed[i] = file[i] \o (batch[i] \o logs[i])

\* An instance is deleted only when nothing is left in its writer's hands, its file is
\* closed and, unless the file failed, holds the end marker it was given and so, with
\* InOrder, every record given to it before.
NothingCutOff == \A i \in freed :
    /\ Contains(pushed[i], End) /\ ~failed[i] => Contains(file[i], End)
    /\ ~open[i] /\ batch[i] = <<>>

\* The file of an instance that is not being ended, and has not failed, catches up with
\* its records: no notification is lost between the writer's look at the queue and its
\* sleep.
ReachesFile == \A i \in Instances :
    file[i] # pushed[i] ~> (file[i] = pushed[i] \/ failed[i] \/ quit[i] \/ ~Running)

\* init returns, though it joins a writer that sleeps until there are records;
\* unless the program was terminated.
InitReturns == ipc = "join" ~> (ipc = "idle" \/ ~Running)

=============================================================================

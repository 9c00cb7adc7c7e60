------------------------------ MODULE SendFile ------------------------------
(***************************************************************************)
(* sendFile, as the screens that send use it: the JNI entry points with    *)
(* the global reference g_obj_send and the logger they share, the walk     *)
(* through a directory (enum_dir), a SendCtrl for each file with a thread  *)
(* for each piece, and the progress they report.  What goes over a piece's *)
(* connection is PieceStream's matter: here a frame is sent or not, an     *)
(* answer comes or not.                                                    *)
(*                                                                         *)
(* A screen disables its button while it sends, but a second screen may be *)
(* opened meanwhile (SendFileActivity also answers the share intent), and  *)
(* recvFile, whose server is RecvServer's matter, makes a logger of its    *)
(* own where sendFile does.  What then happens to a reference or a logger  *)
(* already deleted is the end of the process.                              *)
(*                                                                         *)
(* A definition placed right before another with the same parameters, and  *)
(* named for what it leaves out, is a mutant listed in PROJECT.json.       *)
(***************************************************************************)
EXTENDS Integers, Sequences, FiniteSets, SequencesExt

CONSTANTS
    Screens,  \* each sends once
    Receipts, \* the calls of recvFile
    Names,    \* what a file may be called
    Root,     \* what each screen sends: a path, a sequence of names
    Children, \* the directories: path |-> the names in it, hidden ones too
    Files,    \* the paths of what lstat takes for a file: a link and a socket too
    Trim,     \* what is left of a name without the blanks it ends in, if anything
    Hidden,   \* the names that begin with a dot
    Pieces,
    Grants,   \* what the receiver may ask each for: frames missing, by piece
    Nobody    \* no screen and no call

ASSUME ScreensAssumption ==
    Nobody \notin Screens \cup Receipts /\ Screens \cap Receipts = {}
ASSUME GrantsAssumption ==
    IsFiniteSet(Pieces) /\ \A s \in Screens : Grants[s] \subseteq [Pieces -> Nat]
ASSUME PathsAssumption ==
    /\ Root \in [Screens -> Seq(Names) \ {<<>>}]
    /\ DOMAIN Children \subseteq Seq(Names)
    /\ \A d \in DOMAIN Children : Children[d] \subseteq Names
    /\ Trim \in [Names -> {<<>>} \cup {<<n>> : n \in Names}]
    /\ Files \cap DOMAIN Children = {}
\* A directory below what is sent is a name in the directory above it.
ASSUME TreeAssumption ==
    \A s \in Screens, d \in DOMAIN Children : IsPrefix(Root[s], d) =>
        \A i \in Len(Root[s])..(Len(d) - 1) :
            LET above == SubSeq(d, 1, i)
            IN  above \in DOMAIN Children /\ d[i + 1] \in Children[above]

VARIABLES
    gObj,     \* g_obj_send: the screen referred to
    refs,     \* the global references that have not been deleted
    logger,   \* LogUtils::g_instance: the screen or the receipt that made it
    loggers,  \* the loggers that have not been deleted
    aborted,  \* something deleted was used
    overlap,  \* two screens have been sending at once
    mixed,    \* a receipt has gone on beside a send or another receipt
    rpc,      \* where each receipt is
    rheld,    \* the logger that one of its threads has got
    pc,       \* where each screen's thread is
    stack,    \* its calls of enum_dir: path, sub_relative_parent, entries not yet read
    tried,    \* the files it made a SendCtrl for, each with the name it sent
    gaveUp,   \* a directory could not be opened
    refused,  \* the paths of which lstat would say nothing
    granted,  \* frames missing when the file's pieces were negotiated
    toll,     \* m_send_toll
    shown,    \* the progress reported to the screen itself, for this file
    ppc,      \* where each piece's thread is
    left,     \* its lenth_left
    seen,     \* the toll it passes to the callback
    held      \* the logger it has got

globals == <<gObj, refs, logger, loggers, aborted>>
around == <<overlap, mixed, rpc, rheld>>
walk  == <<stack, tried, gaveUp, refused>>
file  == <<granted, toll, shown>>
piece == <<ppc, left, seen, held>>
vars  == <<globals, around, pc, walk, file, piece>>

ByScreen(v) == [s \in Screens |-> v]
ByPiece(v)  == [s \in Screens |-> [p \in Pieces |-> v]]
NoGrant == [p \in Pieces |-> 0]

Init ==
    /\ gObj = Nobody /\ refs = {} /\ logger = Nobody /\ loggers = {}
    /\ aborted = FALSE /\ overlap = FALSE /\ mixed = FALSE
    /\ rpc = [r \in Receipts |-> "idle"] /\ rheld = [r \in Receipts |-> Nobody]
    /\ pc = ByScreen("idle")
    /\ stack = ByScreen(<<>>) /\ tried = ByScreen(<<>>)
    /\ gaveUp = ByScreen(FALSE) /\ refused = ByScreen({})
    /\ granted = ByPiece(0) /\ toll = ByScreen(0) /\ shown = ByScreen({})
    /\ ppc = ByPiece("none") /\ left = ByPiece(0)
    /\ seen = ByPiece(0) /\ held = ByPiece(Nobody)

Sending(s) == pc[s] \notin {"idle", "ended"}
Receiving(r) == rpc[r] \notin {"idle", "ended"}
At(s, l) == pc[s] = l /\ ~aborted
Goto(s, l) == pc' = [pc EXCEPT ![s] = l]
PieceAt(s, p, l) == ppc[s][p] = l /\ ~aborted
PieceGoto(s, p, l) == ppc' = [ppc EXCEPT ![s][p] = l]

\* DeleteGlobalRef(g_obj_send): once for each reference.
DeleteRef ==
    IF gObj \in refs THEN refs' = refs \ {gObj} /\ UNCHANGED aborted
                     ELSE aborted' = TRUE /\ UNCHANGED refs

-----------------------------------------------------------------------------
(* The entry points.                                                        *)

\* The button: a new thread, and sendFile, which keeps the screen for callbacks.
Start(s) ==
    /\ At(s, "idle")
    /\ Goto(s, IF gObj = Nobody THEN "keep" ELSE "swap")
    /\ overlap' = (overlap \/ \E u \in Screens : Sending(u))
    /\ mixed' = (mixed \/ \E r \in Receipts : Receiving(r))
    /\ UNCHANGED <<globals, rpc, rheld, walk, file, piece>>

DropOld(s) ==
    /\ At(s, "swap") /\ DeleteRef /\ Goto(s, "keep")
    /\ UNCHANGED <<gObj, logger, loggers, around, walk, file, piece>>

KeepNew(s) ==
    /\ At(s, "keep") /\ Goto(s, "log")
    /\ gObj' = s /\ refs' = refs \cup {s}
    /\ UNCHANGED <<logger, loggers, aborted, around, walk, file, piece>>

\* LogUtils::init: the logger there is is stopped and deleted, then another is made.
Uninit ==
    /\ loggers' = loggers \ {logger}
    /\ aborted' = (logger # Nobody /\ logger \notin loggers)
    /\ UNCHANGED <<gObj, refs, logger>>
InitLogger(owner) ==
    /\ logger' = owner /\ loggers' = loggers \cup {owner}
    /\ UNCHANGED <<gObj, refs, aborted>>

DropLogger(s) ==
    /\ At(s, "log") /\ Goto(s, "newlog") /\ Uninit
    /\ UNCHANGED <<around, walk, file, piece>>

NewLogger(s) ==
    /\ At(s, "newlog") /\ Goto(s, "visit") /\ InitLogger(s)
    /\ UNCHANGED <<around, walk, file, piece>>

\* The walk is over: sendFile returns, whatever became of the files, and
\* sendFileDone drops the reference, if there is one.
Return(s) ==
    /\ At(s, "walk") /\ stack[s] = <<>>
    /\ Goto(s, IF gObj = Nobody THEN "ended" ELSE "drop")
    /\ UNCHANGED <<globals, around, walk, file, piece>>

DropRef(s) ==
    /\ At(s, "drop") /\ DeleteRef /\ Goto(s, "forget")
    /\ UNCHANGED <<gObj, logger, loggers, around, walk, file, piece>>

NotForgotten(s) ==
    /\ At(s, "forget") /\ Goto(s, "ended")
    /\ UNCHANGED <<globals, around, walk, file, piece>>

ForgetRef(s) ==
    /\ At(s, "forget") /\ Goto(s, "ended")
    /\ gObj' = Nobody
    /\ UNCHANGED <<refs, logger, loggers, aborted, around, walk, file, piece>>

-----------------------------------------------------------------------------
(* recvFile, for what it does to the logger.                                *)

ReceiptAt(r, l) == rpc[r] = l /\ ~aborted
ReceiptGoto(r, l) == rpc' = [rpc EXCEPT ![r] = l]

StartReceipt(r) ==
    /\ ReceiptAt(r, "idle") /\ ReceiptGoto(r, "log")
    /\ mixed' = \/ mixed \/ \E s \in Screens : Sending(s)
                \/ \E q \in Receipts : Receiving(q)
    /\ UNCHANGED <<globals, overlap, rheld, pc, walk, file, piece>>

DropLoggerToReceive(r) ==
    /\ ReceiptAt(r, "log") /\ ReceiptGoto(r, "newlog") /\ Uninit
    /\ UNCHANGED <<overlap, mixed, rheld, pc, walk, file, piece>>

NewLoggerToReceive(r) ==
    /\ ReceiptAt(r, "newlog") /\ ReceiptGoto(r, "serve") /\ InitLogger(r)
    /\ UNCHANGED <<overlap, mixed, rheld, pc, walk, file, piece>>

\* Its thread, or that of a piece, gets the logger, and then uses it.
GetToLog(r) ==
    /\ ReceiptAt(r, "serve") \/ ReceiptAt(r, "late")
    /\ rheld[r] = Nobody /\ rheld' = [rheld EXCEPT ![r] = logger]
    /\ UNCHANGED <<globals, overlap, mixed, rpc, pc, walk, file, piece>>

LogReceipt(r) ==
    /\ rheld[r] # Nobody /\ ~aborted
    /\ aborted' = (rheld[r] \notin loggers) /\ rheld' = [rheld EXCEPT ![r] = Nobody]
    /\ UNCHANGED <<gObj, refs, logger, loggers, overlap, mixed, rpc, pc, walk, file, piece>>

\* recvFile returns, and does not join the threads of the pieces, which are detached
\* and given half a second: one of them may go on.
ReturnAlone(r) ==
    /\ ReceiptAt(r, "serve") /\ ReceiptGoto(r, "ended")
    /\ UNCHANGED <<globals, overlap, mixed, rheld, pc, walk, file, piece>>

ReturnReceipt(r) ==
    /\ ReceiptAt(r, "serve") /\ ReceiptGoto(r, "late")
    /\ UNCHANGED <<globals, overlap, mixed, rheld, pc, walk, file, piece>>

LastThreadEnds(r) ==
    /\ ReceiptAt(r, "late") /\ rheld[r] = Nobody /\ ReceiptGoto(r, "ended")
    /\ UNCHANGED <<globals, overlap, mixed, rheld, pc, walk, file, piece>>

-----------------------------------------------------------------------------
(* enum_dir.                                                                *)

Entry(dir, n) == Append(dir, n)

\* dir_file_exist: a path is trimmed before lstat sees it, and what is neither is
\* nothing.
Trimmed(path) == Front(path) \o Trim[Last(path)]
IsFile(path) == Trimmed(path) \in Files
IsDir(path) == Trimmed(path) \in DOMAIN Children

\* The relative parent of what is in a directory.
LastNameOnly(path, relative_parent) == <<Last(path)>>
SubParent(path, relative_parent) == Append(relative_parent, Last(path))

\* A file gets a SendCtrl; a directory is opened, untrimmed, or the failure to open
\* it ends every call there is; anything else is passed over, and so is whatever
\* lstat fails for (a parent that may not be searched).
Visit(s, path, relative_parent, rest) ==
    \/ /\ IsFile(path)
       /\ tried' = [tried EXCEPT ![s] =
             Append(@, [path |-> path, name |-> Append(relative_parent, Last(path))])]
       /\ stack' = [stack EXCEPT ![s] = rest] /\ Goto(s, "file")
       /\ UNCHANGED <<gaveUp, refused>>
    \/ /\ IsDir(path) /\ path \in DOMAIN Children
       /\ stack' = [stack EXCEPT ![s] =
             Append(rest, [path |-> path, parent |-> SubParent(path, relative_parent),
                           unread |-> Children[path]])]
       /\ Goto(s, "walk")
       /\ UNCHANGED <<tried, gaveUp, refused>>
    \/ /\ IsDir(path)
       /\ stack' = [stack EXCEPT ![s] = <<>>] /\ gaveUp' = [gaveUp EXCEPT ![s] = TRUE]
       /\ Goto(s, "walk")
       /\ UNCHANGED <<tried, refused>>
    \/ /\ ~IsFile(path) /\ ~IsDir(path)
       /\ stack' = [stack EXCEPT ![s] = rest] /\ Goto(s, "walk")
       /\ UNCHANGED <<tried, gaveUp, refused>>
    \/ /\ stack' = [stack EXCEPT ![s] = rest] /\ Goto(s, "walk")
       /\ refused' = [refused EXCEPT ![s] = @ \cup {path}]
       /\ UNCHANGED <<tried, gaveUp>>

VisitRoot(s) ==
    /\ At(s, "visit") /\ Visit(s, Root[s], <<>>, <<>>)
    /\ UNCHANGED <<globals, around, file, piece>>

\* readdir, in any order; names that begin with a dot are passed over.
NextEntry(s) ==
    /\ At(s, "walk") /\ stack[s] # <<>>
    /\ LET top == Last(stack[s])
       IN \E n \in top.unread \ Hidden :
            Visit(s, Entry(top.path, n), top.parent,
                  Append(Front(stack[s]), [top EXCEPT !.unread = @ \ {n}]))
    /\ UNCHANGED <<globals, around, file, piece>>

CloseDir(s) ==
    /\ At(s, "walk") /\ stack[s] # <<>> /\ Last(stack[s]).unread \subseteq Hidden
    /\ stack' = [stack EXCEPT ![s] = Front(@)]
    /\ UNCHANGED <<globals, around, pc, tried, gaveUp, refused, file, piece>>

-----------------------------------------------------------------------------
(* SendCtrl: init and send_file.                                            *)

\* The file is empty or cannot be read, the receiver cannot be reached or answers
\* with no pieces.
SendFails(s) ==
    /\ At(s, "file") /\ Goto(s, "walk")
    /\ UNCHANGED <<globals, around, walk, file, piece>>

\* A thread for each piece that misses something.
Negotiate(s) ==
    /\ At(s, "file") /\ Goto(s, "join")
    /\ \E g \in Grants[s] :
          /\ granted' = [granted EXCEPT ![s] = g]
          /\ left' = [left EXCEPT ![s] = g]
          /\ ppc' = [ppc EXCEPT ![s] = [p \in Pieces |-> IF g[p] > 0 THEN "connect" ELSE "none"]]
    /\ UNCHANGED <<globals, around, walk, toll, shown, seen, held>>

KeepToll(s) ==
    /\ Goto(s, "walk")
    /\ granted' = [granted EXCEPT ![s] = NoGrant] /\ left' = [left EXCEPT ![s] = NoGrant]
    /\ UNCHANGED toll /\ shown' = [shown EXCEPT ![s] = {}]
    /\ seen' = [seen EXCEPT ![s] = NoGrant]

FileOver(s) ==
    /\ Goto(s, "walk")
    /\ granted' = [granted EXCEPT ![s] = NoGrant] /\ left' = [left EXCEPT ![s] = NoGrant]
    /\ toll' = [toll EXCEPT ![s] = 0] /\ shown' = [shown EXCEPT ![s] = {}]
    /\ seen' = [seen EXCEPT ![s] = NoGrant]

JoinAllPieces(s) ==
    /\ At(s, "join") /\ \A p \in Pieces : ppc[s][p] = "ended"
    /\ FileOver(s)
    /\ ppc' = [ppc EXCEPT ![s] = [p \in Pieces |-> "none"]]
    /\ UNCHANGED <<globals, around, walk, held>>

Joined(s) == \A p \in Pieces : ppc[s][p] \in {"ended", "none"}
Join(s) ==
    /\ At(s, "join") /\ Joined(s)
    /\ FileOver(s)
    /\ ppc' = [ppc EXCEPT ![s] = [p \in Pieces |-> "none"]]
    /\ UNCHANGED <<globals, around, walk, held>>

-----------------------------------------------------------------------------
(* A piece's thread.                                                        *)

\* Connecting, naming the piece, opening the file: it works or the thread ends.
Connect(s, p) ==
    /\ PieceAt(s, p, "connect")
    /\ PieceGoto(s, p, "send") \/ PieceGoto(s, p, "ended")
    /\ UNCHANGED <<globals, around, pc, walk, file, left, seen, held>>

\* A frame goes out; or reading or sending fails, which is logged: reading, twice.
Sent(s, p) ==
    /\ PieceAt(s, p, "send") /\ PieceGoto(s, p, "add")
    /\ UNCHANGED <<globals, around, pc, walk, file, left, seen, held>>

Answered(s, p) ==
    /\ PieceAt(s, p, "wait") /\ PieceGoto(s, p, "send")
    /\ UNCHANGED <<globals, around, pc, walk, file, left, seen, held>>

GetLogger(s, p) ==
    /\ held' = [held EXCEPT ![s][p] = logger]
    /\ UNCHANGED <<globals, around, pc, walk, file, left, seen>>
UseLogger(s, p) ==
    /\ aborted' = (held[s][p] \notin loggers)
    /\ held' = [held EXCEPT ![s][p] = Nobody]
    /\ UNCHANGED <<gObj, refs, logger, loggers, around, pc, walk, file, left, seen>>

Fails(s, p) ==
    /\ PieceAt(s, p, "send") \/ PieceAt(s, p, "wait")
    /\ PieceGoto(s, p, "log") /\ GetLogger(s, p)
ReadFails(s, p) ==
    /\ PieceAt(s, p, "send")
    /\ PieceGoto(s, p, "readlog") /\ GetLogger(s, p)

LogRead(s, p) ==
    /\ PieceAt(s, p, "readlog")
    /\ PieceGoto(s, p, "again") /\ UseLogger(s, p)
LogAgain(s, p) ==
    /\ PieceAt(s, p, "again")
    /\ PieceGoto(s, p, "log") /\ GetLogger(s, p)
Log(s, p) ==
    /\ PieceAt(s, p, "log")
    /\ PieceGoto(s, p, "ended") /\ UseLogger(s, p)

\* Under m_mutex.
AddUnlocked(s, p) ==
    /\ PieceAt(s, p, "add") /\ PieceGoto(s, p, "args")
    /\ toll' = [toll EXCEPT ![s] = seen[s][p] + 1]
    /\ UNCHANGED <<globals, around, pc, walk, granted, shown, left, seen, held>>

AddToll(s, p) ==
    /\ PieceAt(s, p, "add") /\ PieceGoto(s, p, "args")
    /\ toll' = [toll EXCEPT ![s] = @ + 1]
    /\ UNCHANGED <<globals, around, pc, walk, granted, shown, left, seen, held>>

\* The toll is read again, without the mutex.
LastGoesQuiet(s, p) ==
    /\ PieceAt(s, p, "args") /\ PieceGoto(s, p, IF left[s][p] = 1 THEN "dec" ELSE "test")
    /\ seen' = [seen EXCEPT ![s][p] = toll[s]]
    /\ UNCHANGED <<globals, around, pc, walk, file, left, held>>

ReadToll(s, p) ==
    /\ PieceAt(s, p, "args") /\ PieceGoto(s, p, "test")
    /\ seen' = [seen EXCEPT ![s][p] = toll[s]]
    /\ UNCHANGED <<globals, around, pc, walk, file, left, held>>

\* The callback reads g_obj_send three times: to test it, for its class, and to call.
TestRef(s, p) ==
    /\ PieceAt(s, p, "test")
    /\ PieceGoto(s, p, IF gObj = Nobody THEN "dec" ELSE "class")
    /\ UNCHANGED <<globals, around, pc, walk, file, left, seen, held>>

ClassOfRef(s, p) ==
    /\ PieceAt(s, p, "class") /\ PieceGoto(s, p, "call")
    /\ aborted' = (gObj \notin refs)
    /\ UNCHANGED <<gObj, refs, logger, loggers, around, pc, walk, file, left, seen, held>>

CallBack(s, p) ==
    /\ PieceAt(s, p, "call") /\ PieceGoto(s, p, "dec")
    /\ aborted' = (gObj \notin refs)
    /\ shown' = IF gObj = s THEN [shown EXCEPT ![s] = @ \cup {seen[s][p]}] ELSE shown
    /\ UNCHANGED <<gObj, refs, logger, loggers, around, pc, walk, granted, toll, left, seen, held>>

\* The last frame is not answered.
Count(s, p) ==
    /\ PieceAt(s, p, "dec")
    /\ left' = [left EXCEPT ![s][p] = @ - 1]
    /\ PieceGoto(s, p, IF left'[s][p] = 0 THEN "ended" ELSE "wait")
    /\ UNCHANGED <<globals, around, pc, walk, file, seen, held>>

-----------------------------------------------------------------------------
CallStep(s) ==
    \/ DropOld(s) \/ KeepNew(s) \/ DropLogger(s) \/ NewLogger(s)
    \/ VisitRoot(s) \/ NextEntry(s) \/ CloseDir(s)
    \/ SendFails(s) \/ Join(s)
    \/ Return(s) \/ DropRef(s) \/ ForgetRef(s)

PieceStep(s, p) ==
    \/ LogRead(s, p) \/ LogAgain(s, p) \/ Log(s, p)
    \/ AddToll(s, p) \/ ReadToll(s, p)
    \/ TestRef(s, p) \/ ClassOfRef(s, p) \/ CallBack(s, p) \/ Count(s, p)

\* What the receiver and the network decide.
Network(s) ==
    \/ Negotiate(s)
    \/ \E p \in Pieces :
          Connect(s, p) \/ Sent(s, p) \/ Answered(s, p) \/ Fails(s, p) \/ ReadFails(s, p)

ReceiptStep(r) ==
    \/ StartReceipt(r) \/ DropLoggerToReceive(r) \/ NewLoggerToReceive(r)
    \/ GetToLog(r) \/ LogReceipt(r) \/ ReturnReceipt(r) \/ LastThreadEnds(r)

Next ==
    \/ \E s \in Screens :
          Start(s) \/ CallStep(s) \/ Network(s) \/ \E p \in Pieces : PieceStep(s, p)
    \/ \E r \in Receipts : ReceiptStep(r)

\* The threads of a send run; nothing is said of the user, of the network or of
\* receipts, which last as long as their senders like.
Spec ==
    /\ Init /\ [][Next]_vars
    /\ \A s \in Screens : WF_vars(CallStep(s)) /\ \A p \in Pieces : WF_vars(PieceStep(s, p))

-----------------------------------------------------------------------------
(* What is checked.                                                         *)

Stages == {"idle", "swap", "keep", "log", "newlog", "visit", "walk", "file", "join",
           "drop", "forget", "ended"}
ReceiptStages == {"idle", "log", "newlog", "serve", "late", "ended"}
PieceStages == {"none", "connect", "send", "add", "args", "test", "class", "call", "dec",
                "wait", "readlog", "again", "log", "ended"}

Loggers == Screens \cup Receipts
Call == [path : Seq(Names), parent : Seq(Names), unread : SUBSET Names]
Told == [path : Seq(Names), name : Seq(Names)]

\* The type of every variable.
TypeOK ==
    /\ gObj \in Screens \cup {Nobody} /\ refs \subseteq Screens
    /\ logger \in Loggers \cup {Nobody} /\ loggers \subseteq Loggers
    /\ aborted \in BOOLEAN /\ overlap \in BOOLEAN /\ mixed \in BOOLEAN
    /\ rpc \in [Receipts -> ReceiptStages] /\ rheld \in [Receipts -> Loggers \cup {Nobody}]
    /\ pc \in [Screens -> Stages]
    /\ stack \in [Screens -> Seq(Call)] /\ tried \in [Screens -> Seq(Told)]
    /\ gaveUp \in [Screens -> BOOLEAN] /\ refused \in [Screens -> SUBSET Seq(Names)]
    /\ granted \in [Screens -> [Pieces -> Nat]] /\ toll \in [Screens -> Nat]
    /\ shown \in [Screens -> SUBSET Nat]
    /\ ppc \in [Screens -> [Pieces -> PieceStages]]
    /\ left \in [Screens -> [Pieces -> Nat]] /\ seen \in [Screens -> [Pieces -> Nat]]
    /\ held \in [Screens -> [Pieces -> Loggers \cup {Nobody}]]

\* The frames of a file, n[p] of them in piece p.
Frames(n) == UNION {{p} \X (1..n[p]) : p \in Pieces}
Total(s) == Cardinality(Frames(granted[s]))
Missing(s) == Cardinality(Frames(left[s]))
\* The threads that have added a frame to the toll and have not counted it off.
Added(s) == {p \in Pieces : ppc[s][p] \in {"args", "test", "class", "call", "dec"}}

\* As long as no send and no receipt goes on beside another, no reference and no
\* logger is used or deleted after it was deleted: the threads that report progress
\* and write to the log are joined before sendFileDone and before the next
\* LogUtils::init, and what is deleted is forgotten.  A receipt goes on as long as
\* one of its threads does, after recvFile has returned too.
OnlyOverlapAborts == aborted => overlap \/ mixed

\* The toll is the frames that were sent, however the threads of the pieces meet:
\* those counted off, and one for each thread that has added its own but has not
\* yet counted it off.  So what is reported never passes the whole.
TollIsSent ==
    \A s \in Screens : pc[s] = "join" =>
        toll[s] = Total(s) - Missing(s) + Cardinality(Added(s))

\* When every piece has been sent, the screen has been told of the whole, though
\* the toll is read outside the mutex and reports may come out of order.
WholeIsShown ==
    \A s \in Screens :
        (pc[s] = "join" /\ Joined(s) /\ Total(s) > 0 /\ Missing(s) = 0 /\ ~overlap /\ ~aborted)
            => Total(s) \in shown[s]

\* When sendFile returns, every file under the root that is not hidden and not in
\* a hidden directory has been tried, once, and under its path from the parent of
\* the root on.  But a file is one that dir_file_exist takes for one, below what it
\* takes for directories, so not if trimming makes another path of either; lstat has
\* refused neither it nor anything above it; and every directory could be opened.
Visible(s) ==
    LET entries == UNION {{Entry(d, n) : n \in Children[d] \ Hidden} : d \in DOMAIN Children}
    IN  {f \in entries \cup {Root[s]} :
            /\ IsFile(f) /\ IsPrefix(Root[s], f)
            /\ \A i \in (Len(Root[s]) + 1)..Len(f) : f[i] \notin Hidden
            /\ \A d \in DOMAIN Children :
                  IsPrefix(Root[s], d) /\ IsStrictPrefix(d, f) => IsDir(d)}
Refused(s, f) == \E r \in refused[s] : IsPrefix(r, f)

EachTriedOnce ==
    \A s \in Screens :
        LET told == DOMAIN tried[s]
        IN /\ \A i, k \in told : tried[s][i].path = tried[s][k].path => i = k
           /\ \A i \in told : tried[s][i].name
                 = SubSeq(tried[s][i].path, Len(Root[s]), Len(tried[s][i].path))
           /\ (pc[s] \in {"drop", "forget", "ended"} /\ ~gaveUp[s])
                 => {tried[s][i].path : i \in told} = {f \in Visible(s) : ~Refused(s, f)}

\* A call of sendFile comes back, unless it waits for the network, which it does
\* without a limit of time, or the process is gone.
WaitsForNetwork(s) ==
    pc[s] = "file" \/ \E p \in Pieces : ppc[s][p] \in {"connect", "send", "wait"}

OnlyNetworkBlocks ==
    \A s \in Screens :
        [](Sending(s) => <>(~Sending(s) \/ WaitsForNetwork(s) \/ aborted))

=============================================================================

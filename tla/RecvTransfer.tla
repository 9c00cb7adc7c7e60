---------------------------- MODULE RecvTransfer ----------------------------
(***************************************************************************)
(* The receiving side of one file: a TransRecvCtrl, the RecvMmap it owns,  *)
(* the two files RecvMmap keeps on disk (<md5>.data, written through       *)
(* mmap, and <md5>.info, the record of what is still missing), the worker  *)
(* threads that fill the pieces, and the server thread, which negotiates   *)
(* (f_handshake, p_handshake), runs the timer and destroys the controller. *)
(* The process may be killed between any two steps; the disk survives.     *)
(*                                                                         *)
(* Steps are cut where the code takes or drops a lock, reads a variable    *)
(* another thread writes, or changes a file.  Lengths are in units of what *)
(* one frame carries at least.                                             *)
(*                                                                         *)
(* A definition placed right before another with the same parameters, and  *)
(* named for what it leaves out, is a mutant listed in PROJECT.json.       *)
(***************************************************************************)
EXTENDS Integers, FiniteSets

CONSTANTS
    Pieces,      \* the piece ids (sid)
    PieceLen,    \* lenth of each piece
    MaxChunk,    \* the longest payload of one frame
    QuietLimit,  \* ticks without progress before quit(): 30 in the code
    GiveUpLimit, \* ticks without workers before giving up: 2 in the code
    SlowSteps    \* where a worker may stay longer than the destructor's 500 ms

ASSUME LenAssumption   == PieceLen \in [Pieces -> Nat \ {0}]
ASSUME ChunkAssumption == MaxChunk \in Nat \ {0}
ASSUME LimitAssumption == QuietLimit \in Nat /\ GiveUpLimit \in Nat
ASSUME SlowAssumption  == SlowSteps \subseteq {"drain", "verify"}

VARIABLES
    \* the disk
    dataThere,   \* <md5>.data exists
    written,     \* how long a prefix of each piece has been stored in it
    spoiled,     \* some unit of it is not the one the md5 was taken of
    info,        \* <md5>.info: "absent", "empty" (opened, which truncates, and not
                 \* written), "cut" (what a failed write left of it) or "saved"
    infoLeft,    \* the lenth_left of each piece it holds, when "saved"
    published,   \* the file was renamed to its own name at least once
    \* RecvMmap and TransRecvCtrl
    live,        \* the controller is in m_map_trans
    mapped,      \* m_piece_infos is not empty, i.e. ~is_uninit()
    left,        \* lenth_left of each piece
    pend,        \* bytes copied by the holder of RecvMmap's m_mutex, not counted
    started,     \* m_start_update
    canClear,    \* m_can_clear
    botched,     \* a rename or a removal at the end of the transfer has failed
    \* the worker threads, one for each negotiated connection
    wpc,         \* where the worker of each piece is
    shut,        \* quit() has shut its socket down
    \* the sender: pieces it has been told to send and has not connected for
    todo,
    \* the server thread
    tpc,         \* where it is
    primed,      \* last_time # 0
    lastLeft,    \* last_done_num, kept piece by piece (left only decreases)
    quiet,       \* m_receive_timeout
    dirty,       \* delta > 0
    idleTicks,   \* timeout
    snap,        \* str_ser_data, the snapshot update_info writes
    linked       \* the info file it has open is still in the directory

disk    == <<dataThere, written, spoiled, info, infoLeft, published>>
ctrl    == <<live, mapped, left, pend, started, canClear, botched>>
workers == <<wpc, shut>>
ticks   == <<primed, lastLeft, quiet, dirty, idleTicks>>
server  == <<tpc, snap, linked>>
vars    == <<disk, ctrl, workers, todo, ticks, server>>

WorkerPCs == {"idle", "recv", "copied", "stored", "complete", "drain", "status",
              "claim", "verify", "rename", "discard", "rminfo", "flag", "exit"}
ServerPCs == {"poll", "rmInfo", "rmData", "create", "initOpen", "initWrite",
              "reply", "quit", "count", "serialize", "open", "write", "recount",
              "sweep", "dtor"}

Nothing == [p \in Pieces |-> 0]
AllIdle == [p \in Pieces |-> "idle"]
NoneShut == [p \in Pieces |-> FALSE]

Smaller(a, b) == IF a < b THEN a ELSE b
Larger(a, b)  == IF a < b THEN b ELSE a

\* The fd of a worker is in m_socks_trans from add_socket until the worker
\* takes it out, before it drains or closes the socket.
Listed(p) == wpc[p] \in {"recv", "copied", "stored", "complete"}

\* m_thread_count == 0: add_socket counts a worker in before it is started and
\* the worker counts itself out as its last action.
NoWorkers == \A p \in Pieces : wpc[p] = "idle"

\* RecvMmap's m_mutex is held only between the memcpy and the end of
\* update_file_piece_data; status and serialize_data are single steps.
NoMutex == TRUE
MmapFree == \A p \in Pieces : wpc[p] # "copied"

\* status(): done
Done == \A p \in Pieces : left[p] = 0

Init ==
    /\ dataThere = FALSE /\ written = Nothing /\ spoiled = FALSE
    /\ info = "absent" /\ infoLeft = Nothing /\ published = FALSE
    /\ live = FALSE /\ mapped = FALSE /\ left = Nothing /\ pend = 0
    /\ started = FALSE /\ canClear = FALSE /\ botched = FALSE
    /\ wpc = AllIdle /\ shut = NoneShut /\ todo = {}
    /\ tpc = "poll" /\ primed = FALSE /\ lastLeft = Nothing /\ quiet = 0
    /\ dirty = FALSE /\ idleTicks = 0 /\ snap = Nothing /\ linked = FALSE

-----------------------------------------------------------------------------
(* f_handshake: RecvMmap::init on the server thread, then the reply.        *)

\* Either file is missing: a first transfer, whatever is left is removed.
FreshInit ==
    /\ tpc = "poll" /\ ~live
    /\ ~dataThere \/ info = "absent"
    /\ tpc' = "rmInfo"
    /\ UNCHANGED <<disk, ctrl, workers, todo, ticks, snap, linked>>

LeaveStaleInfo ==
    /\ tpc = "rmInfo"
    /\ tpc' = "rmData"
    /\ UNCHANGED <<disk, ctrl, workers, todo, ticks, snap, linked>>

RemoveInfo ==
    /\ tpc = "rmInfo"
    /\ info' = "absent" /\ infoLeft' = Nothing
    /\ tpc' = "rmData"
    /\ UNCHANGED <<dataThere, written, spoiled, published, ctrl, workers, todo,
                   ticks, snap, linked>>

RemoveData ==
    /\ tpc = "rmData"
    /\ dataThere' = FALSE /\ written' = Nothing /\ spoiled' = FALSE
    /\ tpc' = "create"
    /\ UNCHANGED <<info, infoLeft, published, ctrl, workers, todo, ticks, snap,
                   linked>>

\* open and ftruncate make a file of holes; a failing mmap ends init with
\* false and leaves that file behind.
CreateData ==
    /\ tpc = "create"
    /\ dataThere' = TRUE /\ written' = Nothing /\ spoiled' = FALSE
    /\ \/ /\ tpc' = "initOpen" /\ mapped' = TRUE /\ left' = PieceLen
       \/ /\ tpc' = "poll" /\ UNCHANGED <<mapped, left>>
    /\ UNCHANGED <<info, infoLeft, published, live, pend, started, canClear, botched, workers,
                   todo, ticks, snap, linked>>

\* write_info_file does not look at what fails: a file that can not be opened is
\* not written, and a write that fails leaves a file without a whole record.
InitOpenInfo ==
    /\ tpc = "initOpen"
    /\ \/ info' = "empty" /\ infoLeft' = Nothing /\ tpc' = "initWrite"
       \/ UNCHANGED <<info, infoLeft>> /\ tpc' = "reply"
    /\ UNCHANGED <<dataThere, written, spoiled, published, ctrl, workers, todo,
                   ticks, snap, linked>>

InitWriteNothing ==
    /\ tpc = "initWrite" /\ tpc' = "reply"
    /\ UNCHANGED <<disk, ctrl, workers, todo, ticks, snap, linked>>

InitWriteInfo ==
    /\ tpc = "initWrite"
    /\ \/ info' = "saved" /\ infoLeft' = left
       \/ info' = "cut" /\ UNCHANGED infoLeft
    /\ tpc' = "reply"
    /\ UNCHANGED <<dataThere, written, spoiled, published, ctrl, workers, todo,
                   ticks, snap, linked>>

\* Both files are there and the info file is readable.  An empty info file, or a part
\* of one, makes init return false: the handshake is refused and nothing changes.
ResumeInit ==
    /\ tpc = "poll" /\ ~live
    /\ dataThere /\ info = "saved"
    /\ mapped' = TRUE /\ left' = infoLeft
    /\ tpc' = "reply"
    /\ UNCHANGED <<disk, live, pend, started, canClear, botched, workers, todo,
                   ticks, snap, linked>>

\* The piece infos are sent back.  If that fails the RecvMmap is dropped;
\* else a controller enters the map and the sender knows what is missing.
Reply ==
    /\ tpc = "reply"
    /\ tpc' = "poll"
    /\ \/ /\ live' = TRUE
          /\ todo' = {p \in Pieces : left[p] > 0}
          /\ UNCHANGED <<mapped, left>>
       \/ /\ mapped' = FALSE /\ left' = Nothing
          /\ UNCHANGED <<live, todo>>
    /\ UNCHANGED <<disk, pend, started, canClear, botched, workers, ticks, snap,
                   linked>>

\* p_handshake: the sender connects for a piece it was told is missing, and
\* add_socket starts the worker.
PieceHandshake(p) ==
    /\ tpc = "poll" /\ live /\ p \in todo
    /\ todo' = todo \ {p}
    /\ started' = TRUE
    /\ wpc' = [wpc EXCEPT ![p] = "recv"]
    /\ UNCHANGED <<disk, live, mapped, left, pend, canClear, botched, shut, ticks, server>>

-----------------------------------------------------------------------------
(* The worker thread of piece p.                                            *)

Goto(p, pc) == wpc' = [wpc EXCEPT ![p] = pc]

\* A frame longer than what is missing is cut.
Clamped(p, len) == IF len > left[p] THEN left[p] ELSE len

\* A whole frame has arrived and passed check_data.  Under RecvMmap's mutex the
\* payload, cut to what is missing, is copied to the mapping ...
CopyChunk(p) ==
    /\ wpc[p] = "recv" /\ MmapFree
    /\ \E len \in 1..MaxChunk, genuine \in BOOLEAN :
         /\ pend' = Clamped(p, len)
         /\ spoiled' = (spoiled \/ ~genuine)
         /\ written' = [written EXCEPT ![p] =
                          Larger(@, PieceLen[p] - left[p] + pend')]
    /\ Goto(p, "copied")
    /\ UNCHANGED <<dataThere, info, infoLeft, published, live, mapped, left,
                   started, canClear, botched, shut, todo, ticks, server>>

\* ... and only then counted.
CountChunk(p) ==
    /\ wpc[p] = "copied"
    /\ left' = [left EXCEPT ![p] = @ - pend]
    /\ pend' = 0
    /\ Goto(p, IF left'[p] = 0 THEN "complete" ELSE "stored")
    /\ UNCHANGED <<disk, live, mapped, started, canClear, botched, shut, todo,
                   ticks, server>>

\* send("continue") succeeds.
SendContinue(p) ==
    /\ wpc[p] = "stored"
    /\ Goto(p, "recv")
    /\ UNCHANGED <<disk, ctrl, shut, todo, ticks, server>>

\* receive or send fails, or the frame is no frame: the socket is taken out of
\* the list and closed.
LoseConnection(p) ==
    /\ wpc[p] \in {"recv", "stored"}
    /\ Goto(p, "exit")
    /\ UNCHANGED <<disk, ctrl, shut, todo, ticks, server>>

\* The piece is complete: its socket leaves m_socks_trans ...
Delist(p) ==
    /\ wpc[p] = "complete"
    /\ Goto(p, "drain")
    /\ UNCHANGED <<disk, ctrl, shut, todo, ticks, server>>

\* ... and the worker reads once more, until the sender closes.
Drain(p) ==
    /\ wpc[p] = "drain"
    /\ Goto(p, "status")
    /\ UNCHANGED <<disk, ctrl, shut, todo, ticks, server>>

SeeOwnPiece(p) ==
    /\ wpc[p] = "status" /\ MmapFree
    /\ Goto(p, "claim")
    /\ UNCHANGED <<disk, ctrl, shut, todo, ticks, server>>

SeeAlone(p) ==
    /\ wpc[p] = "status" /\ MmapFree
    /\ Goto(p, IF Done /\ \A q \in Pieces \ {p} : wpc[q] = "idle" THEN "claim" ELSE "exit")
    /\ UNCHANGED <<disk, ctrl, shut, todo, ticks, server>>

\* one_piece_done: status under RecvMmap's mutex ...
SeeStatus(p) ==
    /\ wpc[p] = "status" /\ MmapFree
    /\ Goto(p, IF Done THEN "claim" ELSE "exit")
    /\ UNCHANGED <<disk, ctrl, shut, todo, ticks, server>>

ClaimUnguarded(p) ==
    /\ wpc[p] = "claim"
    /\ mapped' = FALSE
    /\ Goto(p, "verify")
    /\ UNCHANGED <<disk, live, left, pend, started, canClear, botched, shut,
                   todo, ticks, server>>

\* ... then is_uninit and uninit under the controller's mutex: the first
\* worker to come unmaps the file and goes on to check it.
Claim(p) ==
    /\ wpc[p] = "claim"
    /\ mapped' = FALSE
    /\ Goto(p, IF mapped THEN "verify" ELSE "exit")
    /\ UNCHANGED <<disk, live, left, pend, started, canClear, botched, shut,
                   todo, ticks, server>>

VerifyLength(p) ==
    /\ wpc[p] = "verify"
    /\ Goto(p, IF dataThere /\ written = PieceLen THEN "rename" ELSE "discard")
    /\ UNCHANGED <<disk, ctrl, shut, todo, ticks, server>>

\* check_file compares the MD5 of the data file.
Verify(p) ==
    /\ wpc[p] = "verify"
    /\ Goto(p, IF dataThere /\ written = PieceLen /\ ~spoiled THEN "rename" ELSE "discard")
    /\ UNCHANGED <<disk, ctrl, shut, todo, ticks, server>>

\* The file gets its name, if it has one.  Neither the rename nor what fails in it
\* is looked at.
RenameData(p) ==
    /\ wpc[p] = "rename"
    /\ \/ /\ published' = TRUE
          /\ dataThere' = FALSE /\ written' = Nothing /\ spoiled' = FALSE
          /\ UNCHANGED botched
       \/ botched' = TRUE /\ UNCHANGED <<published, dataThere, written, spoiled>>
    /\ Goto(p, "rminfo")
    /\ UNCHANGED <<info, infoLeft, live, mapped, left, pend, started, canClear,
                   shut, todo, ticks, server>>

DiscardData(p) ==
    /\ wpc[p] = "discard"
    /\ \/ /\ dataThere' = FALSE /\ written' = Nothing /\ spoiled' = FALSE
          /\ UNCHANGED botched
       \/ botched' = TRUE /\ UNCHANGED <<dataThere, written, spoiled>>
    /\ Goto(p, "rminfo")
    /\ UNCHANGED <<info, infoLeft, published, live, mapped, left, pend, started, canClear,
                   shut, todo, ticks, server>>

\* The info file goes last, unless every try to remove it fails.  An update_info
\* that has it open keeps writing to a file without a name.
DropInfo(p) ==
    /\ wpc[p] = "rminfo"
    /\ \/ info' = "absent" /\ infoLeft' = Nothing /\ linked' = FALSE /\ UNCHANGED botched
       \/ botched' = TRUE /\ UNCHANGED <<info, infoLeft, linked>>
    /\ Goto(p, "flag")
    /\ UNCHANGED <<dataThere, written, spoiled, published, live, mapped, left, pend, started,
                   canClear, shut, todo, ticks, tpc, snap>>

SetCanClear(p) ==
    /\ wpc[p] = "flag"
    /\ canClear' = TRUE
    /\ Goto(p, "exit")
    /\ UNCHANGED <<disk, live, mapped, left, pend, started, botched, shut, todo,
                   ticks, server>>

\* --m_thread_count, the last thing a worker does.
Exit(p) ==
    /\ wpc[p] = "exit"
    /\ Goto(p, "idle")
    /\ shut' = [shut EXCEPT ![p] = FALSE]
    /\ UNCHANGED <<disk, ctrl, todo, ticks, server>>

-----------------------------------------------------------------------------
(* The timer: update_info on the server thread, when poll has been idle.    *)

\* Nothing to do before the first piece, nor once every piece is complete.
TickDone ==
    /\ tpc = "poll" /\ live /\ MmapFree
    /\ ~started \/ Done
    /\ tpc' = "sweep"
    /\ UNCHANGED <<disk, ctrl, workers, todo, ticks, snap, linked>>

\* The first tick only remembers what is missing.
TickFirst ==
    /\ tpc = "poll" /\ live /\ MmapFree
    /\ started /\ ~Done /\ ~primed
    /\ primed' = TRUE /\ lastLeft' = left
    /\ tpc' = "sweep"
    /\ UNCHANGED <<disk, ctrl, workers, todo, quiet, dirty, idleTicks, snap,
                   linked>>

TickProgress ==
    /\ tpc = "poll" /\ live /\ MmapFree
    /\ started /\ ~Done /\ primed /\ left # lastLeft
    /\ quiet' = 0 /\ dirty' = TRUE /\ lastLeft' = left
    /\ tpc' = "count"
    /\ UNCHANGED <<disk, ctrl, workers, todo, primed, idleTicks, snap, linked>>

TickQuiet ==
    /\ tpc = "poll" /\ live /\ MmapFree
    /\ started /\ ~Done /\ primed /\ left = lastLeft
    /\ quiet' = Smaller(quiet + 1, QuietLimit + 1)
    /\ tpc' = IF quiet' > QuietLimit THEN "quit" ELSE "count"
    /\ UNCHANGED <<disk, ctrl, workers, todo, primed, lastLeft, dirty, idleTicks,
                   snap, linked>>

ShutNothing == shut' = shut
\* quit(): every socket still listed is shut down.
ShutListed == shut' = [p \in Pieces |-> shut[p] \/ Listed(p)]

QuitQuiet ==
    /\ tpc = "quit"
    /\ ShutListed
    /\ tpc' = "count"
    /\ UNCHANGED <<disk, ctrl, wpc, todo, ticks, snap, linked>>

\* Save when delta is over 5 MB, which it can be whenever it is not 0, or when
\* no worker is left.
DecideSave ==
    /\ tpc = "count"
    /\ \/ /\ dirty \/ NoWorkers
          /\ dirty' = FALSE
          /\ tpc' = "serialize"
       \/ /\ ~NoWorkers
          /\ tpc' = "recount"
          /\ UNCHANGED dirty
    /\ UNCHANGED <<disk, ctrl, workers, todo, primed, lastLeft, quiet, idleTicks,
                   snap, linked>>

\* serialize_data under RecvMmap's mutex, then is_uninit without it.
Serialize ==
    /\ tpc = "serialize" /\ MmapFree
    /\ IF mapped THEN snap' = left /\ tpc' = "open"
                 ELSE tpc' = "recount" /\ UNCHANGED snap
    /\ UNCHANGED <<disk, ctrl, workers, todo, ticks, linked>>

\* write_info_file: opening truncates ...
OpenInfo ==
    /\ tpc = "open"
    /\ \/ /\ info' = "empty" /\ infoLeft' = Nothing /\ linked' = TRUE
          /\ tpc' = "write" /\ UNCHANGED snap
       \/ /\ tpc' = "recount" /\ snap' = Nothing
          /\ UNCHANGED <<info, infoLeft, linked>>
    /\ UNCHANGED <<dataThere, written, spoiled, published, ctrl, workers, todo,
                   ticks>>

\* ... and the snapshot reaches the file that was opened, or a part of it does.
WriteInfo ==
    /\ tpc = "write"
    /\ \/ linked /\ info' = "saved" /\ infoLeft' = snap
       \/ linked /\ info' = "cut" /\ UNCHANGED infoLeft
       \/ ~linked /\ UNCHANGED <<info, infoLeft>>
    /\ linked' = FALSE /\ snap' = Nothing
    /\ tpc' = "recount"
    /\ UNCHANGED <<dataThere, written, spoiled, published, ctrl, workers, todo,
                   ticks>>

CountAnyTick ==
    /\ tpc = "recount"
    /\ idleTicks' = Smaller(idleTicks + 1, GiveUpLimit + 1)
    /\ canClear' = (canClear \/ idleTicks' > GiveUpLimit)
    /\ tpc' = "sweep"
    /\ UNCHANGED <<disk, live, mapped, left, pend, started, botched, workers,
                   todo, primed, lastLeft, quiet, dirty, snap, linked>>

\* m_thread_count is read again; timeout is never reset.
CountIdle ==
    /\ tpc = "recount"
    /\ idleTicks' = IF NoWorkers THEN Smaller(idleTicks + 1, GiveUpLimit + 1)
                                 ELSE idleTicks
    /\ canClear' = (canClear \/ (NoWorkers /\ idleTicks' > GiveUpLimit))
    /\ tpc' = "sweep"
    /\ UNCHANGED <<disk, live, mapped, left, pend, started, botched, workers,
                   todo, primed, lastLeft, quiet, dirty, snap, linked>>

\* FileRecvServer::timer: a controller that can be cleared is erased, which
\* runs its destructor: quit(), then 500 ms of sleep.
Sweep ==
    /\ tpc = "sweep"
    /\ IF canClear THEN tpc' = "dtor" /\ live' = FALSE /\ ShutListed
                   ELSE tpc' = "poll" /\ UNCHANGED <<live, shut>>
    /\ UNCHANGED <<disk, mapped, left, pend, started, canClear, botched, wpc,
                   todo, ticks, snap, linked>>

\* FileRecvServer::uninit: the server is told to stop and clears its map.
ServerQuit ==
    /\ tpc = "poll" /\ live
    /\ tpc' = "dtor" /\ live' = FALSE /\ ShutListed
    /\ UNCHANGED <<disk, mapped, left, pend, started, canClear, botched, wpc,
                   todo, ticks, snap, linked>>

\* What a new controller, or a new process, starts from.
FreshMemory ==
    /\ live' = FALSE /\ mapped' = FALSE /\ left' = Nothing /\ pend' = 0
    /\ started' = FALSE /\ canClear' = FALSE /\ botched' = FALSE
    /\ wpc' = AllIdle /\ shut' = NoneShut /\ todo' = {}
    /\ tpc' = "poll" /\ primed' = FALSE /\ lastLeft' = Nothing /\ quiet' = 0
    /\ dirty' = FALSE /\ idleTicks' = 0 /\ snap' = Nothing /\ linked' = FALSE

\* The sleep is over: uninit, and the controller is freed.  What a worker that
\* is still running does from here on is undefined, and not modelled.  Only two
\* steps of a worker are not bounded by its own few instructions: the last read
\* of a socket that quit() no longer knows, and the MD5 of a file of any size.
Free ==
    /\ tpc = "dtor"
    /\ \A p \in Pieces : wpc[p] \in {"idle"} \cup SlowSteps
    /\ FreshMemory
    /\ UNCHANGED disk

\* The process is killed: the mapping is shared with the file, so the data
\* file keeps what memcpy stored.
Crash ==
    /\ FreshMemory
    /\ UNCHANGED disk

-----------------------------------------------------------------------------
Negotiate == \/ FreshInit \/ RemoveInfo \/ RemoveData \/ CreateData
             \/ InitOpenInfo \/ InitWriteInfo \/ ResumeInit \/ Reply

Timer == \/ TickDone \/ TickFirst \/ TickProgress \/ TickQuiet \/ QuitQuiet
         \/ DecideSave \/ Serialize \/ OpenInfo \/ WriteInfo \/ CountIdle
         \/ Sweep \/ Free

\* The steps a worker takes on its own, without waiting for its peer.
WorkerStep(p) == \/ CountChunk(p) \/ SendContinue(p) \/ Delist(p)
                 \/ SeeStatus(p) \/ Claim(p) \/ Verify(p) \/ RenameData(p) \/ DiscardData(p)
                 \/ DropInfo(p) \/ SetCanClear(p) \/ Exit(p)

\* The steps that need the peer, or its failure.
PeerStep(p) == \/ PieceHandshake(p) \/ CopyChunk(p) \/ LoseConnection(p)
               \/ Drain(p)

Next == \/ Negotiate \/ Timer \/ ServerQuit \/ Crash
        \/ \E p \in Pieces : WorkerStep(p) \/ PeerStep(p)

Spec == Init /\ [][Next]_vars

(***************************************************************************)
(* Fairness.  The server thread goes round its poll loop and the workers   *)
(* are ordinary threads; a socket that quit() has shut down makes receive  *)
(* return.  A peer owes nothing: it may stay silent for ever, before its   *)
(* last frame and after it.                                                *)
(***************************************************************************)
ThreadFairness ==
    /\ WF_vars(Timer)
    /\ \A p \in Pieces : /\ WF_vars(WorkerStep(p))
                         /\ WF_vars(shut[p] /\ LoseConnection(p))

FairSpec == Spec /\ ThreadFairness

-----------------------------------------------------------------------------
(* What is checked.                                                         *)

Lefts == {f \in [Pieces -> Nat] : \A p \in Pieces : f[p] <= PieceLen[p]}

\* The type of every variable; no piece ever misses more than its length.
TypeOK ==
    /\ dataThere \in BOOLEAN /\ written \in Lefts /\ spoiled \in BOOLEAN
    /\ info \in {"absent", "empty", "cut", "saved"} /\ infoLeft \in Lefts
    /\ published \in BOOLEAN
    /\ live \in BOOLEAN /\ mapped \in BOOLEAN /\ left \in Lefts /\ pend \in Nat
    /\ started \in BOOLEAN /\ canClear \in BOOLEAN
    /\ botched \in BOOLEAN
    /\ wpc \in [Pieces -> WorkerPCs] /\ shut \in [Pieces -> BOOLEAN]
    /\ todo \in SUBSET Pieces
    /\ tpc \in ServerPCs /\ primed \in BOOLEAN /\ lastLeft \in Lefts
    /\ quiet \in Nat /\ dirty \in BOOLEAN /\ idleTicks \in Nat
    /\ snap \in Lefts /\ linked \in BOOLEAN

\* Whatever the info file says has arrived is in the data file, in every state,
\* so also after a kill at any moment: a resumed transfer skips nothing that is
\* missing (update_file_piece_data, serialize_data, RecvMmap::init).
ResumeSafe ==
    (dataThere /\ info = "saved") =>
        \A p \in Pieces : PieceLen[p] - infoLeft[p] <= written[p]

\* A file is handed to check_file only when every byte of every piece has been
\* stored, in this run or in one before it: the MD5 comparison fails only when
\* the sender sent other bytes than it hashed.
VerifyComplete ==
    \A p \in Pieces : wpc[p] = "verify" => dataThere /\ written = PieceLen

\* Workers that finish the last pieces together check, rename and clean up
\* once: only one of them gets past is_uninit (one_piece_done).
Finishing(p) == wpc[p] \in {"verify", "rename", "discard", "rminfo", "flag"}
CheckOnce == \A p, q \in Pieces : Finishing(p) /\ Finishing(q) => p = q

\* The timer does not clear a controller whose file is being checked: it may have
\* seen the file incomplete and counted no worker, but a worker that has completed
\* it since is counted when it looks again (update_info, FileRecvServer::timer).
CheckNotSwept ==
    tpc = "sweep" /\ canClear => \A p \in Pieces : wpc[p] \notin {"verify", "rename", "discard", "rminfo"}

\* With no transfer under way, a file that has data on disk can be negotiated
\* for again, either afresh or from its record.
Negotiable == (tpc = "poll" /\ ~live /\ dataThere) => info \notin {"empty", "cut"}

\* A file on disk becomes one that can not be negotiated for only by a kill while
\* its info file is open, truncated and not yet written, or after a write of the
\* info file has failed (write_info_file, RecvMmap::init).
OnlyFaultsBlock ==
    [][Negotiable /\ ~Negotiable' =>
           info = "cut" \/ (tpc \in {"write", "initWrite"} /\ Crash)]_vars

\* A file whose record says that nothing is missing is never checked: a sender is
\* told to send nothing.  From the first piece on, the end of a transfer leaves no
\* such file behind at any moment when no worker is running, be it given up, ended
\* with its server or killed then, unless the rename or a removal that ended it had
\* failed (one_piece_done, update_info, Reply).
NeverChecked == dataThere /\ info = "saved" /\ infoLeft = Nothing
OnlyFaultsAbandon == started /\ NoWorkers /\ NeverChecked => botched

\* The receiver keeps the promises of ResumableFile: what the info file lets a
\* later transfer skip is its record, as long as there is a data file.
Recorded == [p \in Pieces |-> IF dataThere /\ info = "saved"
                               THEN PieceLen[p] - infoLeft[p] ELSE 0]

Promise == INSTANCE ResumableFile WITH stored <- written, recorded <- Recorded

KeepsPromise == Promise!Spec

\* A controller that has been contacted for a piece leaves the map, by being finished
\* or because of quit() and giving up, unless from some moment on one of its workers
\* is held by a sender that neither sends nor closes after its last byte: quit() does
\* not know that socket any more (one_piece_done, quit).
Cleared ==
    \/ (live /\ started) ~> ~live
    \/ \E p \in Pieces : <>[](wpc[p] = "drain")

-----------------------------------------------------------------------------
(* The inductive invariant behind the safety properties.                    *)

Negotiating == tpc \in {"rmInfo", "rmData", "create", "initOpen", "initWrite", "reply"}
Ticking     == tpc \in {"quit", "count", "serialize", "open", "write", "recount", "sweep"}

\* Outside a controller's life there are no workers, no pieces to connect for
\* and no mapping, but for the one a negotiation has just made.
Lifetime ==
    /\ Negotiating \/ tpc = "dtor" => ~live
    /\ Ticking => live
    /\ (~live /\ tpc # "dtor") =>
          NoWorkers /\ todo = {} /\ (mapped => tpc \in {"initOpen", "initWrite", "reply"})
    /\ tpc \in {"initOpen", "initWrite", "reply"} => mapped
    /\ tpc \in {"rmData", "create"} => info = "absent"

\* A worker that may still store data has a piece that is not complete; one that
\* has seen everything complete is right.
WorkerKnows ==
    \A p \in Pieces :
        /\ wpc[p] \in {"recv", "copied", "stored"} => left[p] > 0
        /\ wpc[p] = "copied" => pend <= left[p]
        /\ wpc[p] = "claim" => Done
        /\ p \in todo => wpc[p] = "idle" /\ left[p] > 0

\* Only one thread at a time is between memcpy and the end of the critical section.
MutexHeld == \A p, q \in Pieces : wpc[p] = "copied" /\ wpc[q] = "copied" => p = q

\* What memory counts as received is in the file; once unmapped nothing is missing.
MemoryStored ==
    /\ mapped => /\ dataThere
                 /\ \A p \in Pieces :
                       PieceLen[p] - left[p] + (IF wpc[p] = "copied" THEN pend ELSE 0)
                           <= written[p]
    /\ (live \/ tpc = "dtor") /\ ~mapped => Done

\* So is what the snapshot on its way to the info file counts as received.
SnapshotStored ==
    (tpc \in {"open", "write"} /\ dataThere) =>
        \A p \in Pieces : PieceLen[p] - snap[p] <= written[p]

\* The worker that unmapped the file is alone with it.
Finisher == \A p \in Pieces :
    Finishing(p) => ~mapped /\ \A q \in Pieces : Finishing(q) => p = q

FinisherSees == \A p \in Pieces :
    /\ wpc[p] \in {"verify", "rename"} => dataThere /\ written = PieceLen
    /\ wpc[p] = "rename" => ~spoiled

\* The inductive invariant: it implies ResumeSafe, VerifyComplete and CheckOnce.
IInv == /\ TypeOK /\ Lifetime /\ WorkerKnows /\ MutexHeld /\ MemoryStored
        /\ SnapshotStored /\ ResumeSafe /\ Finisher /\ FinisherSees

=============================================================================

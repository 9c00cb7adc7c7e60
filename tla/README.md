# A TLA+ verification of android-nativesocket

android-nativesocket is a small C++/Java library for Android: resumable file
transfer over several TCP connections at once, a DNS client, and the tool box
both stand on. This directory models its core as TLA+ modules, checks them with
TLC on small instances, and proves the main results with TLAPS for every value of
the constants.

In what follows `cpp/` is `src/nativesock/src/main/cpp/`, `java/` is
`src/nativesock/src/main/java/com/github/yutianzuo/nativesock/`, and a file named
alone is the one of that name in `src/`.

## 1. Inventory

| component | state | operations | what is hard |
|---|---|---|---|
| `RecvMmap` (`cpp/tcptransfile/recvmmap.h`) | `m_piece_infos` (begin, length, missing, mapping), `<md5>.data` mapped MAP_SHARED, `<md5>.info` | `init` (first transfer or resume), `status`, `serialize_data`, `write_info_file`, `uninit` | two files that must agree after a kill at any moment; page arithmetic |
| `TransRecvCtrl` (`transrecvctrl.h`) | `m_thread_count`, `m_socks_trans`, the timer's counters, `m_can_clear` | `add_socket`, worker thread, `one_piece_done`, `check_file`, `update_info`, `quit`, destructor | detached threads, several of them finishing together, timer against workers, freeing |
| `FileRecvServer` (`server.h`) | `m_map_trans`, the listening socket, `m_quit` | the poll loop, `f_handshake`, `p_handshake`, `timer`, `quit` | one thread does everything, with reads that block |
| `SendCtrl` (`transsendctrl.h`) | the piece infos it was told, one thread for each, the toll | `init`, `send_file`, the piece thread, the progress | threads that share a counter and a callback; stop-and-wait against a receiver that may go away |
| framing (`transdata/transdata.h`, `transfiletcprecv.h`, `transfiletcpsender.h`, `datadef.h`) | the bytes buffered so far | `build_trans_data`, `check_data`, `serialize_data`, `deserialize_data` | a frame arrives in fragments; a bad checksum; a record cut off by a kill |
| sockets (`cpp/socket/*.h`) | one descriptor, a buffer | `create`, `accept`, `connect`, `connect_timeout`, `send`, `receive`, `close` | partial sends, descriptor reuse |
| `ThreadPool` (`toolbox/threadpool.h`, `semaphore.h`) | task queue, counters, condition variable | `commit`, worker loop, `quit` | lost wake-ups, shutdown |
| `LogUtils` (`toolbox/logutils.h`) | queue of records, writer | `init`, `log`, `uninit` | records in flight at shutdown |
| JNI (`jni.cpp`) | the global server, the global reference to the sending screen | the exported functions | called from any Java thread |
| DNS (`netutils/dns.h`, `Dns.java`) | one query, a list of servers, a cache | `query`, reading a reply, retry, `getHostIPFromCache`, `addServerIP` | retry, compression pointers, expiry, replies to other queries |
| checksums (`transdata/Crc32.cpp`, `CBMD5.h`) | a CRC passed on, an MD5 context | eleven variants of `crc32`, `Update`, `Final`, `GetMD5` | unrolled loops and their tails; a bit count in two words |
| tool box (`toolbox/miscs.h`, `string_x.h`, `stlutils.h`) | none | `enum_dir`, `split_string`, wrappers of system calls | a walk that calls back, with errors in the middle |
| demo application (`src/app`) | Wi-Fi Direct connection state | Android callbacks | callbacks in any order |

How they interact: the Java side starts `FileRecvServer::start_server` on a thread
of its own, which accepts connections, reads one message from each, and either
negotiates a file (makes a `RecvMmap`, answers with the piece infos, puts a
`TransRecvCtrl` in the map) or hands the socket of one piece to that controller,
which starts a worker for it. The worker copies frames into the mapping under
`RecvMmap::m_mutex` and answers each with `continue`; the worker that completes
the last piece unmaps, checks the MD5, renames the data file and sets
`m_can_clear`. When poll is idle the server thread runs `timer`, which for every
controller saves the record, counts silence, and erases what can be cleared.
`sendFile` walks through a directory and makes a `SendCtrl` for each file, which
asks for the file, gets the piece infos, runs one thread for each piece that is not
complete, and reports progress through the callback in `jni.cpp`. Both `sendFile`
and `recvFile` restart the one logger. A screen that knows a host name asks `Dns`,
which looks in its cache, then at the system's resolver or at its own list of
servers through `DNSQuery`, in the order asked for.

What makes each correct:

* `RecvMmap` and `TransRecvCtrl`: the record never claims what the data file does
  not hold; a file is checked when and only when it is complete, once; an
  unfinished transfer can be resumed; a controller does not stay for ever.
* the piece layout: pieces tile the file and each can be mapped.
* sender and receiver of a piece: every stored byte is where it belongs, the piece
  gets completed, and neither side waits for the other for ever.
* `SendCtrl` and `sendFile`: every file is tried once, no frame is missing in the
  progress, nothing deleted is used, a call comes back.
* the server: a running server can be told to stop and hears it; a file has one
  controller.
* the thread pool and the log: every task taken on is run, and every record
  written, once, in the order promised.
* the DNS client: names and addresses are read as they were written, a host gets
  its own addresses, no server is passed over, a lookup ends.
* the checksums and the record: the value depends on the bytes alone, not on how
  they were portioned; a record that is cut off or damaged is refused.

The hazards, each with its line and the properties that cover it, are in
`PROJECT.json`.

## 2. Modules

| module | what it is |
|---|---|
| `RecvTransfer` | one received file: `TransRecvCtrl`, `RecvMmap`, both files on disk, worker threads, the server thread's share, kills |
| `ResumableFile` | the abstract specification it implements |
| `RecvTransferProofs` | theorems: what is on disk and who checks it, the refinement, when a controller is cleared, what makes a file impossible to negotiate for |
| `PieceLayout` | how `RecvMmap::init` cuts a file into pieces |
| `PieceStream`, `PieceStreamProofs` | one piece on its way: the sender's thread, the receiver's worker, the connection between them; that no byte is misplaced and the two take turns |
| `SendFile`, `SendFileProofs` | `sendFile`: the walk, `SendCtrl`, its threads and the progress, `g_obj_send`, the logger, which `recvFile` replaces too; and theorems |
| `RecvServer`, `RecvServerProofs` | the accept loop, its clients, its life from button to button, `g_recv`, and theorems |
| `ThreadPool` | `stdx::ThreadPool` |
| `TaskPool` | the abstract specification it implements |
| `ThreadPoolProofs` | theorems about the pool, the refinement among them |
| `LogUtils`, `LogUtilsProofs` | logging threads, writer, `init`, and theorems |
| `DnsMessage` | the query and the reading of a reply, with the server that writes one |
| `DnsLookup` | `Dns`, the JNI functions behind it, the polling of one socket |
| `DnsProofs` | theorems about `DnsMessage` and `DnsLookup`: how replies are read, whose addresses are found |
| `Crc32`, `Md5`, `PieceRecord` | the algorithms as operators: `Crc32.cpp`, `CBMD5.h`, the piece record of `datadef.h` |
| `Checksums` | a caller that feeds them in portions, and their reference definitions |
| `FileProofs` | theorems about `PieceLayout` and `Checksums`: the arithmetic of a file, its digest and checksums |
| `MC...` | the instance of each module for TLC; `MCFile` is that of `PieceLayout` and of `Checksums` |

A definition placed right before another with the same parameters, and named for
what it leaves out, is a mutant: the other definition as a plausible bug would
have it. `PROJECT.json` lists which property each one breaks. Each module has one
`TypeOK`, which documents its variables; where there is a proof module it is a
conjunct of the inductive invariant and proved with it, and no run spends time on it
otherwise.

### RecvTransfer

Variables come in four groups, named in the module: the disk (`dataThere`,
`written`, `spoiled`, `info`, `infoLeft`, `published`), which survives a kill; the
controller (`left` is `lenth_left` of each piece, `mapped` is `~is_uninit()`,
`pend` what the holder of `m_mutex` has copied and not yet counted); the workers
(`wpc`, a program counter for each piece, and `shut`, what `quit()` did to the
socket); and the server thread (`tpc` and the counters of `update_info`).

Actions follow the code, cut where another thread may come between: a frame is
`CopyChunk` (lock, `memcpy`), `CountChunk` (`lenth_left -= len`, unlock), then
`SendContinue` or `Delist`, `Drain`, `SeeStatus`, `Claim`, `Verify`, `RenameData`
or `DiscardData`, `DropInfo`, `SetCanClear`, `Exit`. The timer is `TickDone`,
`TickFirst`, `TickProgress` or `TickQuiet` (the early returns and branches of
`update_info`), `QuitQuiet`, `DecideSave`, `Serialize`, `OpenInfo`, `WriteInfo`,
`CountIdle`, `Sweep`, and `Free` for the end of the destructor. A first transfer
is `FreshInit`, `RemoveInfo`, `RemoveData`, `CreateData`, `InitOpenInfo`,
`InitWriteInfo`; a resumed one `ResumeInit`; both end in `Reply`.

What is abstracted:

* bytes: `written[p]` is how long a prefix of piece `p` has been stored, and
  `spoiled` says that some byte of it was not the one the MD5 was taken of;
* the rate: `delta > 5 MB` may hold as soon as some progress was seen since the
  last save (`dirty`); `left_total` is compared piece by piece, which is the same
  because what is missing only decreases;
* `m_thread_count` and `m_socks_trans` follow from where the workers are;
* the limits 30 and 2 are `QuietLimit` and `GiveUpLimit`, and the counters they
  are compared with stop one above them;
* a sender contacts a piece at most once in a negotiation, as `SendCtrl` does, so
  `get_piece_info_by_sid` finds its piece;
* `write_info_file` looks at nothing that may fail: the open may leave the file as it
  is, the write may leave a part of a record (`"cut"`), which is refused as an empty
  file is. In the same way the rename at the end and the removals may fail (`botched`);
  that a name is missing, and the retries of the last removal, come to the same;
* a kill is a kill of the process: pages of a shared mapping survive it. A loss of
  power is not modelled;
* what a worker does with a controller that has been freed is undefined and not
  modelled: behaviours go on as if the worker had stopped. `SlowSteps` says which steps of a worker may take more than
  the destructor's 500 ms: reading a delisted socket and the MD5 of a large file in
  the run `recv`, none in the run about liveness.

### PieceLayout

The loop of `RecvMmap::init`, one action a turn, with the page size, the
threshold, and the largest number of pieces as constants, and a failing `mmap` as
an action of its own.

### PieceStream

The sender's thread (`Connect`, `SendFrame`, `TakeAnswer`, `CloseSender` and the
ways they fail) and the worker (`Receive`, `StoreChunk`, `Answer`,
`CloseReceiver` and theirs) with a connection that delivers a prefix of what was
sent at a time. On a link that has fallen silent `send` may succeed
and the frame be lost (`SendLost`), and `recv` may wait for ever, as it has no timeout;
that the system breaks it off (`WaitBroken`) may happen and is owed by nobody. A frame is a head that carries the length, and units that carry
their place in the piece, so that `Genuine` can tell whether a byte was stored
where it belongs. `check_data` is `Rejected`, `Whole` and `Checked`: a buffer
whose length is not the one the head names is not a message yet or never will be.
`Connect` begins a connection of a transfer that may have been resumed from a
record that lost some of what was stored. `upset` remembers that the connection
has been damaged, has delivered an answer in parts, or has been given up as too
slow: what the code promises about waiting it promises without these.

### SendFile

Each screen of `Screens` sends once what `Root` gives it. A call of `sendFile` is a
program counter (`pc`) with a stack of `enum_dir` calls: `Visit` makes a `SendCtrl`
for a file, opens a directory, or passes over what is neither; `NextEntry` takes
entries in any order, `CloseDir` ends one call. `dir_file_exist` trims a path before
`lstat` sees it while `opendir` and the callback get it as it is, so `Files` and
`Children` are what there is, `Trim` what becomes of a name, and `IsFile` and `IsDir`
what the walk takes a path for; `lstat` may fail for any path (`refused`).
`Negotiate` starts a thread for each piece that misses frames (`Grants`), and `Join`
waits for those that were started. A piece's thread connects, sends a frame, adds to
the toll under the mutex (`AddToll`), reads it again without (`ReadToll`), and runs the
callback in the three reads of `g_obj_send` that `jni.cpp` makes (`TestRef`,
`ClassOfRef`, `CallBack`); then it counts the frame off (`Count`) and waits for the
answer. A failure is logged, in two steps (`Fails` gets the logger, `Log` uses it), and
one to read the file twice (`ReadFails`, `LogRead`, `LogAgain`).

A receipt of `Receipts` is a call of `recvFile`, as far as the logger goes:
`LogUtils::init`, threads that get the logger and use it, and after its return
(`ReturnReceipt`) the last of the detached threads, which may still log
(`LastThreadEnds`). Deleted references and loggers are what is not in `refs` and
`loggers`, and using one sets `aborted`, after which no step is taken. `overlap`
remembers that two screens have been sending at once, `mixed` that a receipt has gone
on beside a send or another receipt: the button of one screen prevents neither a
second screen nor a server that runs meanwhile.

### RecvServer

One file is not opened up here, that is `RecvTransfer`; what matters is the map,
the one thread that accepts, reads a request, answers, waits for the end of the
handshake, ticks, and sees `m_quit`; the clients, of every kind (`AllKinds`),
silent ones included; and the shared `g_recv`, set and cleared by the thread
`recvFile` runs on and read by the thread of the button. `screens` counts how often
Android created the receiving screen anew, which is the way to a second `recvFile`
while the first runs. `usedFreed` records a call of `quit()` on a deleted server.

### ThreadPool

What is done under the mutex is one step, except where the quit sign is looked at, as
`quit` stores it without the mutex: a worker's `Evaluate` (the predicate of `wait`),
`Block`, `SeeQuit` or `SeeOpen` (the look after `wait`) and `Take` are a step each, and
so are a commit's `Admit` (its second look) and `Push`; `mutex` says who keeps it from
one to the next.
`StartTask` is a step after `Take`, as the code counts a worker as busy only after it
unlocked. A task may throw (`ThrowTask`, which leaves the counter as it is), a
thread may not start (`GrowthFails`), the order may change at any time. Committing
after the destructor has returned is not modelled.

`TaskPool` is what remains when threads, mutex and counter are forgotten: tasks
wait, run, have ended, or were declined; one may begin when fewer than `Limit` run
and the pool is not closed, from the end that the order names; and the pool goes
only when nothing runs, declining what waits. It is closed when `quit()` has got the
mutex, not when the sign is stored: a commit or a worker that looked before may still
add or begin a task in between. `KeepsPromise` maps a task that a
worker has taken to one that runs, and every way of not being run (refused at
either look at the quit sign, lost with a thread that did not start, dropped with
the queue) to one that was declined.

### LogUtils

Instances are numbered in the order they are made; each has its queue, its file
and its writer. A logger looks at `g_instance`, may make one, looks whether the
file is open, and puts its record on the queue: four steps between which `init` may
replace the instance. What a logger does with a deleted instance is undefined, and
modelled as nothing but the flag `dangled`. `init` deletes what `g_instance` points
to after it has joined the instance it ended; when those differ, the program
terminates (`Abort`). `init` itself is called by one thread at a time.
The file may not be there to be opened (`Construct`), then `log` takes nothing on and
the end marker goes nowhere; and a write may fail at any place (`Put`), after which the
stream takes nothing more. `failed` remembers either.

### DnsMessage

The client's side is operators that work on sequences of bytes, named as in
`dns.h`: `dns_query`, `get_message_name`, `calc_message_name_size`, `analyze_rrs` and
the rest, with offsets from 0 and every bounds check where the code has it.
`get_message_name` recurses as the code does, but counts its reads: one that has read
at more places than the reply has bytes was somewhere twice, and the code would never
return; the result then is one no property accepts. The server is the state machine: it
begins with the question, and each step appends one answer of some type, class and
data, its names written in any way that RFC 1035 allows: in full, as labels that
end in a pointer, or as a pointer to any name that is already there. So every state
holds a reply that a server may send. `placed` remembers which name is at which
offset, and `truth` which addresses were meant. What is assumed of the constants:
labels are printable ASCII of at most 63 bytes, and a name with its end has 255 at
most, as RFC 1035 has it; a host asked for has a dot, and its query fits the 256
bytes of its buffer (`dns.h:177`); and answers are few enough for one byte
of their 16-bit number.

### DnsLookup

The monitor of `Dns` lets one lookup in at a time, so one set of locals is enough,
however many threads wait: `Enter` (the cache), `Way` (the resolver or the servers,
whichever comes first, then the other), `ReadSize` and `CopyServer` (`get_vector`,
an element at a time), `SendQuery`, `Datagram` or `NoDatagram` for one poll of the
socket, `Finish` (`saveToCache`). `addServerIP` takes no monitor and comes at any time, from
several threads (`Adders`), its look at the list and its insertion being two steps
(`Contains`, `AddServerIP`); so does `SetCacheTimeInSeconds`. An address is known by the
host it is of; a query by its host and its `trans_id`, which `IdOf` gives for the second
it is sent in: any function, as `rand()` cut to 16 bits need not tell two seconds apart.
A `Datagram` is a reply to any query sent so far, and is understood if its id is that of
the query waited for. The clock goes on or is set back (`Tick`). The product `cacheTime * 1000` wraps as an `int` does, with
`IntMax` for its largest value.

### Crc32, Md5, PieceRecord, Checksums

A word is the set of the positions of its 1 bits, so that `^` is the symmetric
difference and a shift moves positions. `Lookup` is the table as its comment in
`Crc32.cpp` defines it, and each variant is its loop body with the way it is
unrolled. `Md5` has the buffering of `Update`, the count of bits in two words, and
the padding of `Final`; `Transform`, the compression of a block, is left abstract:
it appends the block to a list, so two contexts are equal exactly when every
compression function would make them so. `PieceRecord` is the bytes of the record
of a file's pieces, as `serialize_data` writes and `deserialize_data` reads them.
`Checksums` feeds them: from each state a portion more has been taken (`FeedCrc`,
`ReadPortion`), or written to the info file (`WriteRecord`), so every state is also
one that a kill may leave. The references are the division of polynomials
(`Remainder`) and the padded message of RFC 1321 (`PaddedBlocks`).

## 3. What is checked

| run | question | instance | result |
|---|---|---|---|
| `recv` | is the disk right after a kill at any step, is a file checked once, only when complete and by a controller the timer does not give up, what may block a file or leave it unchecked, does the receiver implement `ResumableFile` | two pieces of 2 and 1 units, frames of 1 or 2, limits 1 and 1 | holds |
| `recv_live` | does a contacted controller leave the map, unless a sender holds it | two pieces of 1 unit, limits 1 and 1 | holds |
| `stream` | is every stored unit where it belongs, does each side get free of a connection, and without a fault does an answer mean that all that was sent is stored, is no one waiting for the other, and is the piece completed | 5 units, frames of 2, buffer of 4, 3 connections, all faults, answers in 2 parts | holds |
| `stream_crc` | does a bad checksum close the connection | the same, one connection | violated |
| `send` | is nothing deleted used again, is the whole reported | two screens; a directory with a file, and one file; pieces of 0 to 2 frames; one receipt | holds |
| `walk` | is each file tried once under its name, does the toll lose no frame and start anew, does a call come back | one screen, a tree of 4 directories and 5 files with hidden and trimmed names and a fifo, two pieces of 0 to 2 frames | holds |
| `server` | can a running server be told to stop, does it hear it, has a file one controller | one file, two servers, a backlog of 1, clients of every kind, one new screen | holds |
| `pool` | is each task run once, does nobody sleep while a task waits, is no worker added while the destructor joins, does it return, does the pool implement `TaskPool` | 3 tasks, 1 worker growing to 2 | holds |
| `log` | do records reach the file once and in order, is nothing cut off, does `init` return | 2 loggers with a record each, two calls of `init`, up to 5 instances, files that fail | holds |
| `dns_message` | is every name read as it was written, and every accepted reply understood | 2 hosts, 3 names of 1 or 2 labels, 2 addresses, up to 2 answers of 7 types and classes, with every compression | holds |
| `dns` | does a host get its own addresses, is no server passed over, does a lookup end | 2 hosts, 2 servers and a third added by two threads, 2 polls, a clock of 3 seconds, two of which share an id | holds |
| `file` | can each piece be mapped, do the pieces tile the file; does every variant of `crc32` give the CRC of the bytes, MD5 the blocks of the padded message, is only a whole record read | pages of 3, 5 pieces at most, all sizes to 60, all requests from -1 to 6; 84 bytes for the CRC, files of 12 lengths around 56, 64 and 128 for MD5, records of up to 2 pieces with numbers beyond 2^31, every bit flipped | holds |

**Bounds.** Two pieces are enough for every interaction between workers (finishing
together, one holding the mutex while the other waits) because they share only the
mutexes, the sum of what is missing and `uninit`; a piece of two units is the
shortest that can be partly received, cut by a longer frame, saved and resumed. The
limits only delay the timer: with 1 a tick below the limit and one above it both
occur. Five units in frames of two are two full frames and a short last one, so
that there is a first, a middle and a last frame, and three connections are a first
one, one that resumes it, and one that resumes a resumed one. The server sees one
file, as files share only the loop, and the loop serves one connection at a time
whatever it is about; two servers are enough for one to come up while another is
going down. Two workers and three tasks let a task wait while both are busy, and
two notifications meet one sleeper. The two calls of `init` are needed for a logger
that was about to make an instance in the first and does so in the second
(`Abort`). Two screens that send are two threads in every place where the shared
reference and logger are read and dropped, and the piece threads of one screen meet
at the toll; one receipt beside a send shows what two show beside each other, for both
replace the logger in the same way and the receipt's threads only use it;
a directory in a directory is the least in which the name to be sent differs from the
file's own, and the tree has a name for each thing that trimming may make of one: a
file, a directory, the directory above, and nothing there is. Two answers let the second point at a name in the
first, at a name the first itself ended with a pointer, and at the question. In
`dns` the two hosts may be asked for in the same second, in different ones, and in
two with the same id, a server that both threads found missing moves the list by two
while it is copied, and one of the two cache times overflows. 84 bytes hold one unrolled round of every variant, with a tail, in
all combinations of portions from 1 to 73; a word of the count of bits has
`CountMod` = 1024 values instead of 2^32, so a file of 128 bytes is past its low word as one of 512 MB is in
the code. `MaxClock`, `MaxConns`, `MaxInstances`, `MaxServers`, `MaxBacklog`,
`MaxRecords`, `Rotations` and `MaxAnswers` are bounds of the models, not of the code.

**The violated run**, `stream_crc`, is a disagreement between the code and what it
says of itself: `check_data` returns false for a whole frame with a wrong checksum
just as for one that is not whole yet, and `receive` goes on waiting, where a
comment of the sender (`transsendctrl.h:251`) says that the server closes the
connection at once. The peers get free of it after the receiver's minute (`Ends`).

**Conditions** that the passing properties carry are limits of the code too:

* `StopAndWait` and `Completes` of `PieceStream` hold while `~upset`. One `recv`
  that returns anything is an answer to the sender (`socketbase.h:471`), so an
  answer in two parts lets it send two frames for one; a receiver whose buffer then
  holds two frames matches neither (`transdata.h:74`), and both wait until the
  receiver's minute is over. `Genuine` and `Ends` hold with all faults.
* `Reachable` and `OneController` of `RecvServer` hold until the screen is created
  anew while it receives: the deleter of `recvFile` clears `g_recv` whatever it
  points to (`jni.cpp:247`).
* `QuitHeard` has a second outcome, that a client which says nothing holds the
  server (`Held`): its first read has no limit (`server.h:84`).
* `Cleared` is for a controller that was contacted for a piece, and has a second
  outcome, that a sender which neither sends nor closes after its last byte holds a
  worker (`transrecvctrl.h:358`): `quit()` does not know its socket any more.
* `OnlyFaultsBlock` excepts kills and failed writes of the info file, and
  `OnlyFaultsAbandon` failed renames and removals, and a transfer that is killed or freed
  while a worker is running.
* `Ends` excepts a sender that waits for an answer, and a worker that drains, on a link
  that has fallen silent: neither `recv` has a timeout.
* `OnlyOverlapAborts` holds until two screens send at once or a receipt goes on beside
  a send or another receipt, and `WholeIsShown` until two screens send at once.
* `EachTriedOnce` is about the files that the walk can see: not those that trimming
  their path makes others of, or below such a directory, nor what `lstat` fails for. It
  gives up what it says of the whole when a directory cannot be opened.
* `InOrder`, `NothingCutOff` and `ReachesFile` say of a file that could not be opened or
  written that it holds a beginning of the records, in order.
* `KeepsPromise` of the pool forbids to take on or begin a task from the moment `quit()`
  returns, not from the moment it stores the sign.
* `CachedForHost` excepts hosts asked for with the same id, and `NoServerSkipped`
  the last servers of the list, as many as were added meanwhile.
* `Understood` allows a refusal when an alias makes an answer shorter than 16 bytes
  or there is no answer.

**What the models show and no line of the repository denies.** These are reached in
the models, or read off them, and are worth knowing; none contradicts a comment, a
test or a document, so none is listed as a finding.

* receiver: a peer that falls silent after its last byte is never timed out, as
  `update_info` returns early once all has arrived (`transrecvctrl.h:101`, drain at
  `:358`), and keeps its file from being checked and its controller in the map; a kill between the save of a complete record and the check leaves a file
  nobody checks (`:230`); a kill between truncation and write of the info file
  blocks the file for ever, and so does a full disk (`recvmmap.h:212`); a rename that
  fails leaves the data under its MD5 and nobody is told (`transrecvctrl.h:281`); the destructor's half second is all
  that keeps a worker in the drain or in the MD5 from a freed controller (`:54`); an
  MD5 read error counts as the end of the file (`CBMD5.h:454`); the version of the
  record is written and never compared (`datadef.h:74`).
* server: a file handshake that no piece handshake follows is never cleared
  (`server.h:166`, `"told"` in `RecvServer`); the timer runs only when poll
  has been idle (`server.h:56`).
* pool: a worker counts as idle until it has left the mutex with its task, so the
  pool may not grow when it should (`threadpool.h:83`); a task may begin, and one be taken
  on, after the quit sign was stored (`:68`, `:168`); a thread that cannot be
  started loses the task without a word (`:170`).
* sender: `send_file` returns true when every piece failed (`transsendctrl.h:110`);
  `sendFile` overwrites its result, so errors never reach the user (`jni.cpp:217`); a
  host that is not resolved gives an empty address and so the device itself
  (`jni.cpp:120`); a directory that cannot be opened ends the whole walk
  (`miscs.h:433`); a file whose name ends in a blank is passed over, or sent because
  another one without it is there (`:291`), and so is, without a word, what `lstat`
  fails for (`:460`); the sender waits for an answer for ever when the receiver vanishes
  after it acknowledged the frame (`transsendctrl.h:255`); a refused connection makes `connect_timeout` succeed
  (`socketbase.h:402`).
* log: where the log's directory is missing nothing is logged, and nobody is told
  (`logutils.h:134`); `recvFile` takes the logger from under a send's threads and the
  other way round (`jni.cpp:135`, `:239`).
* DNS: two threads that add the same server may add it twice (`Dns.java:50`); a clock set
  back keeps an entry fresh (`Dns.java:80`); a host without a dot asks for the root (`string_x.h:343`); an alias that is
  all pointer has 14 bytes and is refused unless something makes up for it
  (`dns.h:362`), a reply without answers always is unless something follows the
  question (`dns.h:525`); `cacheTime * 1000` overflows (`Dns.java:80`), which
  may make entries stale at once; the monitor is held for a whole lookup, cached ones waiting.

**Fairness.** In `RecvTransfer`, `ThreadFairness`: the server thread goes on round
its loop, workers are ordinary threads, and `receive` on a socket that has been shut
down returns. The first also assumes that connections do not arrive so fast that
poll never times out, as the timer runs only then. Nothing is assumed of a peer. In
`PieceStream` threads run, what was sent arrives or the connection fails, and the
timer shuts a quiet one; a sender on a silent link is owed nothing. In `RecvServer` the loop runs, clients other than the
silent ones say what they have to say, and `recvFile`'s thread runs. In
`ThreadPool` and `LogUtils` threads run, tasks end, and a thread that asks for a
mutex again and again gets it (strong fairness, for the pool, whose workers take
the mutex over and over). In `DnsLookup` the thread inside the monitor runs, which
is bounded work and bounded sleep; datagrams, the clock and other callers are owed
nothing. In `SendFile` the threads run where they do not wait for the network; the
network and receipts are owed nothing either, and `OnlyNetworkBlocks` says where that leaves a
call. A kill, a fault and the user are never fair.

**Deadlock** is checked in `recv`, `recv_live` and `dns`. The others end: a piece is
complete or the connections used up, the last server or the pool is gone, no one
sends or logs any more, the data is fed.

## 4. What is proved

Each proof module states one inductive invariant `IInv`, proves that `Init` implies
it and that every step keeps it, one lemma or step for each action, and takes the
theorems from there. No proof assumes more than the named assumptions on the
constants.

`RecvTransferProofs`, for every set of pieces, all lengths, frame lengths and
limits (a piece is not empty, a frame carries something, limits are natural
numbers):

* `Invariance`: `Spec => []IInv`. `ResumeSafe` is not inductive: that the record
  is right depends on the snapshot about to be written (`SnapshotStored`), which
  depends on what memory counts (`MemoryStored`), which depends on a chunk being
  copied before it is counted, by one holder of the mutex (`MutexHeld`,
  `WorkerKnows`), and on no worker of an earlier controller being around
  (`Lifetime`). `CheckOnce` needs `Finisher`, and `VerifyComplete` needs both
  (`FinisherSees`).
* `TypeInvariant`, `ResumeSafety`, `VerifyCompleteness`, `CheckedOnce` follow.
* `Refinement`: `Spec => KeepsPromise`. Each step of the receiver is a step of
  `ResumableFile` or a stutter; the steps that change its variables are
  `CopyChunk` (`Store`), `WriteInfo` and the like (`Record`), `RenameData`
  (`Publish`) and the removals (`Discard`).

More invariants are added to that for each of three results:

* `FaultsBlock` (`OnlyFaultsBlock`): an info file that is truncated is one that is being
  written, or was when the process was killed (`Truncated`), and one that is cut was
  not written whole.
* `FaultsAbandon` (`OnlyFaultsAbandon`): the record never counts less as missing than
  memory does (`Behind`); once everything has arrived a worker is on its way to the
  check, and at it until the data file is renamed or removed (`Attended`).
* `CheckIsNotSwept` (`CheckNotSwept`): `update_info` gives a controller up only when
  it counted no worker, and after that only a worker that was there could have
  begun the check, while a finished one sets `m_can_clear` itself, last
  (`Clearable`).

`FileProofs`, of the layout, for every page size, threshold, and set of sizes and
requests, under the assumption that a file over the threshold has a page for each
piece (10 MB hold 16 pages of any size in use):

* `Layout`: `Spec => []IInv`, where `IInv` says that piece `i` begins after `i - 1`
  pieces of the common length. `Dealt` and `WholePages` are the arithmetic: with
  at least as many pages as pieces, the last piece begins before the last byte.
* `LayoutTypes`, `AllMappable`, `AllTiled`, `AllWithin` follow.

And of the digest, for every file, all portions, and every width of a word that counts
the bits of whole blocks: `DigestIsExact` (`DigestExact`). The invariant is `Fed`: the
context holds (`Holds`) the count of bits of what was fed, its whole blocks, and the
rest of it in the buffer. `Updated` says that `Update` keeps this for any bytes, with
the loop in `Looped` and the carry of the count in `CountAdded`; `DigestOf` says what
`Final` then makes of it. The loop is a recursive function, and what it computes is
proved by induction in spite of what the provers lack: `WFMin` of the library, that a
set of numbers has a least one, takes a set and not an operator, and gives `Induct`.

And of the CRC, for all data, portions and prefetch distances: `CrcIsExact`
(`CrcExact`). `R(n, x)` is the register `x` after `n` steps of one bit; it distributes
over `^` (`RXor`) and numbers of steps add up (`RPlus`), a register whose low bits are
zeros only shifts (`RShifts`), and so a register is its low bits, turned, and the
others, shifted (`RSplit`). From these: the loop bodies of the five variants that take
a byte are all the eight steps of `c ^ byte` (`BitwiseSteps`, `TableSteps`,
`HalfSteps`, `TablelessSteps`, `Tableless2Steps`); row `k` of the table is `8 k + 8`
steps (`LookupIs`); a slice is as many bytes (`SliceIs`: what the sum of lookups still
lacks is the register that was mixed in, and it is shifted out after four); the unrolled
loops with their tails are the whole data (`SlicedIs`); and the division of polynomials
is the same run seen in a mirror (`EnterIs`, `RemainderIs`). The invariant is
`Checked`: the checksum is that of what was fed. `RunAppend` takes it on from there.

And of the piece record, for all pieces whose record is no longer than the 10 MB that
are read of an info file (`RecordsAssumption`): `RecordIsRead` (`RecordRead`). `Added`
and `Doubled` are the arithmetic of the length in binary, so `CalLen` is `12 + 28 * n`
modulo 2^32 (`Length`), and two lengths below 2^24 are different words (`Distinct`):
that is why a file cut short is refused (`CutShort`). `Serialized` says where each
number of the record is, `FieldIs` that it is read as it was written, and so a whole
record is read back (`ReadBack`). One changed bit changes one byte: in the CRC itself,
then the others have not changed; elsewhere, then the register differs after that byte
and, as no step of a bit makes a register zero that is not (`OneBitZero`), to the end
(`OneByte`). Either way the CRC does not fit (`OneChanged`), even if the changed
field is the number of pieces. The invariant is `Written`: the data is some record.

`PieceStreamProofs`, for every length of a piece and of a frame, every set of faults
and any number of connections: `StoredInPlace` (`Genuine`) and `TypeInvariant`. The
receiver's buffer followed by what is on its way is one row of items. `Fits` says
that the row can be cut into frames: there are a set of heads and, for each, the unit
after which its frame begins, such that the first begins where the receiver stores
next, each begins where the one before it ends, and, if the sender goes on, the last
one ends where it goes on (`Agreed`). A head announces where the next one is, so a
buffer that `check_data` accepts is the first frame and nothing else (`Shifted`), a
frame sent extends the row (`Extended`), and a reset or a damaged unit leaves a row
that is cut the same way (`Spoilt`). `Agreed` quantifies over infinite sets, so TLC
cannot evaluate it; `Genuine` itself is checked by the run `stream`. `TakesTurns`
(`StopAndWait`) adds `Turns`: on a connection that works it is the sender's turn and
nothing is on its way, or one whole frame is on its way or received, or the worker is
about to answer, or one answer is on its way, and what the receiver counts as missing
is what the sender does, but for the one frame. So an answer means that all is
stored, and whenever both wait, something is coming.

`SendFileProofs`, for any number of screens, any set of pieces, whatever receivers
ask for, and any tree of directories: that paths are sequences of names, and that a
directory below what is sent is listed by the one above it, is what is assumed
(`PathsAssumption`, `TreeAssumption`); that a receiver asks for a number of frames
of finitely many pieces is `GrantsAssumption`. There are five invariants, each with
a theorem but the first:

* `Confined`: threads of pieces run only while their screen is in `send_file`, and
  count only while something is left. With `TypeOK` it is inductive.
* `Exact`, for `TollCounted` (`TollIsSent`): the toll is the frames that were asked
  for, less those not counted off, plus one for each thread between adding and
  counting off. Frames are counted as the elements of a set (`Frames`), as the
  provers know no sums; this theorem holds with overlapping sends too.
* `Owned`, for `NothingStaleUsed` (`OnlyOverlapAborts`): without an overlap the one
  screen that sends, or the one receipt to the end of its last thread, owns the
  reference and the logger, and nobody else takes a step (`Alone`).
* `Announced`, for `WholeReported` (`WholeIsShown`): once the toll is the whole, some
  thread has shown it, or has read it and is about to, or is still to read it.
* `Walked`, for `EachOnce` (`EachTriedOnce`): a file that the walk can see has been
  tried, or is below something that `lstat` refused or that a call of `enum_dir` has
  still to read (`NoneForgotten`); what was tried is ahead of no call (`TriedOK`); and what a call
  has still to read is not being read by its callees (`Nested`), so nothing is
  met twice. That the walk reaches a file of any depth needs that all directories
  above it are listed, which is where `TreeAssumption` comes in (`DirsAbove`).

`RecvServerProofs`, for any number of servers, files and clients:
`ServerReachable` (`Reachable`) and `FileHasOneController` (`OneController`). Both
rest on the button: there is one active server at most (`Alone`), `g_recv` points to
it until it is told to quit or released (`Pointed`), and between the two reads of
`g_recv` that the dialog makes no other can have come (`Aimed`).

`ThreadPoolProofs`, for every number of workers, limit and set of tasks:
`OnePlace`, `NoLostWakeup`, `JoinedIsFixed`, `TypeInvariant` and `Refinement`. `InOnePlace` counts;
what is inductive is said without counting: no task is in the queue twice
(`Single`), a task's state says where it is (`Placed`), and the counter of busy
workers is at least the number of those that run a task (`Counted`), which keeps it
from going below zero. `Refinement` is `Spec => KeepsPromise`: `Push` is `TakeOn`,
`Take` is `Begin`, `FinishTask` and `ThrowTask` are `End`, `Join` is `Destroy`, a
refusal or a thread that did not start is `Decline`, `QuitNotify` is `Close`, and the
rest of the workers' loop changes nothing that `TaskPool` knows. `Push` and `Take` need
that the pool is not closed, though the sign may have been stored: who looked before has
the mutex, for which `QuitNotify` waits (`Locked`, `Quitting`). `Take` needs also that there is room: the
tasks being run have different workers, none of them the one that takes
(`RoomForOne`). `Join` needs that no task is with a worker once all have ended
(`AllEnded`).

`LogUtilsProofs`, for every set of loggers, records and instances: `RecordsInOrder`
and `EndIsWritten`. What was pushed is the file, then the writer's batch, then the
queue, place by place (`Ordered`), or, once the file has failed, goes on after what the
file holds; that a deleted instance has its end marker in the
file is followed backwards, from the file to the batch to the queue, where it was put
in the step that set `m_quit_thread` (`Marked`, `Joined`).

`DnsProofs`, of the lookup, for all hosts, lists of servers, cache times and limits:
`CacheIsTrue`, `ServersCopied` and `TypeInvariant`. `Mistakable` is that two hosts
were asked for with the same id, whatever ids the seconds have; `FoundForHost` carries it from the datagram to the
cache, and `Copied` says at each element what `NoServerSkipped` says at the end.

And of the messages, for all hosts, names, addresses, ids and numbers of answers:
`NamesAreRead` (`NamesRead`) and `ReplyUnderstood` (`Understood`). The invariant,
`ReplyInv`, has two parts beside the count in the header:

* every place where a name begins is `Laid`: a name ends there, or the place holds a
  pointer to one of smaller rank, or a label with the next place, of smaller rank,
  behind it; and from each the same end is reached that `calc_message_name_size`
  finds by passing over bytes. The ranks are why reading ends, and there are no
  more of them than bytes. From this `Reads` shows by induction on the rank what
  `get_message_name` returns, and `SizeIs` where the jump goes. That it is kept is
  `OneMore`: a name written in any of the ways a server may is laid (`Coded` names the
  ways), and what was laid before stays so, as an answer only changes the header and
  the end (`NamesStay`).
* `AllRecords`: each answer begins where the one before it ends, and `truth` gains
  its address if it is one. `RrsRead` follows the reader over them, by induction on the
  answers that are left, and `StillRead` that something behind the answers changes
  nothing.

`ReplyInv` quantifies over functions on the offsets, so TLC cannot evaluate it;
`NamesRead` and `Understood` themselves are checked by the run `dns_message`.

Model-checked only is liveness under fairness, which the prover does not do: `Cleared`,
`Ends`, `Completes`, `QuitHeard`, `EachIsRun`, `QuitReturns`,
`ReachesFile`, `InitReturns`, `LookupEnds`, `OnlyNetworkBlocks`. Every other property of a passing run is stated by a theorem.

## 5. Plan and what is not modelled

The plan of the first version (the sender, the DNS client, the records and
checksums, the theorems about stream, server, pool, log, lookup and sender, an
abstract pool) is carried out. Left, in order of importance:

1. An abstract specification of the receiver of one piece, implemented by
   `PieceStream`, and of the log, implemented by `LogUtils`.
2. Who owns a descriptor: `quit()` closes descriptors that workers own
   (`transrecvctrl.h:171`), and a number may be another socket's by then.

Not modelled, and why:

* `Semaphore`, `SimpleUdpServer`, the broadcast sockets, most of `miscs.h`,
  `string_x.h` and `stlutils.h`: nothing but tests calls them, or they have no state.
* malformed DNS replies: `DnsMessage` shows what the client does with everything a
  server may correctly send. Host names longer than a message are left out as well.
* the compression function of MD5 and the 4096 numbers of the CRC's table: the
  first is left abstract, the second are what their comment defines.
* the real time of sleeps, buffers' sizes in bytes, progress texts and the wording
  of log records: no property is about them.
* the user interface and the Wi-Fi Direct screens: what they do is decided by
  Android's service. The two buttons that start and end transfers are modelled in
  `RecvServer` and `SendFile`.
* a loss of power, and files changed by others while they are transferred.

----------------------------- MODULE RecvServer -----------------------------
(***************************************************************************)
(* The life of the receiving service: the receive screen (RecvActivity),   *)
(* the JNI entry points with their global g_recv, and the one thread of    *)
(* FileRecvServer that listens, negotiates, runs the timer and stops.      *)
(* Clients come in any number; each connection is one request.  What goes  *)
(* on inside a transfer is RecvTransfer's matter: here a controller has    *)
(* been told of, is moving data, or can be cleared.                        *)
(*                                                                         *)
(* A definition placed right before another with the same parameters, and  *)
(* named for what it leaves out, is a mutant listed in PROJECT.json.       *)
(***************************************************************************)
EXTENDS Integers, Sequences, FiniteSets

CONSTANTS
    Files,      \* the files (md5) clients ask for
    Kinds,      \* what clients do
    MaxServers, \* bound on the servers started
    MaxBacklog, \* bound on the connections waiting to be accepted
    Rotations   \* bound on the times the screen is created anew

AllKinds == {"file", "piece", "junk", "mute", "clingy"}

ASSUME KindsAssumption == Kinds \subseteq AllKinds
ASSUME BoundAssumption == MaxServers \in Nat /\ MaxBacklog \in Nat /\ Rotations \in Nat

Servers == 1..MaxServers
NoServer == 0
Requests == [kind : Kinds, file : Files]

VARIABLES
    \* the screen and its thread
    button,   \* the receive button can be pressed
    screens,  \* how often the screen was created anew
    owner,    \* the screen each server was started from
    uiPc,     \* where quitListeningOrRecvingFile is: "idle", "quit" or "forget"
    target,   \* the server it has read from g_recv
    \* JNI
    gRecv,    \* g_recv
    usedFreed, \* quit() was called on a server already deleted
    \* the servers
    started,  \* servers started so far
    pc,       \* where each server's thread is
    quit,     \* m_quit
    listener, \* the server whose listening socket is open
    backlog,  \* connections waiting in it
    request,  \* the connection being talked to
    ctl       \* m_map_trans: the state of each controller

screen == <<button, screens, owner, uiPc, target>>
vars   == <<screen, gRecv, usedFreed, started, pc, quit, listener, backlog,
            request, ctl>>

LoopPCs == {"poll", "hello", "goodbye", "timer"}
PCs == LoopPCs \cup {"none", "start", "bind", "clear", "ended", "deleting", "freed"}

NoFiles == [f \in Files |-> "none"]
NoRequest == [kind |-> "none"]

Init ==
    /\ button = TRUE /\ screens = 0 /\ owner = [s \in Servers |-> 0]
    /\ uiPc = "idle" /\ target = NoServer
    /\ gRecv = NoServer /\ usedFreed = FALSE
    /\ started = 0 /\ pc = [s \in Servers |-> "none"]
    /\ quit = [s \in Servers |-> FALSE]
    /\ listener = NoServer /\ backlog = <<>>
    /\ request = [s \in Servers |-> NoRequest]
    /\ ctl = [s \in Servers |-> NoFiles]

-----------------------------------------------------------------------------
(* The screen.                                                              *)

\* The button starts a thread that calls recvFile, and stays off meanwhile.
PressReceive ==
    /\ uiPc = "idle" /\ button /\ started < MaxServers
    /\ button' = FALSE
    /\ started' = started + 1
    /\ owner' = [owner EXCEPT ![started + 1] = screens]
    /\ pc' = [pc EXCEPT ![started + 1] = "start"]
    /\ UNCHANGED <<screens, uiPc, target, gRecv, usedFreed, quit, listener, backlog,
                   request, ctl>>

\* The system destroys the screen, on a rotation for one, and makes a new one.
Rotate ==
    /\ uiPc = "idle" /\ screens < Rotations
    /\ screens' = screens + 1
    /\ button' = TRUE
    /\ UNCHANGED <<owner, uiPc, target, gRecv, usedFreed, started, pc, quit,
                   listener, backlog, request, ctl>>

\* The dialog's yes: quitListeningOrRecvingFile tests g_recv ...
PressQuit ==
    /\ uiPc = "idle" /\ ~button /\ gRecv # NoServer
    /\ target' = gRecv
    /\ uiPc' = "quit"
    /\ UNCHANGED <<button, screens, owner, gRecv, usedFreed, started, pc, quit,
                   listener, backlog, request, ctl>>

\* ... calls quit() on it, or on what g_recv has become meanwhile: two plain reads
\* with no lock, which the compiler may make one ...
CallQuit ==
    /\ uiPc = "quit"
    /\ \E s \in {target, gRecv} :
          IF s \in Servers /\ pc[s] # "freed"
          THEN quit' = [quit EXCEPT ![s] = TRUE] /\ UNCHANGED usedFreed
          ELSE usedFreed' = TRUE /\ UNCHANGED quit
    /\ uiPc' = "forget"
    /\ UNCHANGED <<button, screens, owner, target, gRecv, started, pc, listener,
                   backlog, request, ctl>>

\* ... and clears it.
ForgetServer ==
    /\ uiPc = "forget"
    /\ gRecv' = NoServer /\ target' = NoServer
    /\ uiPc' = "idle"
    /\ UNCHANGED <<button, screens, owner, usedFreed, started, pc, quit, listener,
                   backlog, request, ctl>>

-----------------------------------------------------------------------------
(* recvFile and start_server.                                               *)

Goto(s, next) == pc' = [pc EXCEPT ![s] = next]

\* The server is made and g_recv points to it.
Start(s) ==
    /\ pc[s] = "start"
    /\ gRecv' = s
    /\ Goto(s, "bind")
    /\ UNCHANGED <<screen, usedFreed, started, quit, listener, backlog, request, ctl>>

BindAfresh(s) ==
    /\ pc[s] = "bind"
    /\ \/ listener = NoServer /\ listener' = s /\ backlog' = <<>> /\ Goto(s, "poll")
       \/ Goto(s, "ended") /\ UNCHANGED <<listener, backlog>>
    /\ quit' = [quit EXCEPT ![s] = FALSE]
    /\ UNCHANGED <<screen, gRecv, usedFreed, started, request, ctl>>

\* m_listen_s.init: two sockets cannot listen on one port, and a socket, bind or
\* listen may fail for reasons of its own.
Bind(s) ==
    /\ pc[s] = "bind"
    /\ \/ listener = NoServer /\ listener' = s /\ backlog' = <<>> /\ Goto(s, "poll")
       \/ Goto(s, "ended") /\ UNCHANGED <<listener, backlog>>
    /\ UNCHANGED <<screen, gRecv, usedFreed, started, quit, request, ctl>>

CloseListener(s) ==
    IF listener = s THEN listener' = NoServer /\ backlog' = <<>>
                    ELSE UNCHANGED <<listener, backlog>>

QuitWhenIdle(s) ==
    /\ pc[s] = "poll" /\ quit[s] /\ backlog = <<>>
    /\ CloseListener(s)
    /\ Goto(s, "clear")
    /\ UNCHANGED <<screen, gRecv, usedFreed, started, quit, request, ctl>>

\* poll returns, at the latest after two seconds, and m_quit is set: uninit
\* closes the listening socket first ...
SeeQuit(s) ==
    /\ pc[s] = "poll" /\ quit[s]
    /\ CloseListener(s)
    /\ Goto(s, "clear")
    /\ UNCHANGED <<screen, gRecv, usedFreed, started, quit, request, ctl>>

\* ... and then destroys the controllers, half a second each.
ClearMap(s) ==
    /\ pc[s] = "clear"
    /\ ctl' = [ctl EXCEPT ![s] = NoFiles]
    /\ Goto(s, "ended")
    /\ UNCHANGED <<screen, gRecv, usedFreed, started, quit, listener, backlog, request>>

\* poll fails, or reports the listening socket that accept has closed: the
\* loop is left without uninit.
PollFails(s) ==
    /\ pc[s] = "poll" /\ ~quit[s]
    /\ Goto(s, "ended")
    /\ UNCHANGED <<screen, gRecv, usedFreed, started, quit, listener, backlog,
                   request, ctl>>

\* Nothing came for two seconds.
PollIdle(s) ==
    /\ pc[s] = "poll" /\ ~quit[s] /\ listener = s /\ backlog = <<>>
    /\ Goto(s, "timer")
    /\ UNCHANGED <<screen, gRecv, usedFreed, started, quit, listener, backlog,
                   request, ctl>>

\* timer: what can be cleared is erased.
Tick(s) ==
    /\ pc[s] = "timer"
    /\ ctl' = [ctl EXCEPT ![s] =
                 [f \in Files |-> IF @[f] = "clear" THEN "none" ELSE @[f]]]
    /\ Goto(s, "poll")
    /\ UNCHANGED <<screen, gRecv, usedFreed, started, quit, listener, backlog, request>>

Accept(s) ==
    /\ pc[s] = "poll" /\ ~quit[s] /\ listener = s /\ backlog # <<>>
    /\ request' = [request EXCEPT ![s] = Head(backlog)]
    /\ backlog' = Tail(backlog)
    /\ Goto(s, "hello")
    /\ UNCHANGED <<screen, gRecv, usedFreed, started, quit, listener, ctl>>

\* SocketBase::accept closes the listening socket on any error but EINTR.
AcceptFails(s) ==
    /\ pc[s] = "poll" /\ ~quit[s] /\ listener = s /\ backlog # <<>>
    /\ CloseListener(s)
    /\ UNCHANGED <<screen, gRecv, usedFreed, started, pc, quit, request, ctl>>

\* Back to poll; the connection is closed or belongs to a worker.
Dispatched(s) ==
    /\ request' = [request EXCEPT ![s] = NoRequest]
    /\ Goto(s, "poll")

\* The request is unknown, or the client has gone without sending one.
RefuseRequest(s) ==
    /\ pc[s] = "hello" /\ request[s].kind \in {"junk", "mute"}
    /\ Dispatched(s)
    /\ UNCHANGED <<screen, gRecv, usedFreed, started, quit, listener, backlog, ctl>>

\* f_handshake for a file that is in the map, or whose init or reply fails.
RefuseFile(s) ==
    /\ pc[s] = "hello" /\ request[s].kind \in {"file", "clingy"}
    /\ Dispatched(s)
    /\ UNCHANGED <<screen, gRecv, usedFreed, started, quit, listener, backlog, ctl>>

\* f_handshake: the piece infos are sent and a controller enters the map; the
\* thread then reads until the client closes.
AdmitFile(s) ==
    /\ pc[s] = "hello" /\ request[s].kind \in {"file", "clingy"}
    /\ ctl[s][request[s].file] = "none"
    /\ ctl' = [ctl EXCEPT ![s][request[s].file] = "told"]
    /\ Goto(s, "goodbye")
    /\ UNCHANGED <<screen, gRecv, usedFreed, started, quit, listener, backlog, request>>

\* The client closes, or its connection is lost.
Goodbye(s) ==
    /\ pc[s] = "goodbye"
    /\ Dispatched(s)
    /\ UNCHANGED <<screen, gRecv, usedFreed, started, quit, listener, backlog, ctl>>

\* p_handshake: a controller in the map gets a worker; else, or when the reply
\* fails, the connection is closed.
StartPiece(s) ==
    /\ pc[s] = "hello" /\ request[s].kind = "piece"
    /\ \/ /\ ctl[s][request[s].file] \in {"told", "moving"}
          /\ ctl' = [ctl EXCEPT ![s][request[s].file] = "moving"]
       \/ UNCHANGED ctl
    /\ Dispatched(s)
    /\ UNCHANGED <<screen, gRecv, usedFreed, started, quit, listener, backlog>>

\* The workers of a transfer finish it, or its timer has given it up.
CanClear(s, f) ==
    /\ ctl[s][f] = "moving"
    /\ ctl' = [ctl EXCEPT ![s][f] = "clear"]
    /\ UNCHANGED <<screen, gRecv, usedFreed, started, pc, quit, listener, backlog, request>>

\* start_server has returned: the shared_ptr's deleter clears g_recv ...
ReleaseEarly(s) ==
    /\ pc[s] = "ended"
    /\ gRecv' = NoServer
    /\ button' = (button \/ owner[s] = screens)
    /\ Goto(s, "deleting")
    /\ CloseListener(s)
    /\ UNCHANGED <<screens, owner, uiPc, target, usedFreed, started, quit, request, ctl>>

\* ... and deletes the server, whose listening socket goes first, ...
Release(s) ==
    /\ pc[s] = "ended"
    /\ gRecv' = NoServer
    /\ Goto(s, "deleting")
    /\ CloseListener(s)
    /\ UNCHANGED <<screen, usedFreed, started, quit, request, ctl>>

\* ... and then the controllers still in the map; after that recvFile returns and
\* the screen it was called from, if it is still there, gets its button back.
Delete(s) ==
    /\ pc[s] = "deleting"
    /\ ctl' = [ctl EXCEPT ![s] = NoFiles]
    /\ Goto(s, "freed")
    /\ button' = (button \/ owner[s] = screens)
    /\ UNCHANGED <<screens, owner, uiPc, target, gRecv, usedFreed, started, quit,
                   listener, backlog, request>>

-----------------------------------------------------------------------------
\* A client connects and sends its request, if it ever does.
Arrive ==
    /\ listener # NoServer /\ Len(backlog) < MaxBacklog
    /\ \E r \in Requests : backlog' = Append(backlog, r)
    /\ UNCHANGED <<screen, gRecv, usedFreed, started, pc, quit, listener, request, ctl>>

Ui == PressReceive \/ Rotate \/ PressQuit \/ CallQuit \/ ForgetServer

\* The steps of the server's thread that wait for nobody.
Loop(s) == \/ Start(s) \/ Bind(s) \/ SeeQuit(s) \/ ClearMap(s) \/ PollIdle(s)
           \/ Tick(s) \/ Accept(s) \/ AdmitFile(s) \/ RefuseFile(s) \/ StartPiece(s)
           \/ Release(s) \/ Delete(s)
           \/ (request[s].kind = "junk" /\ RefuseRequest(s))
           \/ (listener # s /\ PollFails(s))

\* The steps that need a client to say something or to go away.
Talk(s) == RefuseRequest(s) \/ Goodbye(s)

Next == \/ Ui \/ Arrive
        \/ \E s \in Servers : \/ Loop(s) \/ Talk(s) \/ PollFails(s) \/ AcceptFails(s)
                              \/ \E f \in Files : CanClear(s, f)

Spec == Init /\ [][Next]_vars

(***************************************************************************)
(* Fairness: the threads run, transfers come to an end one way or another  *)
(* (RecvTransfer!Cleared), and a client that has been answered closes, as  *)
(* the sender program does.  A client that says nothing, or clings to its  *)
(* connection, owes nothing.                                               *)
(***************************************************************************)
FairSpec ==
    /\ Spec
    /\ WF_vars(CallQuit \/ ForgetServer)
    /\ \A s \in Servers :
          /\ WF_vars(Loop(s))
          /\ WF_vars(request[s].kind = "file" /\ Goodbye(s))

-----------------------------------------------------------------------------
(* What is checked.                                                         *)

\* The type of every variable.
TypeOK ==
    /\ button \in BOOLEAN /\ screens \in 0..Rotations
    /\ owner \in [Servers -> 0..Rotations]
    /\ uiPc \in {"idle", "quit", "forget"} /\ target \in Servers \cup {NoServer}
    /\ gRecv \in Servers \cup {NoServer} /\ usedFreed \in BOOLEAN
    /\ started \in 0..MaxServers /\ pc \in [Servers -> PCs]
    /\ quit \in [Servers -> BOOLEAN]
    /\ listener \in Servers \cup {NoServer}
    /\ backlog \in Seq(Requests) /\ Len(backlog) <= MaxBacklog
    /\ request \in [Servers -> Requests \cup {NoRequest}]
    /\ ctl \in [Servers -> [Files -> {"none", "told", "moving", "clear"}]]

Running(s) == pc[s] \in LoopPCs

\* A server that runs can be told to stop: g_recv points to it until it is.  (A
\* screen created anew can start a second server whose end clears g_recv.)
Reachable == screens = 0 => \A s \in Servers :
    Running(s) /\ ~quit[s] => gRecv = s

\* No two controllers, of whatever servers, have the same file mapped: they would
\* write the same data and info files.  FileRecvServer::uninit and its destructor
\* close the port before they destroy the controllers; that nobody takes the port
\* meanwhile is due to the button alone.
OneController == screens = 0 => \A f \in Files, s, t \in Servers :
    ctl[s][f] # "none" /\ ctl[t][f] # "none" => s = t

\* Once told to quit a server ends, however many clients come, unless a client
\* that says nothing, or does not go away, holds the only thread for ever.
Held(s) == pc[s] \in {"hello", "goodbye"} /\ request[s].kind \in {"mute", "clingy"}
QuitHeard == \A s \in Servers : quit[s] ~> (pc[s] = "freed" \/ []Held(s))

=============================================================================

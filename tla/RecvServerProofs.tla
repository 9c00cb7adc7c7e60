-------------------------- MODULE RecvServerProofs --------------------------
(***************************************************************************)
(* That a running server can be told to stop, and that no file has two     *)
(* controllers, for any number of servers, files and clients, as long as   *)
(* the screen was not created anew.  Both rest on the button: there is     *)
(* never more than one server between its start and its deletion.          *)
(***************************************************************************)
EXTENDS RecvServer, TLAPS

Active(s) == pc[s] \notin {"none", "freed"}

\* Servers start in order, and only an active one has controllers.
Born ==
    /\ \A s \in Servers : pc[s] = "none" <=> s > started
    /\ \A s \in Servers : ~Active(s) => ctl[s] = NoFiles

\* The button is off while a server is active, so there is one at most.
Alone ==
    screens = 0 =>
        /\ \A s, t \in Servers : Active(s) /\ Active(t) => s = t
        /\ button => \A s \in Servers : ~Active(s)

\* g_recv points to a server that has set it and has not been released; a server
\* that listens, or will, is pointed to unless it was told to quit.
Pointed ==
    screens = 0 =>
        /\ gRecv # NoServer => pc[gRecv] \in LoopPCs \cup {"bind", "clear", "ended"}
        /\ \A s \in Servers : pc[s] \in LoopPCs \cup {"bind"} /\ ~quit[s] => gRecv = s

\* While the dialog's yes is carried out, the server it is about is the active one,
\* or none is.
Aimed ==
    screens = 0 =>
        /\ uiPc = "quit" =>
              /\ target \in Servers /\ pc[target] \notin {"none", "start"}
              /\ \A s \in Servers : Active(s) => s = target
              /\ gRecv \in {target, NoServer}
              /\ gRecv = NoServer => pc[target] \in {"deleting", "freed"}
        /\ uiPc = "forget" =>
              \A s \in Servers :
                  /\ pc[s] # "start"
                  /\ pc[s] \in LoopPCs \cup {"bind"} => quit[s]

IInv == TypeOK /\ Born /\ Alone /\ Pointed /\ Aimed

-----------------------------------------------------------------------------
LEMMA NoServerIsNone == NoServer \notin Servers
  BY DEF NoServer, Servers

\* The listening socket of s is closed, if it is the one that is open.
LEMMA Closed ==
    ASSUME TypeOK, NEW s \in Servers, CloseListener(s) \/ UNCHANGED <<listener, backlog>>
    PROVE  /\ listener' \in Servers \cup {NoServer}
           /\ backlog' \in Seq(Requests) /\ Len(backlog') <= MaxBacklog
<1>1. <<>> \in Seq(Requests) /\ Len(<<>>) <= MaxBacklog
  BY BoundAssumption
<1>2. \/ listener' = NoServer /\ backlog' = <<>>
      \/ listener' = listener /\ backlog' = backlog
  BY DEF CloseListener
<1>. QED
  BY <1>1, <1>2 DEF TypeOK

LEMMA InitIInv == Init => IInv
<1> SUFFICES ASSUME Init PROVE IInv
  OBVIOUS
<1>1. TypeOK
  <2>1. /\ owner \in [Servers -> 0..Rotations] /\ pc \in [Servers -> PCs]
        /\ quit \in [Servers -> BOOLEAN] /\ request \in [Servers -> Requests \cup {NoRequest}]
    BY BoundAssumption DEF Init, PCs
  <2>2. ctl \in [Servers -> [Files -> {"none", "told", "moving", "clear"}]]
    BY DEF Init, NoFiles
  <2>3. backlog \in Seq(Requests) /\ Len(backlog) <= MaxBacklog
    BY BoundAssumption DEF Init
  <2>4. screens \in 0..Rotations /\ started \in 0..MaxServers
    BY BoundAssumption DEF Init
  <2>5. button \in BOOLEAN /\ usedFreed \in BOOLEAN
    BY DEF Init
  <2>6. /\ uiPc \in {"idle", "quit", "forget"} /\ target \in Servers \cup {NoServer}
        /\ gRecv \in Servers \cup {NoServer} /\ listener \in Servers \cup {NoServer}
    BY DEF Init
  <2>. QED
    BY <2>1, <2>2, <2>3, <2>4, <2>5, <2>6 DEF TypeOK
<1>2. Born
  BY BoundAssumption DEF Init, Born, Active, Servers
<1>3. Alone /\ Pointed /\ Aimed
  BY DEF Init, Alone, Pointed, Aimed, Active, LoopPCs
<1>. QED
  BY <1>1, <1>2, <1>3 DEF IInv

LEMMA TypeStep == IInv /\ [Next]_vars => TypeOK'
<1> SUFFICES ASSUME IInv, [Next]_vars PROVE TypeOK'
  OBVIOUS
<1>. USE NoServerIsNone DEF screen, Goto
<1>1. TypeOK
  BY DEF IInv
<1>2. ASSUME PressReceive PROVE TypeOK'
  <2>1. started + 1 \in Servers /\ started' \in 0..MaxServers
    BY <1>1, <1>2, BoundAssumption DEF PressReceive, TypeOK, Servers
  <2>. QED
    BY <1>1, <1>2, <2>1 DEF PressReceive, TypeOK, PCs
<1>3. ASSUME Rotate \/ PressQuit \/ ForgetServer PROVE TypeOK'
  <2>1. CASE Rotate
    <3>1. screens' \in 0..Rotations
      BY <1>1, <2>1, BoundAssumption DEF Rotate, TypeOK
    <3>. QED
      BY <1>1, <2>1, <3>1 DEF Rotate, TypeOK
  <2>2. CASE PressQuit
    BY <1>1, <2>2 DEF PressQuit, TypeOK
  <2>3. CASE ForgetServer
    BY <1>1, <2>3 DEF ForgetServer, TypeOK
  <2>. QED
    BY <1>3, <2>1, <2>2, <2>3
<1>4. ASSUME CallQuit PROVE TypeOK'
  <2>1. usedFreed' \in BOOLEAN /\ quit' \in [Servers -> BOOLEAN]
    BY <1>1, <1>4 DEF CallQuit, TypeOK
  <2>. QED
    BY <1>1, <1>4, <2>1 DEF CallQuit, TypeOK
<1>5. ASSUME NEW s \in Servers, Start(s) \/ SeeQuit(s) \/ PollFails(s) \/ PollIdle(s) \/ Goodbye(s)
      PROVE  TypeOK'
  <2>1. /\ listener' \in Servers \cup {NoServer}
        /\ backlog' \in Seq(Requests) /\ Len(backlog') <= MaxBacklog
    BY <1>1, <1>5, Closed DEF Start, SeeQuit, PollFails, PollIdle, Goodbye
  <2>. QED
    BY <1>1, <1>5, <2>1 DEF TypeOK, Start, SeeQuit, PollFails, PollIdle, Goodbye, Dispatched, PCs, LoopPCs
<1>6. ASSUME NEW s \in Servers, Bind(s) PROVE TypeOK'
  <2>1. /\ listener' \in Servers \cup {NoServer}
        /\ backlog' \in Seq(Requests) /\ Len(backlog') <= MaxBacklog
    <3>1. <<>> \in Seq(Requests) /\ Len(<<>>) <= MaxBacklog
      BY BoundAssumption
    <3>2. \/ listener' = s /\ backlog' = <<>>
          \/ listener' = listener /\ backlog' = backlog
      BY <1>6 DEF Bind
    <3>. QED
      BY <1>1, <3>1, <3>2 DEF TypeOK
  <2>2. pc' \in [Servers -> PCs]
    BY <1>1, <1>6 DEF TypeOK, Bind, PCs, LoopPCs
  <2>. QED
    BY <1>1, <1>6, <2>1, <2>2 DEF TypeOK, Bind
<1>7. ASSUME NEW s \in Servers, ClearMap(s) \/ Delete(s) PROVE TypeOK'
  <2>1. ctl' \in [Servers -> [Files -> {"none", "told", "moving", "clear"}]]
    <3>1. NoFiles \in [Files -> {"none", "told", "moving", "clear"}]
      BY DEF NoFiles
    <3>2. ctl' = [ctl EXCEPT ![s] = NoFiles]
      BY <1>7 DEF ClearMap, Delete
    <3>. QED
      BY <1>1, <3>1, <3>2 DEF TypeOK
  <2>2. button' \in BOOLEAN
    BY <1>1, <1>7 DEF TypeOK, ClearMap, Delete
  <2>. QED
    BY <1>1, <1>7, <2>1, <2>2 DEF TypeOK, ClearMap, Delete, PCs, LoopPCs
<1>8. ASSUME NEW s \in Servers, Tick(s) PROVE TypeOK'
  <2>1. ctl' \in [Servers -> [Files -> {"none", "told", "moving", "clear"}]]
    BY <1>1, <1>8 DEF TypeOK, Tick
  <2>. QED
    BY <1>1, <1>8, <2>1 DEF TypeOK, Tick, PCs, LoopPCs
<1>9. ASSUME NEW s \in Servers, Accept(s) PROVE TypeOK'
  <2>1. Head(backlog) \in Requests /\ backlog' \in Seq(Requests) /\ Len(backlog') <= MaxBacklog
    BY <1>1, <1>9, BoundAssumption DEF TypeOK, Accept
  <2>. QED
    BY <1>1, <1>9, <2>1 DEF TypeOK, Accept, PCs, LoopPCs
<1>10. ASSUME NEW s \in Servers, AcceptFails(s) PROVE TypeOK'
  BY <1>1, <1>10, Closed DEF TypeOK, AcceptFails
<1>11. ASSUME NEW s \in Servers, RefuseRequest(s) \/ RefuseFile(s) PROVE TypeOK'
  BY <1>1, <1>11 DEF TypeOK, RefuseRequest, RefuseFile, Dispatched, PCs, LoopPCs
<1>12. ASSUME NEW s \in Servers, AdmitFile(s) \/ StartPiece(s) PROVE TypeOK'
  <2>1. ctl' \in [Servers -> [Files -> {"none", "told", "moving", "clear"}]]
    <3>1. PICK r \in {"told", "moving"} :
            ctl' = ctl \/ ctl' = [ctl EXCEPT ![s][request[s].file] = r]
      BY <1>12 DEF AdmitFile, StartPiece
    <3>2. [ctl[s] EXCEPT ![request[s].file] = r] \in [Files -> {"none", "told", "moving", "clear"}]
      BY <1>1 DEF TypeOK
    <3>3. ctl' = ctl \/ ctl' = [ctl EXCEPT ![s] = [ctl[s] EXCEPT ![request[s].file] = r]]
      BY <3>1
    <3>. QED
      BY <1>1, <3>2, <3>3 DEF TypeOK
  <2>. QED
    BY <1>1, <1>12, <2>1 DEF TypeOK, AdmitFile, StartPiece, Dispatched, PCs, LoopPCs
<1>13. ASSUME NEW s \in Servers, NEW f \in Files, CanClear(s, f) PROVE TypeOK'
  BY <1>1, <1>13 DEF TypeOK, CanClear
<1>14. ASSUME NEW s \in Servers, Release(s) PROVE TypeOK'
  <2>1. /\ listener' \in Servers \cup {NoServer}
        /\ backlog' \in Seq(Requests) /\ Len(backlog') <= MaxBacklog
    BY <1>1, <1>14, Closed DEF Release
  <2>. QED
    BY <1>1, <1>14, <2>1 DEF TypeOK, Release, PCs, LoopPCs
<1>15. ASSUME Arrive PROVE TypeOK'
  <2>1. PICK r \in Requests : backlog' = Append(backlog, r)
    BY <1>15 DEF Arrive
  <2>2. backlog' \in Seq(Requests) /\ Len(backlog') <= MaxBacklog
    BY <1>1, <1>15, <2>1, BoundAssumption DEF TypeOK, Arrive
  <2>. QED
    BY <1>1, <1>15, <2>2 DEF TypeOK, Arrive
<1>16. ASSUME UNCHANGED vars PROVE TypeOK'
  BY <1>1, <1>16 DEF TypeOK, vars
<1>. QED
  BY <1>2, <1>3, <1>4, <1>5, <1>6, <1>7, <1>8, <1>9, <1>10, <1>11, <1>12, <1>13, <1>14, <1>15,
     <1>16 DEF Next, Ui, Loop, Talk

\* What a step may do to one server's thread, and nothing to the others'.
LEMMA PcStep ==
    ASSUME IInv, Next
    PROVE  \/ UNCHANGED <<pc, started>>
           \/ /\ PressReceive /\ started + 1 \in Servers /\ started' = started + 1
              /\ pc' = [pc EXCEPT ![started + 1] = "start"] /\ ctl' = ctl
           \/ \E s \in Servers, next \in PCs \ {"none", "start"} :
                  /\ pc' = [pc EXCEPT ![s] = next] /\ started' = started
                  /\ Active(s)
<1>. USE DEF Goto
<1>1. TypeOK
  BY DEF IInv
<1>2. CASE Ui
  <2>1. started + 1 \in Servers \/ ~(started < MaxServers)
    BY <1>1, BoundAssumption DEF TypeOK, Servers
  <2>. QED
    BY <1>2, <2>1 DEF Ui, PressReceive, Rotate, PressQuit, CallQuit, ForgetServer
<1>3. CASE \E s \in Servers : Loop(s) \/ Talk(s) \/ PollFails(s) \/ AcceptFails(s)
  <2>1. PICK s \in Servers : Loop(s) \/ Talk(s) \/ PollFails(s) \/ AcceptFails(s)
    BY <1>3
  <2>2. CASE AcceptFails(s)
    BY <2>2 DEF AcceptFails
  <2>3. CASE Start(s) \/ Bind(s) \/ SeeQuit(s) \/ ClearMap(s) \/ PollIdle(s) \/ Tick(s) \/ Accept(s)
    BY <2>3 DEF Start, Bind, SeeQuit, ClearMap, PollIdle, Tick, Accept, Active, PCs, LoopPCs
  <2>4. CASE AdmitFile(s) \/ RefuseFile(s) \/ StartPiece(s) \/ RefuseRequest(s) \/ Goodbye(s)
    BY <2>4 DEF AdmitFile, RefuseFile, StartPiece, RefuseRequest, Goodbye, Dispatched, Active, PCs, LoopPCs
  <2>5. CASE Release(s) \/ Delete(s) \/ PollFails(s)
    BY <2>5 DEF Release, Delete, PollFails, Active, PCs, LoopPCs
  <2>. QED
    BY <2>1, <2>2, <2>3, <2>4, <2>5 DEF Loop, Talk
<1>4. CASE Arrive \/ \E s \in Servers, f \in Files : CanClear(s, f)
  BY <1>4 DEF Arrive, CanClear
<1>. QED
  BY <1>2, <1>3, <1>4 DEF Next

LEMMA BornStep == IInv /\ [Next]_vars => Born'
<1> SUFFICES ASSUME IInv, [Next]_vars PROVE Born'
  OBVIOUS
<1>1. TypeOK /\ Born
  BY DEF IInv
<1>2. started \in Nat /\ Servers \subseteq Nat
  BY <1>1, BoundAssumption DEF TypeOK, Servers
<1>3. ASSUME UNCHANGED <<pc, started, ctl>> PROVE Born'
  BY <1>1, <1>3 DEF Born, Active
<1>4. ASSUME Next PROVE \A s \in Servers : pc'[s] = "none" <=> s > started'
  <2>1. CASE PressReceive /\ started + 1 \in Servers /\ started' = started + 1
             /\ pc' = [pc EXCEPT ![started + 1] = "start"]
    <3>1. \A s \in Servers : pc'[s] = IF s = started + 1 THEN "start" ELSE pc[s]
      BY <1>1, <2>1 DEF TypeOK
    <3>. QED
      BY <1>1, <1>2, <2>1, <3>1 DEF Born
  <2>2. ASSUME NEW s \in Servers, NEW next \in PCs \ {"none", "start"},
               pc' = [pc EXCEPT ![s] = next], started' = started, Active(s)
        PROVE  \A t \in Servers : pc'[t] = "none" <=> t > started'
    BY <1>1, <2>2 DEF Born, TypeOK, Active
  <2>. QED
    BY <1>1, <1>4, <2>1, <2>2, PcStep DEF Born
<1>5. ASSUME Next PROVE \A s \in Servers : ~Active(s)' => ctl'[s] = NoFiles
  <2>1. \A s \in Servers : ~Active(s) => ctl[s] = NoFiles
    BY <1>1 DEF Born
  <2>2. ASSUME ctl' = ctl, NEW s \in Servers, ~Active(s)', pc'[s] # "freed" PROVE ctl'[s] = NoFiles
    <3>1. ~Active(s)
      BY <1>1, <1>2, <1>4, <1>5, <2>2, PcStep DEF Active, TypeOK
    <3>. QED
      BY <2>1, <2>2, <3>1
  <2>3. ASSUME NEW s \in Servers, Delete(s) PROVE \A t \in Servers : ~Active(t)' => ctl'[t] = NoFiles
    BY <1>1, <2>1, <2>3 DEF Delete, Goto, Active, TypeOK
  <2>4. ASSUME NEW s \in Servers, ClearMap(s) PROVE \A t \in Servers : ~Active(t)' => ctl'[t] = NoFiles
    BY <1>1, <2>1, <2>4 DEF ClearMap, Goto, Active, TypeOK
  <2>5. ASSUME NEW s \in Servers, Tick(s) \/ AdmitFile(s) \/ StartPiece(s)
        PROVE  \A t \in Servers : ~Active(t)' => ctl'[t] = NoFiles
    <3>1. Active(s) /\ Active(s)'
      BY <1>1, <2>5 DEF Tick, AdmitFile, StartPiece, Dispatched, Goto, Active, TypeOK
    <3>2. \A t \in Servers : t # s => ctl'[t] = ctl[t] /\ pc'[t] = pc[t]
      BY <1>1, <2>5 DEF Tick, AdmitFile, StartPiece, Dispatched, Goto, TypeOK
    <3>. QED
      BY <2>1, <3>1, <3>2 DEF Active
  <2>6. ASSUME NEW s \in Servers, NEW f \in Files, CanClear(s, f)
        PROVE  \A t \in Servers : ~Active(t)' => ctl'[t] = NoFiles
    <3>1. Active(s)
      BY <2>1, <2>6 DEF CanClear, NoFiles
    <3>2. \A t \in Servers : t # s => ctl'[t] = ctl[t]
      BY <1>1, <2>6 DEF CanClear, TypeOK
    <3>. QED
      BY <2>1, <2>6, <3>1, <3>2 DEF CanClear, Active
  <2>7. ASSUME ctl' = ctl, \A s \in Servers : pc'[s] = "freed" => pc[s] = "freed"
        PROVE  \A t \in Servers : ~Active(t)' => ctl'[t] = NoFiles
    BY <2>1, <2>2, <2>7 DEF Active
  <2>8. ASSUME NEW s \in Servers,
               Start(s) \/ Bind(s) \/ SeeQuit(s) \/ PollIdle(s) \/ Accept(s) \/ RefuseFile(s)
               \/ Release(s) \/ RefuseRequest(s) \/ PollFails(s) \/ Goodbye(s) \/ AcceptFails(s)
        PROVE  ctl' = ctl /\ \A t \in Servers : pc'[t] = "freed" => pc[t] = "freed"
    BY <1>1, <2>8 DEF Start, Bind, SeeQuit, PollIdle, Accept, RefuseFile, Release, RefuseRequest,
       PollFails, Goodbye, AcceptFails, Dispatched, Goto, TypeOK
  <2>9. ASSUME Ui \/ Arrive
        PROVE  ctl' = ctl /\ \A t \in Servers : pc'[t] = "freed" => pc[t] = "freed"
    BY <1>1, <2>9 DEF Ui, PressReceive, Rotate, PressQuit, CallQuit, ForgetServer, Arrive, TypeOK
  <2>. QED
    BY <1>5, <2>3, <2>4, <2>5, <2>6, <2>7, <2>8, <2>9 DEF Next, Loop, Talk
<1>. QED
  BY <1>3, <1>4, <1>5 DEF Born, vars

LEMMA AloneStep == IInv /\ [Next]_vars => Alone'
<1> SUFFICES ASSUME IInv, [Next]_vars PROVE Alone'
  OBVIOUS
<1>1. TypeOK /\ Born /\ Alone /\ screens \in Nat
  BY BoundAssumption DEF IInv, TypeOK
<1>2. CASE UNCHANGED vars
  BY <1>1, <1>2 DEF Alone, Active, vars, screen
<1>3. CASE PressReceive
  <2>1. started + 1 \in Servers /\ screens' = screens /\ button /\ ~button'
    BY <1>1, <1>3, BoundAssumption DEF PressReceive, TypeOK, Servers
  <2>2. \A s \in Servers : s # started + 1 => pc'[s] = pc[s]
    BY <1>1, <1>3 DEF PressReceive, TypeOK
  <2>. QED
    BY <1>1, <2>1, <2>2 DEF Alone, Active
<1>4. CASE Rotate
  BY <1>1, <1>4 DEF Rotate, Alone
<1>5. ASSUME NEW s \in Servers, Delete(s) PROVE Alone'
  <2>1. screens' = screens /\ Active(s) /\ ~Active(s)' /\ \A t \in Servers : t # s => pc'[t] = pc[t]
    BY <1>1, <1>5 DEF Delete, Goto, Active, TypeOK
  <2>2. screens = 0 => \A t \in Servers : ~Active(t)'
    BY <1>1, <2>1 DEF Alone, Active
  <2>. QED
    BY <2>1, <2>2 DEF Alone
<1>6. ASSUME Next, ~PressReceive, screens' = screens, button' = button PROVE Alone'
  <2>1. \A t \in Servers : Active(t)' => Active(t)
    BY <1>1, <1>6, PcStep DEF Active, TypeOK
  <2>. QED
    BY <1>1, <1>6, <2>1 DEF Alone
<1>7. ASSUME Next PROVE PressReceive \/ Rotate \/ (\E s \in Servers : Delete(s))
                        \/ (screens' = screens /\ button' = button)
  <2>1. CASE Ui \/ Arrive
    BY <2>1 DEF Ui, Arrive, PressQuit, CallQuit, ForgetServer, screen
  <2>2. CASE \E s \in Servers : Loop(s)
    BY <2>2 DEF Loop, Start, Bind, SeeQuit, ClearMap, PollIdle, Tick, Accept, AdmitFile,
       RefuseFile, StartPiece, Release, RefuseRequest, PollFails, screen
  <2>3. CASE \E s \in Servers : \/ Talk(s) \/ PollFails(s) \/ AcceptFails(s)
                                 \/ \E f \in Files : CanClear(s, f)
    BY <2>3 DEF Talk, RefuseRequest, Goodbye, PollFails, AcceptFails, CanClear, screen
  <2>. QED
    BY <1>7, <2>1, <2>2, <2>3 DEF Next
<1>. QED
  BY <1>2, <1>3, <1>4, <1>5, <1>6, <1>7

\* What the screen and g_recv see of a step of a server's thread that neither starts
\* nor releases it.
Advances(s) ==
    /\ pc[s] \in LoopPCs \cup {"bind", "clear", "ended"}
    /\ \E next \in LoopPCs \cup {"clear", "ended"} :
          /\ pc' = [pc EXCEPT ![s] = next]
          /\ next \in LoopPCs => pc[s] \in LoopPCs \cup {"bind"}
    /\ UNCHANGED <<screens, uiPc, target, gRecv, quit>>

LEMMA Steps ==
    ASSUME IInv, Next
    PROVE  \/ Ui
           \/ UNCHANGED <<screens, uiPc, target, gRecv, quit, pc>>
           \/ \E s \in Servers : Start(s) \/ Release(s) \/ Delete(s) \/ Advances(s)
<1>. USE DEF screen, Goto
<1>1. ASSUME NEW s \in Servers,
             Bind(s) \/ SeeQuit(s) \/ ClearMap(s) \/ PollIdle(s) \/ Tick(s) \/ Accept(s) \/ PollFails(s)
      PROVE  Advances(s)
  BY <1>1 DEF Bind, SeeQuit, ClearMap, PollIdle, Tick, Accept, PollFails, Advances, LoopPCs
<1>2. ASSUME NEW s \in Servers,
             AdmitFile(s) \/ RefuseFile(s) \/ StartPiece(s) \/ RefuseRequest(s) \/ Goodbye(s)
      PROVE  Advances(s)
  BY <1>2 DEF AdmitFile, RefuseFile, StartPiece, RefuseRequest, Goodbye, Dispatched, Advances, LoopPCs
<1>. QED
  BY <1>1, <1>2 DEF Next, Loop, Talk, Arrive, AcceptFails, CanClear

LEMMA PointedStep == IInv /\ [Next]_vars => Pointed'
<1> SUFFICES ASSUME IInv, [Next]_vars PROVE Pointed'
  OBVIOUS
<1>. USE NoServerIsNone DEF screen, Goto
<1>1. TypeOK /\ Born /\ Alone /\ Pointed /\ Aimed /\ screens \in Nat
  BY BoundAssumption DEF IInv, TypeOK
<1>2. CASE UNCHANGED <<screens, uiPc, target, gRecv, quit, pc>>
  BY <1>1, <1>2 DEF Pointed
<1>3. ASSUME NEW s \in Servers, Start(s) PROVE Pointed'
  <2>1. /\ pc[s] = "start" /\ gRecv' = s /\ quit' = quit /\ screens' = screens
        /\ pc' = [pc EXCEPT ![s] = "bind"]
    BY <1>3 DEF Start
  <2>2. screens = 0 => \A t \in Servers : pc'[t] \in LoopPCs \cup {"bind"} => t = s
    BY <1>1, <2>1 DEF Alone, Active, TypeOK, LoopPCs
  <2>3. pc'[s] = "bind"
    BY <1>1, <2>1 DEF TypeOK
  <2>. QED
    BY <2>1, <2>2, <2>3 DEF Pointed
<1>4. ASSUME NEW s \in Servers, Release(s) PROVE Pointed'
  <2>1. /\ pc[s] = "ended" /\ gRecv' = NoServer /\ screens' = screens
        /\ pc' = [pc EXCEPT ![s] = "deleting"]
    BY <1>4 DEF Release
  <2>2. screens = 0 => \A t \in Servers : pc'[t] \notin LoopPCs \cup {"bind"}
    BY <1>1, <2>1 DEF Alone, Active, TypeOK, LoopPCs
  <2>. QED
    BY <2>1, <2>2 DEF Pointed
<1>5. ASSUME NEW s \in Servers, Delete(s) PROVE Pointed'
  <2>1. /\ pc[s] = "deleting" /\ gRecv' = gRecv /\ quit' = quit /\ screens' = screens
        /\ pc' = [pc EXCEPT ![s] = "freed"]
    BY <1>5 DEF Delete
  <2>2. screens = 0 => gRecv # s
    BY <1>1, <2>1 DEF Pointed, LoopPCs
  <2>. QED
    BY <1>1, <2>1, <2>2 DEF Pointed, TypeOK, LoopPCs
<1>6. ASSUME NEW s \in Servers, Advances(s) PROVE Pointed'
  <2>1. PICK next \in LoopPCs \cup {"clear", "ended"} :
          /\ pc' = [pc EXCEPT ![s] = next]
          /\ next \in LoopPCs => pc[s] \in LoopPCs \cup {"bind"}
    BY <1>6 DEF Advances
  <2>2. \A t \in Servers : pc'[t] = IF t = s THEN next ELSE pc[t]
    BY <1>1, <2>1 DEF TypeOK
  <2>3. UNCHANGED <<screens, gRecv, quit>>
    BY <1>6 DEF Advances
  <2>4. \A t \in Servers : pc'[t] \in LoopPCs \cup {"bind"} => pc[t] \in LoopPCs \cup {"bind"}
    BY <2>1, <2>2 DEF LoopPCs
  <2>5. gRecv \in Servers \cup {NoServer}
    BY <1>1 DEF TypeOK
  <2>. QED
    BY <1>1, <2>2, <2>3, <2>4, <2>5 DEF Pointed
<1>7. CASE Ui
  <2>1. CASE PressReceive
    <3>1. /\ screens' = screens /\ gRecv' = gRecv /\ quit' = quit /\ button
          /\ pc' = [pc EXCEPT ![started + 1] = "start"]
      BY <2>1 DEF PressReceive
    <3>2. screens = 0 => gRecv = NoServer
      BY <1>1, <3>1 DEF Alone, Pointed, Active, TypeOK, LoopPCs
    <3>3. \A t \in Servers : pc'[t] \in LoopPCs \cup {"bind"} => pc[t] \in LoopPCs \cup {"bind"}
      BY <1>1, <3>1 DEF TypeOK, LoopPCs
    <3>. QED
      BY <1>1, <3>1, <3>2, <3>3 DEF Pointed
  <2>2. CASE Rotate
    BY <1>1, <2>2 DEF Rotate, Pointed
  <2>3. CASE PressQuit
    BY <1>1, <2>3 DEF PressQuit, Pointed
  <2>4. CASE CallQuit
    <3>1. \A t \in Servers : quit[t] => quit'[t]
      BY <1>1, <2>4 DEF CallQuit, TypeOK
    <3>. QED
      BY <1>1, <2>4, <3>1 DEF CallQuit, Pointed
  <2>5. CASE ForgetServer
    BY <1>1, <2>5 DEF ForgetServer, Pointed, Aimed
  <2>. QED
    BY <1>7, <2>1, <2>2, <2>3, <2>4, <2>5 DEF Ui
<1>. QED
  BY <1>2, <1>3, <1>4, <1>5, <1>6, <1>7, Steps DEF vars

LEMMA AimedStep == IInv /\ [Next]_vars => Aimed'
<1> SUFFICES ASSUME IInv, [Next]_vars PROVE Aimed'
  OBVIOUS
<1>. USE NoServerIsNone DEF screen, Goto
<1>1. TypeOK /\ Born /\ Alone /\ Pointed /\ Aimed /\ screens \in Nat
  BY BoundAssumption DEF IInv, TypeOK
<1>2. CASE UNCHANGED <<screens, uiPc, target, gRecv, quit, pc>>
  BY <1>1, <1>2 DEF Aimed, Active
<1>3. ASSUME NEW s \in Servers, Start(s) PROVE Aimed'
  <2>1. screens = 0 => uiPc \notin {"quit", "forget"}
    BY <1>1, <1>3 DEF Start, Aimed, Active
  <2>. QED
    BY <1>3, <2>1 DEF Start, Aimed
<1>4. ASSUME NEW s \in Servers, Release(s) \/ Delete(s) PROVE Aimed'
  <2>1. PICK next \in {"deleting", "freed"} : pc' = [pc EXCEPT ![s] = next]
    BY <1>4 DEF Release, Delete
  <2>2. \A t \in Servers : pc'[t] = IF t = s THEN next ELSE pc[t]
    BY <1>1, <2>1 DEF TypeOK
  <2>3. UNCHANGED <<screens, uiPc, target, quit>> /\ gRecv' \in {gRecv, NoServer} /\ Active(s)
    BY <1>4 DEF Release, Delete, Active
  <2>4. \A t \in Servers : (Active(t)' => Active(t)) /\ (pc'[t] \in {"none", "start"} => pc[t] = pc'[t])
    BY <2>2, <2>3 DEF Active
  <2>5. CASE uiPc = "quit"
    BY <1>1, <2>2, <2>3, <2>4, <2>5 DEF Aimed
  <2>6. CASE uiPc = "forget"
    BY <1>1, <2>2, <2>3, <2>6 DEF Aimed, LoopPCs
  <2>. QED
    BY <2>3, <2>5, <2>6 DEF Aimed
<1>5. ASSUME NEW s \in Servers, Advances(s) PROVE Aimed'
  <2>1. PICK next \in LoopPCs \cup {"clear", "ended"} :
          /\ pc' = [pc EXCEPT ![s] = next]
          /\ next \in LoopPCs => pc[s] \in LoopPCs \cup {"bind"}
    BY <1>5 DEF Advances
  <2>2. \A t \in Servers : pc'[t] = IF t = s THEN next ELSE pc[t]
    BY <1>1, <2>1 DEF TypeOK
  <2>3. UNCHANGED <<screens, uiPc, target, gRecv, quit>> /\ Active(s)
    BY <1>5 DEF Advances, Active, LoopPCs
  <2>4. pc[s] \notin {"deleting", "freed", "none", "start"} /\ next \notin {"none", "start", "freed"}
    BY <1>5, <2>1 DEF Advances, LoopPCs
  <2>5. \A t \in Servers : Active(t)' <=> Active(t)
    BY <2>2, <2>3, <2>4 DEF Active
  <2>6. CASE uiPc = "quit"
    BY <1>1, <2>2, <2>3, <2>4, <2>5, <2>6 DEF Aimed
  <2>7. CASE uiPc = "forget"
    <3>1. \A t \in Servers : pc'[t] \in LoopPCs \cup {"bind"} => pc[t] \in LoopPCs \cup {"bind"}
      BY <2>1, <2>2 DEF LoopPCs
    <3>. QED
      BY <1>1, <2>2, <2>3, <2>4, <2>7, <3>1 DEF Aimed
  <2>. QED
    BY <2>3, <2>6, <2>7 DEF Aimed
<1>6. CASE Ui
  <2>1. CASE PressReceive \/ Rotate \/ ForgetServer
    BY <2>1 DEF PressReceive, Rotate, ForgetServer, Aimed
  <2>2. CASE PressQuit
    <3>1. /\ screens' = screens /\ target' = gRecv /\ gRecv' = gRecv /\ uiPc' = "quit" /\ pc' = pc
          /\ gRecv \in Servers
      BY <1>1, <2>2 DEF PressQuit, TypeOK
    <3>2. screens = 0 => Active(gRecv) /\ pc[gRecv] # "start"
      BY <1>1, <3>1 DEF Pointed, Active, LoopPCs
    <3>. QED
      BY <1>1, <3>1, <3>2 DEF Alone, Aimed, Active
  <2>3. CASE CallQuit
    <3>1. uiPc = "quit" /\ uiPc' = "forget" /\ screens' = screens /\ pc' = pc
      BY <2>3 DEF CallQuit
    <3>2. ASSUME screens = 0, NEW s \in Servers, pc[s] \in LoopPCs \cup {"bind"}
          PROVE  quit'[s]
      <4>1. s = target /\ gRecv = target
        BY <1>1, <3>1, <3>2 DEF Aimed, Active, LoopPCs
      <4>2. pc[s] # "freed"
        BY <3>2 DEF LoopPCs
      <4>3. quit' = [quit EXCEPT ![s] = TRUE]
        BY <2>3, <4>1, <4>2 DEF CallQuit
      <4>. QED
        BY <1>1, <4>3 DEF TypeOK
    <3>3. screens = 0 => \A s \in Servers : pc[s] # "start"
      BY <1>1, <3>1 DEF Aimed, Active
    <3>. QED
      BY <3>1, <3>2, <3>3 DEF Aimed
  <2>. QED
    BY <1>6, <2>1, <2>2, <2>3 DEF Ui
<1>. QED
  BY <1>2, <1>3, <1>4, <1>5, <1>6, Steps DEF vars

-----------------------------------------------------------------------------
(* The theorems.                                                            *)

\* The inductive invariant holds in every state of the service.
THEOREM Invariance == Spec => []IInv
<1>1. IInv /\ [Next]_vars => IInv'
  BY TypeStep, BornStep, AloneStep, PointedStep, AimedStep DEF IInv
<1>. QED
  BY InitIInv, <1>1, PTL DEF Spec

\* A server that runs and was not told to quit is the one quitListeningOrRecvingFile
\* would tell, however the dialog's two reads of g_recv and the deleter interleave.
THEOREM ServerReachable == Spec => []Reachable
<1>1. IInv => Reachable
  BY DEF IInv, Pointed, Reachable, Running
<1>. QED
  BY Invariance, <1>1, PTL

\* No file is mapped by two controllers, also while one server's map is being
\* destroyed and its port is free (FileRecvServer::uninit and its destructor).
THEOREM FileHasOneController == Spec => []OneController
<1>1. IInv => OneController
  <2>1. SUFFICES ASSUME IInv, screens = 0, NEW f \in Files, NEW s \in Servers, NEW t \in Servers,
                        ctl[s][f] # "none", ctl[t][f] # "none"
                 PROVE  s = t
    BY DEF OneController
  <2>2. Active(s) /\ Active(t)
    BY <2>1 DEF IInv, Born, NoFiles
  <2>. QED
    BY <2>1, <2>2 DEF IInv, Alone
<1>. QED
  BY Invariance, <1>1, PTL

=============================================================================

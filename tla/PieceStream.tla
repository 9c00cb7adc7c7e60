---------------------------- MODULE PieceStream ----------------------------
(***************************************************************************)
(* One piece on its way from the sender's thread (SendCtrl) to the         *)
(* receiver's worker (TransRecvCtrl), over one TCP connection after        *)
(* another.  The sender cuts what is missing into frames and waits for an  *)
(* answer after each but the last; the receiver collects what recv returns *)
(* until check_data accepts a frame.                                       *)
(*                                                                         *)
(* Data is counted in units; unit i of the piece is the number i.  On the  *)
(* wire a frame is one head, which holds its length, and its units.        *)
(*                                                                         *)
(* A definition placed right before another with the same parameters, and  *)
(* named for what it leaves out, is a mutant listed in PROJECT.json.       *)
(***************************************************************************)
EXTENDS Integers, Sequences, SequencesExt

CONSTANTS
    Units,      \* the length of the piece
    MaxFrame,   \* MAX_ORI_DATA_LEN: units in a frame at most
    MaxBuffer,  \* MAX_DATA_LEN: a longer buffer is thrown away
    MaxConns,   \* bound on the connections made
    Faults,     \* what the network may do
    AnswerParts \* how many parts an answer may arrive in

ASSUME UnitsAssumption == Units \in Nat \ {0}
ASSUME FrameAssumption ==
    MaxFrame \in Nat \ {0} /\ MaxBuffer \in Nat /\ MaxBuffer > MaxFrame
ASSUME FaultAssumption == Faults \subseteq {"reset", "silent", "damage", "slow"}
ASSUME BoundAssumption == MaxConns \in Nat /\ AnswerParts \in Nat \ {0}

VARIABLES
    conns,   \* connections made so far
    link,    \* the connection: "none", "up", "reset" or "silent"
    up,      \* units on their way to the receiver
    down,    \* parts of answers on their way to the sender
    spc,     \* where the sender's thread is
    sleft,   \* its lenth_left
    rpc,     \* where the receiver is
    buff,    \* what receive() has collected
    left,    \* the receiver's lenth_left
    stored,  \* the units in the data file, from the start of the piece
    upset    \* on this connection data was damaged, an answer came in parts, or
             \* the timer hit a sender that was only slow

vars == <<conns, link, up, down, spc, sleft, rpc, buff, left, stored, upset>>

FrameHead(n) == [kind |-> "head", n |-> n]
Unit(i) == [kind |-> "data", n |-> i]
Junk    == [kind |-> "junk", n |-> 0]

Init ==
    /\ conns = 0 /\ link = "none" /\ up = <<>> /\ down = 0
    /\ spc = "idle" /\ sleft = 0
    /\ rpc = "idle" /\ buff = <<>> /\ left = Units /\ stored = <<>>
    /\ upset = FALSE

-----------------------------------------------------------------------------
(* Negotiation.  The receiver answers f_handshake with what its record says *)
(* is missing, which after a kill may be more than before; the sender then  *)
(* connects, names the piece, and gets the name back.                       *)

Connect ==
    /\ spc = "idle" /\ rpc = "idle" /\ conns < MaxConns
    /\ \E missing \in left..Units :
          /\ missing > 0
          /\ left' = missing /\ sleft' = missing
    /\ conns' = conns + 1 /\ link' = "up" /\ up' = <<>> /\ down' = 0
    /\ spc' = "send" /\ rpc' = "recv" /\ buff' = <<>>
    /\ upset' = FALSE
    /\ UNCHANGED stored

-----------------------------------------------------------------------------
(* The sender's thread.                                                     *)

\* The next frame of the file: what is missing, or as much as a frame holds.
FrameLen == IF sleft > MaxFrame THEN MaxFrame ELSE sleft
Frame == <<FrameHead(FrameLen)>> \o [i \in 1..FrameLen |-> Unit(Units - sleft + i)]

WholeFramesOnly ==
    /\ spc = "send" /\ link = "up"
    /\ up' = up \o Frame
    /\ sleft' = sleft - FrameLen
    /\ spc' = IF sleft' < MaxFrame THEN "close" ELSE "wait"
    /\ UNCHANGED <<conns, link, down, rpc, buff, left, stored, upset>>

SendOn ==
    /\ spc = "send" /\ link = "up"
    /\ up' = up \o Frame
    /\ sleft' = sleft - FrameLen
    /\ spc' = IF sleft' = 0 THEN "close" ELSE "send"
    /\ UNCHANGED <<conns, link, down, rpc, buff, left, stored, upset>>

\* build_trans_data and a send that reports success: the frame is handed to
\* TCP.  After the last frame the thread does not wait for an answer.
SendFrame ==
    /\ spc = "send" /\ link = "up"
    /\ up' = up \o Frame
    /\ sleft' = sleft - FrameLen
    /\ spc' = IF sleft' = 0 THEN "close" ELSE "wait"
    /\ UNCHANGED <<conns, link, down, rpc, buff, left, stored, upset>>

\* send reports success on a link that has fallen silent: the frame is lost.
SendLost ==
    /\ spc = "send" /\ link = "silent"
    /\ sleft' = sleft - FrameLen
    /\ spc' = IF sleft' = 0 THEN "close" ELSE "wait"
    /\ UNCHANGED <<conns, link, up, down, rpc, buff, left, stored, upset>>

\* send fails, possibly after part of the frame has gone.
SendFails ==
    /\ spc = "send"
    /\ link # "up" \/ rpc = "idle"
    /\ up' \in IF link = "up" THEN {up \o f : f \in Prefixes(Frame) \ {Frame}} ELSE {up}
    /\ spc' = "close"
    /\ UNCHANGED <<conns, link, down, sleft, rpc, buff, left, stored, upset>>

\* Anything recv returns counts as an answer (set_check_data(false)).
TakeAnswer ==
    /\ spc = "wait" /\ link = "up"
    /\ \E k \in 1..down : down' = down - k
    /\ spc' = "send"
    /\ UNCHANGED <<conns, link, up, sleft, rpc, buff, left, stored, upset>>

\* The receiver has closed, or the connection has been reset.
AnswerFails ==
    /\ spc = "wait" /\ link # "silent"
    /\ link # "up" \/ (down = 0 /\ rpc = "idle")
    /\ spc' = "close"
    /\ UNCHANGED <<conns, link, up, down, sleft, rpc, buff, left, stored, upset>>

\* recv has no timeout: on a silent link it fails when the sender's system closes the
\* socket or gives up what is not acknowledged, and else it never returns.
WaitBroken ==
    /\ spc = "wait" /\ link = "silent"
    /\ spc' = "close"
    /\ UNCHANGED <<conns, link, up, down, sleft, rpc, buff, left, stored, upset>>

\* close() with an answer unread resets the connection.
CloseSender ==
    /\ spc = "close"
    /\ spc' = "idle"
    /\ IF link = "up" /\ down > 0
       THEN link' = "reset" /\ down' = 0 /\ up' \in Prefixes(up)
       ELSE UNCHANGED <<link, up, down, upset>>
    /\ UNCHANGED <<conns, sleft, rpc, buff, left, stored, upset>>

-----------------------------------------------------------------------------
(* The receiver's worker.                                                   *)

\* check_data: too long a buffer, or one that does not begin with a head, is
\* emptied and accepted; a frame must have exactly the length its head says
\* and the right checksum, else more bytes are awaited.
Rejected(b) == Len(b) > MaxBuffer \/ b[1].kind # "head"
Whole(b)    == ~Rejected(b) /\ Len(b) = b[1].n + 1
Checked(b)  == Whole(b) /\ \A i \in 2..Len(b) : b[i].kind = "data"

\* recv returns part of what has arrived.
Receive ==
    /\ rpc = "recv" /\ link # "silent"
    /\ \E k \in 1..Len(up) :
          /\ buff' = buff \o SubSeq(up, 1, k)
          /\ up' = SubSeq(up, k + 1, Len(up))
    /\ rpc' = IF Rejected(buff') THEN "close"
              ELSE IF Checked(buff') THEN "store" ELSE "recv"
    /\ UNCHANGED <<conns, link, down, spc, sleft, left, stored, upset>>

\* The sender has closed and everything it sent has been read, or the
\* connection has been reset.  A worker whose piece is complete reads once more,
\* for the end: nothing but that can arrive any more.
ReceiveFails ==
    /\ rpc \in {"recv", "drain"}
    /\ up = <<>> /\ (link = "reset" \/ (link = "up" /\ spc = "idle"))
    /\ rpc' = "close"
    /\ UNCHANGED <<conns, link, up, down, spc, sleft, buff, left, stored, upset>>

\* No progress for a minute: quit() shuts the socket down.  A peer that is only
\* slow may be hit as well.
Stuck == up = <<>> /\ (link = "silent" \/ (spc = "wait" /\ down = 0))

NeverShut ==
    /\ rpc = "recv" /\ "slow" \in Faults /\ ~Stuck
    /\ rpc' = "close"
    /\ upset' = TRUE
    /\ UNCHANGED <<conns, link, up, down, spc, sleft, buff, left, stored>>

QuietShut ==
    /\ rpc = "recv"
    /\ "slow" \in Faults \/ Stuck
    /\ rpc' = "close"
    /\ upset' = (upset \/ ~Stuck)
    /\ UNCHANGED <<conns, link, up, down, spc, sleft, buff, left, stored>>

\* update_file_piece_data: the payload, cut to what is missing, is copied to
\* where the mapping pointer stands.
Payload == [i \in 1..(Len(buff) - 1) |-> buff[i + 1].n]
Overlay(s, at, data) ==
    [i \in 1..(IF Len(s) > at + Len(data) THEN Len(s) ELSE at + Len(data)) |->
        IF i \in (at + 1)..(at + Len(data)) THEN data[i - at] ELSE s[i]]

AppendChunk ==
    /\ rpc = "store"
    /\ LET len == IF Len(Payload) > left THEN left ELSE Len(Payload)
       IN  /\ stored' = Overlay(stored, Len(stored), SubSeq(Payload, 1, len))
           /\ left' = left - len
    /\ buff' = <<>>
    /\ rpc' = IF left' = 0 THEN "drain" ELSE "answer"
    /\ UNCHANGED <<conns, link, up, down, spc, sleft, upset>>

StoreChunk ==
    /\ rpc = "store"
    /\ LET len == IF Len(Payload) > left THEN left ELSE Len(Payload)
       IN  /\ stored' = Overlay(stored, Units - left, SubSeq(Payload, 1, len))
           /\ left' = left - len
    /\ buff' = <<>>
    /\ rpc' = IF left' = 0 THEN "drain" ELSE "answer"
    /\ UNCHANGED <<conns, link, up, down, spc, sleft, upset>>

NoAnswer ==
    /\ rpc = "answer" /\ link = "up"
    /\ down' = down
    /\ rpc' = "recv"
    /\ UNCHANGED <<conns, link, up, spc, sleft, buff, left, stored, upset>>

\* send("continue") on a connection the sender still has open.
Answer ==
    /\ rpc = "answer" /\ link = "up"
    /\ \E k \in 1..AnswerParts :
          down' = down + k /\ upset' = (upset \/ k > 1)
    /\ rpc' = "recv"
    /\ UNCHANGED <<conns, link, up, spc, sleft, buff, left, stored>>

SendBackFails ==
    /\ rpc = "answer"
    /\ link # "up" \/ spc = "idle"
    /\ rpc' = "close"
    /\ UNCHANGED <<conns, link, up, down, spc, sleft, buff, left, stored, upset>>

CloseReceiver ==
    /\ rpc = "close"
    /\ rpc' = "idle" /\ buff' = <<>>
    /\ UNCHANGED <<conns, link, up, down, spc, sleft, left, stored, upset>>

-----------------------------------------------------------------------------
(* The network.                                                             *)

\* A reset loses what is on its way, on both sides.
Reset ==
    /\ "reset" \in Faults /\ link = "up"
    /\ link' = "reset" /\ down' = 0
    /\ up' \in Prefixes(up)
    /\ UNCHANGED <<conns, spc, sleft, rpc, buff, left, stored, upset>>

\* From now on neither side hears of the other: the sender's system closes its socket
\* and the FIN is lost, or the receiver or the path to it is gone.
FallSilent ==
    /\ "silent" \in Faults /\ link = "up"
    /\ link' = "silent" /\ down' = 0 /\ up' = <<>>
    /\ UNCHANGED <<conns, spc, sleft, rpc, buff, left, stored, upset>>

\* A unit arrives changed.
Damage ==
    /\ "damage" \in Faults /\ link = "up"
    /\ \E i \in 1..Len(up) : up[i].kind = "data" /\ up' = [up EXCEPT ![i] = Junk]
    /\ upset' = TRUE
    /\ UNCHANGED <<conns, link, down, spc, sleft, rpc, buff, left, stored>>

Sender   == SendFrame \/ SendLost \/ SendFails \/ TakeAnswer \/ AnswerFails \/ CloseSender
Receiver == \/ Receive \/ ReceiveFails \/ QuietShut \/ StoreChunk \/ Answer
            \/ SendBackFails \/ CloseReceiver
Network  == Reset \/ FallSilent \/ WaitBroken \/ Damage

Next == Connect \/ Sender \/ Receiver \/ Network

Spec == Init /\ [][Next]_vars

(***************************************************************************)
(* Fairness: both threads run, what is on its way arrives, and the timer   *)
(* of RecvTransfer shuts a quiet connection down.  Nothing is said of a    *)
(* sender that waits on a silent link.                                     *)
(***************************************************************************)
FairSpec == Spec /\ WF_vars(Sender) /\ WF_vars(Receiver)

-----------------------------------------------------------------------------
(* What is checked.                                                         *)

Wire == [kind : {"head", "data", "junk"}, n : 0..(Units + MaxFrame)]

\* The type of every variable.
TypeOK ==
    /\ conns \in 0..MaxConns /\ link \in {"none", "up", "reset", "silent"}
    /\ up \in Seq(Wire) /\ down \in Nat
    /\ spc \in {"idle", "send", "wait", "close"} /\ sleft \in 0..Units
    /\ rpc \in {"idle", "recv", "store", "answer", "drain", "close"}
    /\ buff \in Seq(Wire)
    /\ left \in 0..Units /\ stored \in Seq(1..Units)
    /\ upset \in BOOLEAN

\* The data file holds the units of the piece in their places, and at least as
\* many as the counter says: no damage, loss, reconnection, kill or longer frame
\* puts a byte where another belongs (SendCtrl's seekg against RecvMmap's mapping).
Genuine ==
    /\ \A i \in 1..Len(stored) : stored[i] = i
    /\ Units - left <= Len(stored)

\* On a connection that works and on which nothing was upset, the sender begins a
\* frame only when the receiver has stored all those before, is never more than one
\* frame ahead, and the two do not wait for each other.
StopAndWait == link = "up" /\ ~upset =>
    /\ spc = "send" => left = sleft
    /\ left \in sleft..(sleft + MaxFrame)
    /\ ~(spc = "wait" /\ down = 0 /\ rpc = "recv" /\ up = <<>>)

\* A frame that arrives whole and fails its checksum closes the connection.
CrcCloses == ~(rpc = "recv" /\ buff # <<>> /\ Whole(buff))

\* A connection that stays up, and on which nothing is damaged, brings all that is
\* missing over, the short last frame included.
Completes == (link = "up") ~> (left = 0 \/ link # "up" \/ upset)

\* Whatever happens to it, a connection comes to an end on both sides; but on a link
\* that has fallen silent the sender may wait for an answer for ever, as recv has no
\* timeout, and so may a receiver that drains it, as quit() has lost its socket.
Ends == []<>(/\ spc = "idle" \/ (spc = "wait" /\ link = "silent")
             /\ rpc = "idle" \/ (rpc = "drain" /\ link = "silent"))

=============================================================================

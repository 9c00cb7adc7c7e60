------------------------- MODULE RecvTransferProofs -------------------------
EXTENDS RecvTransfer, TLAPS

\* The constant functions the actions assign are of the right types.
LEMMA Constants ==
    /\ Nothing \in Lefts /\ PieceLen \in Lefts
    /\ AllIdle \in [Pieces -> WorkerPCs] /\ NoneShut \in [Pieces -> BOOLEAN]
  BY LenAssumption DEF Nothing, Lefts, AllIdle, NoneShut, WorkerPCs

\* The type invariant is preserved; what is counted never exceeds what is
\* missing because of WorkerKnows.
LEMMA TypeStep == TypeOK /\ WorkerKnows /\ [Next]_vars => TypeOK'
<1>1. ASSUME TypeOK, FreshInit PROVE TypeOK'
  <2>1. tpc' \in ServerPCs
    BY <1>1 DEF FreshInit, ServerPCs
  <2>. QED
    BY <1>1, <2>1 DEF FreshInit, TypeOK, disk, ctrl, workers, ticks
<1>2. ASSUME TypeOK, RemoveInfo PROVE TypeOK'
  <2>1. tpc' \in ServerPCs
    BY <1>2 DEF RemoveInfo, ServerPCs
  <2>. QED
    BY Constants, <1>2, <2>1 DEF RemoveInfo, TypeOK, ctrl, workers, ticks
<1>3. ASSUME TypeOK, RemoveData PROVE TypeOK'
  <2>1. tpc' \in ServerPCs
    BY <1>3 DEF RemoveData, ServerPCs
  <2>2. dataThere' = FALSE /\ written' \in Lefts /\ spoiled' = FALSE
    BY Constants, <1>3 DEF RemoveData
  <2>3. UNCHANGED <<info, infoLeft, published, ctrl, workers, todo, ticks, snap,
                    linked>>
    BY <1>3 DEF RemoveData
  <2>. QED
    BY <1>3, <2>1, <2>2, <2>3, ZenonT(60) DEF TypeOK, ctrl, workers, ticks
<1>4. ASSUME TypeOK, CreateData PROVE TypeOK'
  <2>1. tpc' \in ServerPCs
    BY <1>4 DEF CreateData, ServerPCs
  <2>2. mapped' \in BOOLEAN /\ left' \in Lefts /\ written' \in Lefts
    BY Constants, <1>4 DEF CreateData, TypeOK
  <2>3. UNCHANGED <<info, infoLeft, published, live, pend, started, canClear, botched, workers, todo, ticks, snap, linked>>
        /\ dataThere' = TRUE /\ spoiled' = FALSE
    BY <1>4 DEF CreateData
  <2>. QED
    BY <1>4, <2>1, <2>2, <2>3, ZenonT(60) DEF TypeOK, workers, ticks
<1>5. ASSUME TypeOK, InitOpenInfo PROVE TypeOK'
  <2>1. tpc' \in ServerPCs
    BY <1>5 DEF InitOpenInfo, ServerPCs
  <2>. QED
    BY Constants, <1>5, <2>1 DEF InitOpenInfo, TypeOK, ctrl, workers, ticks
<1>6. ASSUME TypeOK, InitWriteInfo PROVE TypeOK'
  <2>1. tpc' \in ServerPCs
    BY <1>6 DEF InitWriteInfo, ServerPCs
  <2>. QED
    BY <1>6, <2>1 DEF InitWriteInfo, TypeOK, ctrl, workers, ticks
<1>7. ASSUME TypeOK, ResumeInit PROVE TypeOK'
  <2>1. tpc' \in ServerPCs
    BY <1>7 DEF ResumeInit, ServerPCs
  <2>. QED
    BY <1>7, <2>1 DEF ResumeInit, TypeOK, disk, workers, ticks
<1>8. ASSUME TypeOK, Reply PROVE TypeOK'
  <2>1. tpc' \in ServerPCs
    BY <1>8 DEF Reply, ServerPCs
  <2>2. live' \in BOOLEAN /\ mapped' \in BOOLEAN /\ left' \in Lefts /\ todo' \in SUBSET Pieces
    BY <1>8, Constants DEF Reply, TypeOK
  <2>. QED
    BY Constants, <1>8, <2>1, <2>2 DEF Reply, TypeOK, disk, workers, ticks
<1>9. ASSUME TypeOK, TickDone PROVE TypeOK'
  <2>1. tpc' \in ServerPCs
    BY <1>9 DEF TickDone, ServerPCs
  <2>. QED
    BY <1>9, <2>1 DEF TickDone, TypeOK, disk, ctrl, workers, ticks
<1>10. ASSUME TypeOK, TickFirst PROVE TypeOK'
  <2>1. tpc' \in ServerPCs
    BY <1>10 DEF TickFirst, ServerPCs
  <2>. QED
    BY <1>10, <2>1 DEF TickFirst, TypeOK, disk, ctrl, workers
<1>11. ASSUME TypeOK, TickProgress PROVE TypeOK'
  <2>1. tpc' \in ServerPCs
    BY <1>11 DEF TickProgress, ServerPCs
  <2>. QED
    BY <1>11, <2>1 DEF TickProgress, TypeOK, disk, ctrl, workers
<1>12. ASSUME TypeOK, TickQuiet PROVE TypeOK'
  <2>1. tpc' \in ServerPCs
    BY <1>12 DEF TickQuiet, ServerPCs
  <2>2. quiet' \in Nat
    BY <1>12, LimitAssumption DEF TickQuiet, TypeOK, Smaller
  <2>. QED
    BY <1>12, <2>1, <2>2 DEF TickQuiet, TypeOK, disk, ctrl, workers
<1>13. ASSUME TypeOK, QuitQuiet PROVE TypeOK'
  <2>1. tpc' \in ServerPCs
    BY <1>13 DEF QuitQuiet, ServerPCs
  <2>2. shut' \in [Pieces -> BOOLEAN]
    BY <1>13 DEF QuitQuiet, ShutListed, TypeOK
  <2>. QED
    BY <1>13, <2>1, <2>2 DEF QuitQuiet, TypeOK, disk, ctrl, ticks
<1>14. ASSUME TypeOK, DecideSave PROVE TypeOK'
  <2>1. tpc' \in ServerPCs
    BY <1>14 DEF DecideSave, ServerPCs
  <2>2. dirty' \in BOOLEAN
    BY <1>14 DEF DecideSave, TypeOK
  <2>. QED
    BY <1>14, <2>1, <2>2 DEF DecideSave, TypeOK, disk, ctrl, workers
<1>15. ASSUME TypeOK, Serialize PROVE TypeOK'
  <2>1. tpc' \in ServerPCs
    BY <1>15 DEF Serialize, ServerPCs
  <2>. QED
    BY <1>15, <2>1 DEF Serialize, TypeOK, disk, ctrl, workers, ticks
<1>16. ASSUME TypeOK, OpenInfo PROVE TypeOK'
  <2>1. tpc' \in ServerPCs
    BY <1>16 DEF OpenInfo, ServerPCs
  <2>2. /\ info' \in {"absent", "empty", "cut", "saved"} /\ infoLeft' \in Lefts
        /\ snap' \in Lefts /\ linked' \in BOOLEAN
    BY Constants, <1>16 DEF OpenInfo, TypeOK
  <2>. QED
    BY Constants, <1>16, <2>1, <2>2, ZenonT(60) DEF OpenInfo, TypeOK, ctrl, workers, ticks
<1>17. ASSUME TypeOK, WriteInfo PROVE TypeOK'
  <2>1. tpc' \in ServerPCs
    BY <1>17 DEF WriteInfo, ServerPCs
  <2>2. info' \in {"absent", "empty", "cut", "saved"} /\ infoLeft' \in Lefts
    BY <1>17 DEF WriteInfo, TypeOK
  <2>. QED
    BY Constants, <1>17, <2>1, <2>2, ZenonT(60) DEF WriteInfo, TypeOK, ctrl, workers, ticks
<1>18. ASSUME TypeOK, CountIdle PROVE TypeOK'
  <2>1. tpc' \in ServerPCs
    BY <1>18 DEF CountIdle, ServerPCs
  <2>2. idleTicks' \in Nat /\ canClear' \in BOOLEAN
    BY <1>18, LimitAssumption DEF CountIdle, TypeOK, Smaller
  <2>. QED
    BY <1>18, <2>1, <2>2 DEF CountIdle, TypeOK, disk, workers
<1>19. ASSUME TypeOK, Sweep PROVE TypeOK'
  <2>1. tpc' \in ServerPCs
    BY <1>19 DEF Sweep, ServerPCs
  <2>2. shut' \in [Pieces -> BOOLEAN]
    BY <1>19 DEF Sweep, ShutListed, TypeOK
  <2>3. live' \in BOOLEAN
    BY <1>19 DEF Sweep, TypeOK
  <2>. QED
    BY <1>19, <2>1, <2>2, <2>3 DEF Sweep, TypeOK, disk, ticks
<1>20. ASSUME TypeOK, Free PROVE TypeOK'
  <2>1. tpc' \in ServerPCs
    BY <1>20 DEF Free, ServerPCs, FreshMemory
  <2>. QED
    BY Constants, <1>20, <2>1 DEF Free, TypeOK, disk, FreshMemory
<1>21. ASSUME TypeOK, ServerQuit PROVE TypeOK'
  <2>1. tpc' \in ServerPCs
    BY <1>21 DEF ServerQuit, ServerPCs
  <2>2. shut' \in [Pieces -> BOOLEAN]
    BY <1>21 DEF ServerQuit, ShutListed, TypeOK
  <2>3. live' \in BOOLEAN
    BY <1>21 DEF ServerQuit, TypeOK
  <2>. QED
    BY <1>21, <2>1, <2>2, <2>3 DEF ServerQuit, TypeOK, disk, ticks
<1>22. ASSUME TypeOK, Crash PROVE TypeOK'
  <2>1. tpc' \in ServerPCs
    BY <1>22 DEF Crash, ServerPCs, FreshMemory
  <2>. QED
    BY Constants, <1>22, <2>1 DEF Crash, TypeOK, disk, FreshMemory
<1>23. ASSUME TypeOK, WorkerKnows, NEW p \in Pieces, CountChunk(p) PROVE TypeOK'
  <2>1. wpc' \in [Pieces -> WorkerPCs]
    BY <1>23 DEF CountChunk, Goto, WorkerPCs, TypeOK
  <2>2. left \in Lefts /\ pend \in Nat /\ pend <= left[p]
    BY <1>23 DEF CountChunk, WorkerKnows, TypeOK
  <2>3. left' = [left EXCEPT ![p] = @ - pend]
    BY <1>23 DEF CountChunk
  <2>4. left' \in Lefts
    <3>1. left[p] - pend \in Nat /\ left[p] - pend <= left[p]
      BY <2>2 DEF Lefts
    <3>2. left' \in [Pieces -> Nat]
      BY <2>2, <2>3, <3>1 DEF Lefts
    <3>3. ASSUME NEW q \in Pieces PROVE left'[q] <= PieceLen[q]
      <4>1. left'[q] \in Nat /\ left'[q] <= left[q]
        BY <2>2, <2>3, <3>1, <3>2 DEF Lefts
      <4>2. left[q] \in Nat /\ left[q] <= PieceLen[q] /\ PieceLen[q] \in Nat
        BY <2>2, LenAssumption DEF Lefts
      <4>. QED
        BY <4>1, <4>2
    <3>. QED
      BY <3>2, <3>3 DEF Lefts
  <2>. QED
    BY <1>23, <2>1, <2>4 DEF CountChunk, TypeOK, disk, ticks, server
<1>24. ASSUME TypeOK, WorkerKnows, NEW p \in Pieces, SendContinue(p) PROVE TypeOK'
  <2>1. wpc' \in [Pieces -> WorkerPCs]
    BY <1>24 DEF SendContinue, Goto, WorkerPCs, TypeOK
  <2>. QED
    BY <1>24, <2>1 DEF SendContinue, TypeOK, disk, ctrl, ticks, server
<1>25. ASSUME TypeOK, WorkerKnows, NEW p \in Pieces, Delist(p) PROVE TypeOK'
  <2>1. wpc' \in [Pieces -> WorkerPCs]
    BY <1>25 DEF Delist, Goto, WorkerPCs, TypeOK
  <2>. QED
    BY <1>25, <2>1 DEF Delist, TypeOK, disk, ctrl, ticks, server
<1>26. ASSUME TypeOK, WorkerKnows, NEW p \in Pieces, SeeStatus(p) PROVE TypeOK'
  <2>1. wpc' \in [Pieces -> WorkerPCs]
    BY <1>26 DEF SeeStatus, Goto, WorkerPCs, TypeOK
  <2>. QED
    BY <1>26, <2>1 DEF SeeStatus, TypeOK, disk, ctrl, ticks, server
<1>27. ASSUME TypeOK, WorkerKnows, NEW p \in Pieces, Claim(p) PROVE TypeOK'
  <2>1. wpc' \in [Pieces -> WorkerPCs]
    BY <1>27 DEF Claim, Goto, WorkerPCs, TypeOK
  <2>2. mapped' \in BOOLEAN
    BY <1>27 DEF Claim, TypeOK
  <2>. QED
    BY <1>27, <2>1, <2>2 DEF Claim, TypeOK, disk, ticks, server
<1>28. ASSUME TypeOK, WorkerKnows, NEW p \in Pieces, Verify(p) PROVE TypeOK'
  <2>1. wpc' \in [Pieces -> WorkerPCs]
    BY <1>28 DEF Verify, Goto, WorkerPCs, TypeOK
  <2>. QED
    BY Constants, <1>28, <2>1 DEF Verify, TypeOK, disk, ctrl, ticks, server
<1>29. ASSUME TypeOK, WorkerKnows, NEW p \in Pieces, RenameData(p) PROVE TypeOK'
  <2>1. wpc' \in [Pieces -> WorkerPCs]
    BY <1>29 DEF RenameData, Goto, WorkerPCs, TypeOK
  <2>2. /\ dataThere' \in BOOLEAN /\ written' \in Lefts /\ spoiled' \in BOOLEAN
        /\ published' \in BOOLEAN /\ botched' \in BOOLEAN
    BY Constants, <1>29 DEF RenameData, TypeOK
  <2>3. UNCHANGED <<info, infoLeft, live, mapped, left, pend, started, canClear,
                    shut, todo, ticks, server>>
    BY <1>29 DEF RenameData
  <2>. QED
    BY <1>29, <2>1, <2>2, <2>3, ZenonT(60) DEF TypeOK, ticks, server
<1>30. ASSUME TypeOK, WorkerKnows, NEW p \in Pieces, DiscardData(p) PROVE TypeOK'
  <2>1. wpc' \in [Pieces -> WorkerPCs]
    BY <1>30 DEF DiscardData, Goto, WorkerPCs, TypeOK
  <2>2. /\ dataThere' \in BOOLEAN /\ written' \in Lefts /\ spoiled' \in BOOLEAN
        /\ botched' \in BOOLEAN
    BY Constants, <1>30 DEF DiscardData, TypeOK
  <2>3. UNCHANGED <<info, infoLeft, published, live, mapped, left, pend, started, canClear,
                    shut, todo, ticks, server>>
    BY <1>30 DEF DiscardData
  <2>. QED
    BY <1>30, <2>1, <2>2, <2>3, ZenonT(60) DEF TypeOK, ticks, server
<1>31. ASSUME TypeOK, WorkerKnows, NEW p \in Pieces, DropInfo(p) PROVE TypeOK'
  <2>1. wpc' \in [Pieces -> WorkerPCs]
    BY <1>31 DEF DropInfo, Goto, WorkerPCs, TypeOK
  <2>2. /\ info' \in {"absent", "empty", "cut", "saved"} /\ infoLeft' \in Lefts
        /\ linked' \in BOOLEAN /\ botched' \in BOOLEAN
    BY Constants, <1>31 DEF DropInfo, TypeOK
  <2>. QED
    BY Constants, <1>31, <2>1, <2>2, ZenonT(60) DEF DropInfo, TypeOK, ticks
<1>32. ASSUME TypeOK, WorkerKnows, NEW p \in Pieces, SetCanClear(p) PROVE TypeOK'
  <2>1. wpc' \in [Pieces -> WorkerPCs]
    BY <1>32 DEF SetCanClear, Goto, WorkerPCs, TypeOK
  <2>. QED
    BY <1>32, <2>1 DEF SetCanClear, TypeOK, disk, ticks, server
<1>33. ASSUME TypeOK, WorkerKnows, NEW p \in Pieces, Exit(p) PROVE TypeOK'
  <2>1. wpc' \in [Pieces -> WorkerPCs]
    BY <1>33 DEF Exit, Goto, WorkerPCs, TypeOK
  <2>2. shut' \in [Pieces -> BOOLEAN]
    BY <1>33 DEF Exit, TypeOK
  <2>. QED
    BY <1>33, <2>1, <2>2 DEF Exit, TypeOK, disk, ctrl, ticks, server
<1>34. ASSUME TypeOK, WorkerKnows, NEW p \in Pieces, PieceHandshake(p) PROVE TypeOK'
  <2>1. wpc' \in [Pieces -> WorkerPCs]
    BY <1>34 DEF PieceHandshake, WorkerPCs, TypeOK
  <2>. QED
    BY <1>34, <2>1 DEF PieceHandshake, TypeOK, disk, ticks, server
<1>35. ASSUME TypeOK, WorkerKnows, NEW p \in Pieces, CopyChunk(p) PROVE TypeOK'
  <2>1. wpc' \in [Pieces -> WorkerPCs]
    BY <1>35 DEF CopyChunk, Goto, WorkerPCs, TypeOK
  <2>2. PICK len \in 1..MaxChunk, genuine \in BOOLEAN :
           /\ pend' = Clamped(p, len)
           /\ spoiled' = (spoiled \/ ~genuine)
           /\ written' = [written EXCEPT ![p] = Larger(@, PieceLen[p] - left[p] + pend')]
    BY <1>35 DEF CopyChunk
  <2>3. left[p] \in 0..PieceLen[p] /\ PieceLen[p] \in Nat
    BY <1>35, LenAssumption DEF Lefts, TypeOK
  <2>4. pend' \in Nat /\ pend' <= left[p]
    BY <2>2, <2>3, ChunkAssumption DEF Clamped
  <2>5. written \in Lefts
    BY <1>35 DEF TypeOK
  <2>6. written' \in Lefts
    BY <2>2, <2>3, <2>4, <2>5, LenAssumption DEF Larger, Lefts
  <2>7. spoiled' \in BOOLEAN
    BY <2>2
  <2>. QED
    BY <1>35, <2>1, <2>4, <2>6, <2>7 DEF CopyChunk, TypeOK, ticks, server
<1>36. ASSUME TypeOK, WorkerKnows, NEW p \in Pieces, LoseConnection(p) PROVE TypeOK'
  <2>1. wpc' \in [Pieces -> WorkerPCs]
    BY <1>36 DEF LoseConnection, Goto, WorkerPCs, TypeOK
  <2>. QED
    BY <1>36, <2>1 DEF LoseConnection, TypeOK, disk, ctrl, ticks, server
<1>37. ASSUME TypeOK, WorkerKnows, NEW p \in Pieces, Drain(p) PROVE TypeOK'
  <2>1. wpc' \in [Pieces -> WorkerPCs]
    BY <1>37 DEF Drain, Goto, WorkerPCs, TypeOK
  <2>. QED
    BY <1>37, <2>1 DEF Drain, TypeOK, disk, ctrl, ticks, server
<1>38. ASSUME TypeOK, UNCHANGED vars PROVE TypeOK'
  BY <1>38 DEF TypeOK, vars, disk, ctrl, workers, ticks, server
<1>. QED
  BY <1>1, <1>2, <1>3, <1>4, <1>5, <1>6, <1>7, <1>8, <1>9, <1>10, <1>11,
     <1>12, <1>13, <1>14, <1>15, <1>16, <1>17, <1>18, <1>19, <1>20, <1>21,
     <1>22, <1>23, <1>24, <1>25, <1>26, <1>27, <1>28, <1>29, <1>30, <1>31,
     <1>32, <1>33, <1>34, <1>35, <1>36, <1>37, <1>38 DEF Next, Negotiate,
     Timer, WorkerStep, PeerStep

\* What storing a chunk does to the variables the invariant speaks of.
Copied(p) ==
    /\ mapped /\ dataThere /\ left[p] > 0
    /\ mapped' = mapped /\ dataThere' = dataThere /\ left' = left
    /\ pend' \in Nat /\ pend' <= left[p]
    /\ \A q \in Pieces : /\ written[q] \in Nat /\ written'[q] \in Nat
                         /\ written[q] <= written'[q]
                         /\ q # p => written'[q] = written[q]
    /\ PieceLen[p] - left[p] + pend' <= written'[p]
    /\ wpc'[p] = "copied"
    /\ \A q \in Pieces : wpc[q] # "copied" /\ (q # p => wpc'[q] = wpc[q])

\* A chunk is copied for a mapped piece, within what is missing, by one worker only.
LEMMA CopyFacts ==
    ASSUME IInv, NEW p \in Pieces, CopyChunk(p)
    PROVE  Copied(p)
<1>1. PICK len \in 1..MaxChunk : pend' = Clamped(p, len)
  BY DEF CopyChunk
<1>2. /\ written' = [written EXCEPT ![p] = Larger(@, PieceLen[p] - left[p] + pend')]
      /\ mapped' = mapped /\ dataThere' = dataThere /\ left' = left
      /\ wpc[p] = "recv" /\ wpc' = [wpc EXCEPT ![p] = "copied"]
      /\ \A q \in Pieces : wpc[q] # "copied"
  BY DEF CopyChunk, Goto, MmapFree
<1>3. wpc \in [Pieces -> WorkerPCs] /\ written \in [Pieces -> Nat]
      /\ left \in [Pieces -> Nat] /\ PieceLen \in [Pieces -> Nat]
      /\ left[p] <= PieceLen[p]
  BY LenAssumption DEF IInv, TypeOK, Lefts
<1>4. left[p] > 0
  BY <1>2 DEF IInv, WorkerKnows
<1>5. mapped /\ dataThere
  BY <1>2, <1>3, <1>4 DEF IInv, Lifetime, NoWorkers, MemoryStored, Done
<1>6. pend' \in Nat /\ pend' <= left[p]
  BY <1>1, <1>3, ChunkAssumption DEF Clamped
<1>7. \A q \in Pieces : /\ written[q] \in Nat /\ written'[q] \in Nat
                        /\ written[q] <= written'[q]
                        /\ q # p => written'[q] = written[q]
  BY <1>2, <1>3, <1>6 DEF Larger
<1>8. PieceLen[p] - left[p] + pend' <= written'[p]
  BY <1>2, <1>3, <1>6 DEF Larger
<1>9. /\ wpc'[p] = "copied"
      /\ \A q \in Pieces : wpc[q] # "copied" /\ (q # p => wpc'[q] = wpc[q])
  BY <1>2, <1>3
<1>10. mapped' = mapped /\ dataThere' = dataThere /\ left' = left
  BY <1>2
<1>. QED
  BY <1>4, <1>5, <1>6, <1>7, <1>8, <1>9, <1>10 DEF Copied

\* No thread, mapping or unanswered piece outlasts its controller.
LEMMA LifetimeStep == IInv /\ TypeOK' /\ [Next]_vars => Lifetime'
<1> USE LenAssumption DEF IInv, Lifetime, Negotiating, Ticking, NoWorkers, Nothing,
        AllIdle, ticks, TypeOK, Lefts
<1>1. ASSUME IInv, TypeOK', FreshInit PROVE Lifetime'
  BY <1>1 DEF FreshInit, disk, ctrl, workers
<1>2. ASSUME IInv, TypeOK', RemoveInfo PROVE Lifetime'
  BY <1>2 DEF RemoveInfo, ctrl, workers
<1>3. ASSUME IInv, TypeOK', RemoveData PROVE Lifetime'
  BY <1>3 DEF RemoveData, ctrl, workers
<1>4. ASSUME IInv, TypeOK', CreateData PROVE Lifetime'
  BY <1>4 DEF CreateData, workers
<1>5. ASSUME IInv, TypeOK', InitOpenInfo PROVE Lifetime'
  BY <1>5 DEF InitOpenInfo, ctrl, workers
<1>6. ASSUME IInv, TypeOK', InitWriteInfo PROVE Lifetime'
  BY <1>6 DEF InitWriteInfo, ctrl, workers
<1>7. ASSUME IInv, TypeOK', ResumeInit PROVE Lifetime'
  BY <1>7 DEF ResumeInit, disk, workers
<1>8. ASSUME IInv, TypeOK', Reply PROVE Lifetime'
  BY <1>8 DEF Reply, disk, workers
<1>9. ASSUME IInv, TypeOK', TickDone PROVE Lifetime'
  BY <1>9 DEF TickDone, disk, ctrl, workers
<1>10. ASSUME IInv, TypeOK', TickFirst PROVE Lifetime'
  BY <1>10 DEF TickFirst, disk, ctrl, workers
<1>11. ASSUME IInv, TypeOK', TickProgress PROVE Lifetime'
  BY <1>11 DEF TickProgress, disk, ctrl, workers
<1>12. ASSUME IInv, TypeOK', TickQuiet PROVE Lifetime'
  BY <1>12 DEF TickQuiet, disk, ctrl, workers
<1>13. ASSUME IInv, TypeOK', QuitQuiet PROVE Lifetime'
  BY <1>13 DEF QuitQuiet, disk, ctrl
<1>14. ASSUME IInv, TypeOK', DecideSave PROVE Lifetime'
  BY <1>14 DEF DecideSave, disk, ctrl, workers
<1>15. ASSUME IInv, TypeOK', Serialize PROVE Lifetime'
  BY <1>15 DEF Serialize, disk, ctrl, workers
<1>16. ASSUME IInv, TypeOK', OpenInfo PROVE Lifetime'
  BY <1>16 DEF OpenInfo, ctrl, workers
<1>17. ASSUME IInv, TypeOK', WriteInfo PROVE Lifetime'
  BY <1>17 DEF WriteInfo, ctrl, workers
<1>18. ASSUME IInv, TypeOK', CountIdle PROVE Lifetime'
  BY <1>18 DEF CountIdle, disk, workers
<1>19. ASSUME IInv, TypeOK', Sweep PROVE Lifetime'
  BY <1>19 DEF Sweep, disk
<1>20. ASSUME IInv, TypeOK', Free PROVE Lifetime'
  BY <1>20 DEF Free, disk, FreshMemory
<1>21. ASSUME IInv, TypeOK', ServerQuit PROVE Lifetime'
  BY <1>21 DEF ServerQuit, disk
<1>22. ASSUME IInv, TypeOK', Crash PROVE Lifetime'
  BY <1>22 DEF Crash, disk, FreshMemory
<1>23. ASSUME IInv, TypeOK', NEW p \in Pieces, CountChunk(p) PROVE Lifetime'
  BY <1>23 DEF CountChunk, disk, server, Goto
<1>24. ASSUME IInv, TypeOK', NEW p \in Pieces, SendContinue(p) PROVE Lifetime'
  BY <1>24 DEF SendContinue, disk, ctrl, server, Goto
<1>25. ASSUME IInv, TypeOK', NEW p \in Pieces, Delist(p) PROVE Lifetime'
  BY <1>25 DEF Delist, disk, ctrl, server, Goto
<1>26. ASSUME IInv, TypeOK', NEW p \in Pieces, SeeStatus(p) PROVE Lifetime'
  BY <1>26 DEF SeeStatus, disk, ctrl, server, Goto, Done
<1>27. ASSUME IInv, TypeOK', NEW p \in Pieces, Claim(p) PROVE Lifetime'
  BY <1>27 DEF Claim, disk, server, Goto, Done
<1>28. ASSUME IInv, TypeOK', NEW p \in Pieces, Verify(p) PROVE Lifetime'
  BY <1>28 DEF Verify, disk, ctrl, server, Goto
<1>29. ASSUME IInv, TypeOK', NEW p \in Pieces, RenameData(p) PROVE Lifetime'
  BY <1>29 DEF RenameData, ctrl, server, Goto
<1>30. ASSUME IInv, TypeOK', NEW p \in Pieces, DiscardData(p) PROVE Lifetime'
  BY <1>30 DEF DiscardData, ctrl, server, Goto
<1>31. ASSUME IInv, TypeOK', NEW p \in Pieces, DropInfo(p) PROVE Lifetime'
  BY <1>31 DEF DropInfo, ctrl, Goto
<1>32. ASSUME IInv, TypeOK', NEW p \in Pieces, SetCanClear(p) PROVE Lifetime'
  BY <1>32 DEF SetCanClear, disk, server, Goto
<1>33. ASSUME IInv, TypeOK', NEW p \in Pieces, Exit(p) PROVE Lifetime'
  BY <1>33 DEF Exit, disk, ctrl, server, Goto
<1>34. ASSUME IInv, TypeOK', NEW p \in Pieces, PieceHandshake(p) PROVE Lifetime'
  BY <1>34 DEF PieceHandshake, disk, server
<1>35. ASSUME IInv, TypeOK', NEW p \in Pieces, CopyChunk(p) PROVE Lifetime'
  BY <1>35 DEF CopyChunk, server, Goto
<1>36. ASSUME IInv, TypeOK', NEW p \in Pieces, LoseConnection(p) PROVE Lifetime'
  BY <1>36 DEF LoseConnection, disk, ctrl, server, Goto
<1>37. ASSUME IInv, TypeOK', NEW p \in Pieces, Drain(p) PROVE Lifetime'
  BY <1>37 DEF Drain, disk, ctrl, server, Goto
<1>38. ASSUME IInv, UNCHANGED <<tpc, live, wpc, todo, mapped, info>> PROVE Lifetime'
  BY <1>38
<1>. QED
  BY <1>1, <1>2, <1>3, <1>4, <1>5, <1>6, <1>7, <1>8, <1>9, <1>10, <1>11, <1>12, <1>13,
       <1>14, <1>15, <1>16, <1>17, <1>18, <1>19, <1>20, <1>21, <1>22, <1>23, <1>24, <1>25,
       <1>26, <1>27, <1>28, <1>29, <1>30, <1>31, <1>32, <1>33, <1>34, <1>35, <1>36, <1>37,
       <1>38 DEF Next, Negotiate, Timer, WorkerStep, PeerStep, Goto, vars, disk, ctrl,
       workers, server

\* What a worker has seen stays true while it acts on it, as left only decreases.
LEMMA WorkerKnowsStep == IInv /\ TypeOK' /\ [Next]_vars => WorkerKnows'
<1> USE LenAssumption DEF IInv, WorkerKnows, Done, Nothing, AllIdle, Lifetime,
        Negotiating, Ticking, NoWorkers, ticks, TypeOK, Lefts
<1>1. ASSUME IInv, TypeOK', CreateData PROVE WorkerKnows'
  BY <1>1 DEF CreateData, workers
<1>2. ASSUME IInv, TypeOK', ResumeInit PROVE WorkerKnows'
  BY <1>2 DEF ResumeInit, disk, workers
<1>3. ASSUME IInv, TypeOK', Reply PROVE WorkerKnows'
  BY <1>3 DEF Reply, disk, workers
<1>4. ASSUME IInv, TypeOK', Free PROVE WorkerKnows'
  BY <1>4 DEF Free, disk, FreshMemory
<1>5. ASSUME IInv, TypeOK', Crash PROVE WorkerKnows'
  BY <1>5 DEF Crash, disk, FreshMemory
<1>6. ASSUME IInv, TypeOK', NEW p \in Pieces, CountChunk(p) PROVE WorkerKnows'
  BY <1>6 DEF CountChunk, disk, server, Goto
<1>7. ASSUME IInv, TypeOK', NEW p \in Pieces, SendContinue(p) PROVE WorkerKnows'
  BY <1>7 DEF SendContinue, disk, ctrl, server, Goto
<1>8. ASSUME IInv, TypeOK', NEW p \in Pieces, Delist(p) PROVE WorkerKnows'
  BY <1>8 DEF Delist, disk, ctrl, server, Goto
<1>9. ASSUME IInv, TypeOK', NEW p \in Pieces, SeeStatus(p) PROVE WorkerKnows'
  BY <1>9 DEF SeeStatus, disk, ctrl, server, Goto
<1>10. ASSUME IInv, TypeOK', NEW p \in Pieces, Claim(p) PROVE WorkerKnows'
  BY <1>10 DEF Claim, disk, server, Goto
<1>11. ASSUME IInv, TypeOK', NEW p \in Pieces, Verify(p) PROVE WorkerKnows'
  BY <1>11 DEF Verify, disk, ctrl, server, Goto
<1>12. ASSUME IInv, TypeOK', NEW p \in Pieces, RenameData(p) PROVE WorkerKnows'
  BY <1>12 DEF RenameData, ctrl, server, Goto
<1>13. ASSUME IInv, TypeOK', NEW p \in Pieces, DiscardData(p) PROVE WorkerKnows'
  BY <1>13 DEF DiscardData, ctrl, server, Goto
<1>14. ASSUME IInv, TypeOK', NEW p \in Pieces, DropInfo(p) PROVE WorkerKnows'
  BY <1>14 DEF DropInfo, ctrl, Goto
<1>15. ASSUME IInv, TypeOK', NEW p \in Pieces, SetCanClear(p) PROVE WorkerKnows'
  BY <1>15 DEF SetCanClear, disk, server, Goto
<1>16. ASSUME IInv, TypeOK', NEW p \in Pieces, Exit(p) PROVE WorkerKnows'
  BY <1>16 DEF Exit, disk, ctrl, server, Goto
<1>17. ASSUME IInv, TypeOK', NEW p \in Pieces, PieceHandshake(p) PROVE WorkerKnows'
  BY <1>17 DEF PieceHandshake, disk, server
<1>18. ASSUME IInv, TypeOK', NEW p \in Pieces, CopyChunk(p) PROVE WorkerKnows'
  BY <1>18, CopyFacts DEF Copied, CopyChunk
<1>19. ASSUME IInv, TypeOK', NEW p \in Pieces, LoseConnection(p) PROVE WorkerKnows'
  BY <1>19 DEF LoseConnection, disk, ctrl, server, Goto
<1>20. ASSUME IInv, TypeOK', NEW p \in Pieces, Drain(p) PROVE WorkerKnows'
  BY <1>20 DEF Drain, disk, ctrl, server, Goto
<1>21. ASSUME IInv, UNCHANGED <<wpc, left, pend, todo>> PROVE WorkerKnows'
  BY <1>21
<1>. QED
  BY <1>1, <1>2, <1>3, <1>4, <1>5, <1>6, <1>7, <1>8, <1>9, <1>10, <1>11, <1>12, <1>13,
       <1>14, <1>15, <1>16, <1>17, <1>18, <1>19, <1>20, <1>21 DEF Next, Negotiate, Timer,
       WorkerStep, PeerStep, FreshInit, RemoveInfo, RemoveData, InitOpenInfo,
       InitWriteInfo, TickDone, TickFirst, TickProgress, TickQuiet, QuitQuiet, DecideSave,
       Serialize, OpenInfo, WriteInfo, CountIdle, Sweep, ServerQuit, Goto, vars, disk,
       ctrl, workers, server

\* The critical section of update_file_piece_data has one worker in it.
LEMMA MutexHeldStep == IInv /\ TypeOK' /\ [Next]_vars => MutexHeld'
<1> USE LenAssumption DEF IInv, MutexHeld, AllIdle, Lifetime, NoWorkers, disk, TypeOK,
        Lefts, ticks, server, Goto
<1>1. ASSUME IInv, TypeOK', Free PROVE MutexHeld'
  BY <1>1 DEF Free, FreshMemory
<1>2. ASSUME IInv, TypeOK', Crash PROVE MutexHeld'
  BY <1>2 DEF Crash, FreshMemory
<1>3. ASSUME IInv, TypeOK', NEW p \in Pieces, CountChunk(p) PROVE MutexHeld'
  BY <1>3 DEF CountChunk
<1>4. ASSUME IInv, TypeOK', NEW p \in Pieces, SendContinue(p) PROVE MutexHeld'
  BY <1>4 DEF SendContinue, ctrl
<1>5. ASSUME IInv, TypeOK', NEW p \in Pieces, Delist(p) PROVE MutexHeld'
  BY <1>5 DEF Delist, ctrl
<1>6. ASSUME IInv, TypeOK', NEW p \in Pieces, SeeStatus(p) PROVE MutexHeld'
  BY <1>6 DEF SeeStatus, ctrl, Done
<1>7. ASSUME IInv, TypeOK', NEW p \in Pieces, Claim(p) PROVE MutexHeld'
  BY <1>7 DEF Claim, Done
<1>8. ASSUME IInv, TypeOK', NEW p \in Pieces, Verify(p) PROVE MutexHeld'
  BY <1>8 DEF Verify, ctrl
<1>9. ASSUME IInv, TypeOK', NEW p \in Pieces, RenameData(p) PROVE MutexHeld'
  BY <1>9 DEF RenameData, ctrl
<1>10. ASSUME IInv, TypeOK', NEW p \in Pieces, DiscardData(p) PROVE MutexHeld'
  BY <1>10 DEF DiscardData, ctrl
<1>11. ASSUME IInv, TypeOK', NEW p \in Pieces, DropInfo(p) PROVE MutexHeld'
  BY <1>11 DEF DropInfo, ctrl
<1>12. ASSUME IInv, TypeOK', NEW p \in Pieces, SetCanClear(p) PROVE MutexHeld'
  BY <1>12 DEF SetCanClear
<1>13. ASSUME IInv, TypeOK', NEW p \in Pieces, Exit(p) PROVE MutexHeld'
  BY <1>13 DEF Exit, ctrl
<1>14. ASSUME IInv, TypeOK', NEW p \in Pieces, PieceHandshake(p) PROVE MutexHeld'
  BY <1>14 DEF PieceHandshake
<1>15. ASSUME IInv, TypeOK', NEW p \in Pieces, CopyChunk(p) PROVE MutexHeld'
  BY <1>15, CopyFacts DEF Copied
<1>16. ASSUME IInv, TypeOK', NEW p \in Pieces, LoseConnection(p) PROVE MutexHeld'
  BY <1>16 DEF LoseConnection, ctrl
<1>17. ASSUME IInv, TypeOK', NEW p \in Pieces, Drain(p) PROVE MutexHeld'
  BY <1>17 DEF Drain, ctrl
<1>18. ASSUME IInv, UNCHANGED <<wpc>> PROVE MutexHeld'
  BY <1>18
<1>. QED
  BY <1>1, <1>2, <1>3, <1>4, <1>5, <1>6, <1>7, <1>8, <1>9, <1>10, <1>11, <1>12, <1>13,
       <1>14, <1>15, <1>16, <1>17, <1>18 DEF Next, Negotiate, Timer, WorkerStep, PeerStep,
       FreshInit, RemoveInfo, RemoveData, CreateData, InitOpenInfo, InitWriteInfo,
       ResumeInit, Reply, TickDone, TickFirst, TickProgress, TickQuiet, QuitQuiet,
       DecideSave, Serialize, OpenInfo, WriteInfo, CountIdle, Sweep, ServerQuit, vars,
       ctrl, workers

\* The data file is never behind the counters: memcpy comes before the count.
LEMMA MemoryStoredStep == IInv /\ TypeOK' /\ [Next]_vars => MemoryStored'
<1> USE LenAssumption DEF IInv, MemoryStored, Done, Nothing, AllIdle, Lifetime,
        Negotiating, Ticking, NoWorkers, TypeOK, Lefts
<1>1. ASSUME IInv, TypeOK', FreshInit PROVE MemoryStored'
  BY <1>1 DEF FreshInit, disk, ctrl, workers, ticks
<1>2. ASSUME IInv, TypeOK', RemoveInfo PROVE MemoryStored'
  BY <1>2 DEF RemoveInfo, ctrl, workers, ticks
<1>3. ASSUME IInv, TypeOK', RemoveData PROVE MemoryStored'
  BY <1>3 DEF RemoveData, ctrl, workers, ticks
<1>4. ASSUME IInv, TypeOK', CreateData PROVE MemoryStored'
  BY <1>4 DEF CreateData, workers, ticks
<1>5. ASSUME IInv, TypeOK', InitOpenInfo PROVE MemoryStored'
  BY <1>5 DEF InitOpenInfo, ctrl, workers, ticks
<1>6. ASSUME IInv, TypeOK', InitWriteInfo PROVE MemoryStored'
  BY <1>6 DEF InitWriteInfo, ctrl, workers, ticks
<1>7. ASSUME IInv, TypeOK', ResumeInit PROVE MemoryStored'
  BY <1>7 DEF ResumeInit, disk, workers, ticks, ResumeSafe
<1>8. ASSUME IInv, TypeOK', Reply PROVE MemoryStored'
  BY <1>8 DEF Reply, disk, workers, ticks
<1>9. ASSUME IInv, TypeOK', TickDone PROVE MemoryStored'
  BY <1>9 DEF TickDone, disk, ctrl, workers, ticks
<1>10. ASSUME IInv, TypeOK', TickFirst PROVE MemoryStored'
  BY <1>10 DEF TickFirst, disk, ctrl, workers
<1>11. ASSUME IInv, TypeOK', TickProgress PROVE MemoryStored'
  BY <1>11 DEF TickProgress, disk, ctrl, workers
<1>12. ASSUME IInv, TypeOK', TickQuiet PROVE MemoryStored'
  BY <1>12 DEF TickQuiet, disk, ctrl, workers
<1>13. ASSUME IInv, TypeOK', QuitQuiet PROVE MemoryStored'
  BY <1>13 DEF QuitQuiet, disk, ctrl, ticks
<1>14. ASSUME IInv, TypeOK', DecideSave PROVE MemoryStored'
  BY <1>14 DEF DecideSave, disk, ctrl, workers
<1>15. ASSUME IInv, TypeOK', Serialize PROVE MemoryStored'
  BY <1>15 DEF Serialize, disk, ctrl, workers, ticks
<1>16. ASSUME IInv, TypeOK', OpenInfo PROVE MemoryStored'
  BY <1>16 DEF OpenInfo, ctrl, workers, ticks
<1>17. ASSUME IInv, TypeOK', WriteInfo PROVE MemoryStored'
  BY <1>17 DEF WriteInfo, ctrl, workers, ticks
<1>18. ASSUME IInv, TypeOK', CountIdle PROVE MemoryStored'
  BY <1>18 DEF CountIdle, disk, workers
<1>19. ASSUME IInv, TypeOK', Sweep PROVE MemoryStored'
  BY <1>19 DEF Sweep, disk, ticks
<1>20. ASSUME IInv, TypeOK', Free PROVE MemoryStored'
  BY <1>20 DEF Free, disk, FreshMemory
<1>21. ASSUME IInv, TypeOK', ServerQuit PROVE MemoryStored'
  BY <1>21 DEF ServerQuit, disk, ticks
<1>22. ASSUME IInv, TypeOK', Crash PROVE MemoryStored'
  BY <1>22 DEF Crash, disk, FreshMemory
<1>23. ASSUME IInv, TypeOK', NEW p \in Pieces, CountChunk(p) PROVE MemoryStored'
  <2>1. /\ left' = [left EXCEPT ![p] = @ - pend] /\ pend' = 0
        /\ wpc[p] = "copied"
        /\ \A q \in Pieces : wpc'[q] # "copied"
        /\ UNCHANGED <<dataThere, written, mapped, live, tpc>>
    BY <1>23 DEF CountChunk, Goto, MutexHeld, disk, server
  <2>2. left \in [Pieces -> Nat] /\ pend \in Nat /\ PieceLen \in [Pieces -> Nat]
    BY <1>23
  <2>3. ASSUME mapped, NEW q \in Pieces
        PROVE  PieceLen[q] - left'[q] <= written[q]
    BY <1>23, <2>1, <2>2, <2>3 DEF MutexHeld
  <2>4. (live \/ tpc = "dtor") /\ ~mapped => FALSE
    BY <1>23, <2>1, <2>2 DEF WorkerKnows
  <2>5. ASSUME mapped, NEW q \in Pieces
        PROVE  PieceLen[q] - left'[q] + (IF wpc'[q] = "copied" THEN pend' ELSE 0)
                   <= written'[q]
    <3>1. PieceLen[q] - left'[q] + 0 <= written[q]
      <4>1. left' \in Lefts /\ written \in Lefts
        BY <1>23
      <4>. QED
        BY <2>2, <2>3, <2>5, <4>1
    <3>. QED
      BY <2>1, <3>1
  <2>6. mapped => dataThere
    BY <1>23
  <2>. QED
    BY <2>1, <2>4, <2>5, <2>6
<1>24. ASSUME IInv, TypeOK', NEW p \in Pieces, SendContinue(p) PROVE MemoryStored'
  BY <1>24 DEF SendContinue, disk, ctrl, ticks, server, Goto
<1>25. ASSUME IInv, TypeOK', NEW p \in Pieces, Delist(p) PROVE MemoryStored'
  BY <1>25 DEF Delist, disk, ctrl, ticks, server, Goto
<1>26. ASSUME IInv, TypeOK', NEW p \in Pieces, SeeStatus(p) PROVE MemoryStored'
  BY <1>26 DEF SeeStatus, disk, ctrl, ticks, server, Goto
<1>27. ASSUME IInv, TypeOK', NEW p \in Pieces, Claim(p) PROVE MemoryStored'
  BY <1>27 DEF WorkerKnows, Claim, disk, server
<1>28. ASSUME IInv, TypeOK', NEW p \in Pieces, Verify(p) PROVE MemoryStored'
  BY <1>28 DEF Verify, disk, ctrl, ticks, server, Goto
<1>29. ASSUME IInv, TypeOK', NEW p \in Pieces, RenameData(p) PROVE MemoryStored'
  BY <1>29 DEF RenameData, ctrl, ticks, server, Goto, Finisher, Finishing
<1>30. ASSUME IInv, TypeOK', NEW p \in Pieces, DiscardData(p) PROVE MemoryStored'
  BY <1>30 DEF DiscardData, ctrl, ticks, server, Goto, Finisher, Finishing
<1>31. ASSUME IInv, TypeOK', NEW p \in Pieces, DropInfo(p) PROVE MemoryStored'
  BY <1>31 DEF DropInfo, ctrl, ticks, Goto
<1>32. ASSUME IInv, TypeOK', NEW p \in Pieces, SetCanClear(p) PROVE MemoryStored'
  BY <1>32 DEF SetCanClear, disk, ticks, server, Goto
<1>33. ASSUME IInv, TypeOK', NEW p \in Pieces, Exit(p) PROVE MemoryStored'
  BY <1>33 DEF Exit, disk, ctrl, ticks, server, Goto
<1>34. ASSUME IInv, TypeOK', NEW p \in Pieces, PieceHandshake(p) PROVE MemoryStored'
  <2>1. \A q \in Pieces : wpc'[q] = "copied" => wpc[q] = "copied"
    BY <1>34 DEF PieceHandshake
  <2>2. \A q \in Pieces : wpc[q] = "copied" => wpc'[q] = "copied"
    BY <1>34 DEF PieceHandshake, WorkerKnows
  <2>. QED
    BY <1>34, <2>1, <2>2 DEF PieceHandshake, disk, server
<1>35. ASSUME IInv, TypeOK', NEW p \in Pieces, CopyChunk(p) PROVE MemoryStored'
  <2>1. ASSUME NEW q \in Pieces
        PROVE  PieceLen[q] - left[q] + (IF wpc'[q] = "copied" THEN pend' ELSE 0)
                   <= written'[q]
    <3>1. CASE q = p
      BY <1>35, <3>1, CopyFacts DEF Copied
    <3>2. CASE q # p
      <4>0. wpc[q] # "copied" /\ wpc'[q] = wpc[q] /\ written'[q] = written[q]
        BY <1>35, <3>2, CopyFacts DEF Copied
      <4>1. wpc'[q] # "copied" /\ written'[q] = written[q]
        BY <4>0
      <4>2. PieceLen[q] - left[q] + 0 <= written[q]
        BY <1>35, CopyFacts DEF Copied
      <4>. QED
        BY <4>1, <4>2
    <3>. QED
      BY <3>1, <3>2
  <2>. QED
    BY <1>35, <2>1, CopyFacts DEF Copied, CopyChunk, server
<1>36. ASSUME IInv, TypeOK', NEW p \in Pieces, LoseConnection(p) PROVE MemoryStored'
  BY <1>36 DEF LoseConnection, disk, ctrl, ticks, server, Goto
<1>37. ASSUME IInv, TypeOK', NEW p \in Pieces, Drain(p) PROVE MemoryStored'
  BY <1>37 DEF Drain, disk, ctrl, ticks, server, Goto
<1>38. ASSUME IInv, UNCHANGED <<mapped, dataThere, left, wpc, pend, written, live, tpc>> PROVE MemoryStored'
  BY <1>38
<1>. QED
  BY <1>1, <1>2, <1>3, <1>4, <1>5, <1>6, <1>7, <1>8, <1>9, <1>10, <1>11, <1>12, <1>13,
       <1>14, <1>15, <1>16, <1>17, <1>18, <1>19, <1>20, <1>21, <1>22, <1>23, <1>24, <1>25,
       <1>26, <1>27, <1>28, <1>29, <1>30, <1>31, <1>32, <1>33, <1>34, <1>35, <1>36, <1>37,
       <1>38 DEF Next, Negotiate, Timer, WorkerStep, PeerStep, Goto, vars, disk, ctrl,
       workers, ticks, server

\* A snapshot stays right while it is being written, as the file only grows.
LEMMA SnapshotStoredStep == IInv /\ TypeOK' /\ [Next]_vars => SnapshotStored'
<1> USE LenAssumption DEF IInv, SnapshotStored, Nothing, MemoryStored, TypeOK, Lefts
<1>1. ASSUME IInv, TypeOK', FreshInit PROVE SnapshotStored'
  BY <1>1 DEF FreshInit, disk, ctrl, workers, ticks
<1>2. ASSUME IInv, TypeOK', RemoveInfo PROVE SnapshotStored'
  BY <1>2 DEF RemoveInfo, ctrl, workers, ticks
<1>3. ASSUME IInv, TypeOK', RemoveData PROVE SnapshotStored'
  BY <1>3 DEF RemoveData, ctrl, workers, ticks
<1>4. ASSUME IInv, TypeOK', CreateData PROVE SnapshotStored'
  BY <1>4 DEF CreateData, workers, ticks
<1>5. ASSUME IInv, TypeOK', InitOpenInfo PROVE SnapshotStored'
  BY <1>5 DEF InitOpenInfo, ctrl, workers, ticks
<1>6. ASSUME IInv, TypeOK', InitWriteInfo PROVE SnapshotStored'
  BY <1>6 DEF InitWriteInfo, ctrl, workers, ticks
<1>7. ASSUME IInv, TypeOK', ResumeInit PROVE SnapshotStored'
  BY <1>7 DEF ResumeInit, disk, workers, ticks
<1>8. ASSUME IInv, TypeOK', Reply PROVE SnapshotStored'
  BY <1>8 DEF Reply, disk, workers, ticks
<1>9. ASSUME IInv, TypeOK', TickDone PROVE SnapshotStored'
  BY <1>9 DEF TickDone, disk, ctrl, workers, ticks
<1>10. ASSUME IInv, TypeOK', TickFirst PROVE SnapshotStored'
  BY <1>10 DEF TickFirst, disk, ctrl, workers
<1>11. ASSUME IInv, TypeOK', TickProgress PROVE SnapshotStored'
  BY <1>11 DEF TickProgress, disk, ctrl, workers
<1>12. ASSUME IInv, TypeOK', TickQuiet PROVE SnapshotStored'
  BY <1>12 DEF TickQuiet, disk, ctrl, workers
<1>13. ASSUME IInv, TypeOK', QuitQuiet PROVE SnapshotStored'
  BY <1>13 DEF QuitQuiet, disk, ctrl, ticks
<1>14. ASSUME IInv, TypeOK', DecideSave PROVE SnapshotStored'
  BY <1>14 DEF DecideSave, disk, ctrl, workers
<1>15. ASSUME IInv, TypeOK', Serialize PROVE SnapshotStored'
  BY <1>15 DEF Serialize, disk, ctrl, workers, ticks
<1>16. ASSUME IInv, TypeOK', OpenInfo PROVE SnapshotStored'
  BY <1>16 DEF OpenInfo, ctrl, workers, ticks
<1>17. ASSUME IInv, TypeOK', WriteInfo PROVE SnapshotStored'
  BY <1>17 DEF WriteInfo, ctrl, workers, ticks
<1>18. ASSUME IInv, TypeOK', CountIdle PROVE SnapshotStored'
  BY <1>18 DEF CountIdle, disk, workers
<1>19. ASSUME IInv, TypeOK', Sweep PROVE SnapshotStored'
  BY <1>19 DEF Sweep, disk, ticks
<1>20. ASSUME IInv, TypeOK', Free PROVE SnapshotStored'
  BY <1>20 DEF Free, disk, FreshMemory
<1>21. ASSUME IInv, TypeOK', ServerQuit PROVE SnapshotStored'
  BY <1>21 DEF ServerQuit, disk, ticks
<1>22. ASSUME IInv, TypeOK', Crash PROVE SnapshotStored'
  BY <1>22 DEF Crash, disk, FreshMemory
<1>23. ASSUME IInv, TypeOK', NEW p \in Pieces, RenameData(p) PROVE SnapshotStored'
  BY <1>23 DEF RenameData, ctrl, ticks, server, Goto
<1>24. ASSUME IInv, TypeOK', NEW p \in Pieces, DiscardData(p) PROVE SnapshotStored'
  BY <1>24 DEF DiscardData, ctrl, ticks, server, Goto
<1>25. ASSUME IInv, TypeOK', NEW p \in Pieces, CopyChunk(p) PROVE SnapshotStored'
  <2>1. \A q \in Pieces : snap[q] \in Nat /\ PieceLen[q] \in Nat
    BY <1>25
  <2>2. \A q \in Pieces : /\ written[q] \in Nat /\ written'[q] \in Nat
                          /\ written[q] <= written'[q]
    BY <1>25, CopyFacts DEF Copied
  <2>3. UNCHANGED <<tpc, dataThere, snap>>
    BY <1>25 DEF CopyChunk, server
  <2>4. SnapshotStored
    BY <1>25
  <2>. QED
    BY <2>1, <2>2, <2>3, <2>4
<1>26. ASSUME IInv, UNCHANGED <<tpc, dataThere, snap, written>> PROVE SnapshotStored'
  BY <1>26
<1>. QED
  BY <1>1, <1>2, <1>3, <1>4, <1>5, <1>6, <1>7, <1>8, <1>9, <1>10, <1>11, <1>12, <1>13,
       <1>14, <1>15, <1>16, <1>17, <1>18, <1>19, <1>20, <1>21, <1>22, <1>23, <1>24, <1>25,
       <1>26 DEF Next, Negotiate, Timer, WorkerStep, PeerStep, CountChunk, SendContinue,
       Delist, SeeStatus, Claim, Verify, DropInfo, SetCanClear, Exit, PieceHandshake,
       LoseConnection, Drain, Goto, vars, disk, ctrl, workers, ticks, server

\* The record on disk is right after every step.
LEMMA ResumeSafeStep == IInv /\ TypeOK' /\ [Next]_vars => ResumeSafe'
<1> USE LenAssumption DEF IInv, ResumeSafe, Nothing, MemoryStored, SnapshotStored,
        Lifetime, ctrl, ticks, TypeOK, Lefts
<1>1. ASSUME IInv, TypeOK', RemoveInfo PROVE ResumeSafe'
  BY <1>1 DEF RemoveInfo, workers
<1>2. ASSUME IInv, TypeOK', RemoveData PROVE ResumeSafe'
  BY <1>2 DEF RemoveData, workers
<1>3. ASSUME IInv, TypeOK', CreateData PROVE ResumeSafe'
  BY <1>3 DEF CreateData, workers
<1>4. ASSUME IInv, TypeOK', InitOpenInfo PROVE ResumeSafe'
  BY <1>4 DEF InitOpenInfo, workers
<1>5. ASSUME IInv, TypeOK', InitWriteInfo PROVE ResumeSafe'
  BY <1>5 DEF InitWriteInfo, workers
<1>6. ASSUME IInv, TypeOK', OpenInfo PROVE ResumeSafe'
  BY <1>6 DEF OpenInfo, workers
<1>7. ASSUME IInv, TypeOK', WriteInfo PROVE ResumeSafe'
  BY <1>7 DEF WriteInfo, workers
<1>8. ASSUME IInv, TypeOK', NEW p \in Pieces, RenameData(p) PROVE ResumeSafe'
  BY <1>8 DEF RenameData, server, Goto
<1>9. ASSUME IInv, TypeOK', NEW p \in Pieces, DiscardData(p) PROVE ResumeSafe'
  BY <1>9 DEF DiscardData, server, Goto
<1>10. ASSUME IInv, TypeOK', NEW p \in Pieces, DropInfo(p) PROVE ResumeSafe'
  BY <1>10 DEF DropInfo, Goto
<1>11. ASSUME IInv, TypeOK', NEW p \in Pieces, CopyChunk(p) PROVE ResumeSafe'
  <2>1. \A q \in Pieces : infoLeft[q] \in Nat /\ PieceLen[q] \in Nat
    BY <1>11
  <2>2. \A q \in Pieces : /\ written[q] \in Nat /\ written'[q] \in Nat
                          /\ written[q] <= written'[q]
    BY <1>11, CopyFacts DEF Copied
  <2>3. UNCHANGED <<dataThere, info, infoLeft>>
    BY <1>11 DEF CopyChunk
  <2>4. ResumeSafe
    BY <1>11
  <2>. QED
    BY <2>1, <2>2, <2>3, <2>4
<1>12. ASSUME IInv, UNCHANGED <<dataThere, info, infoLeft, written>> PROVE ResumeSafe'
  BY <1>12
<1>. QED
  BY <1>1, <1>2, <1>3, <1>4, <1>5, <1>6, <1>7, <1>8, <1>9, <1>10, <1>11, <1>12 DEF Next,
       Negotiate, Timer, WorkerStep, PeerStep, FreshInit, ResumeInit, Reply, TickDone,
       TickFirst, TickProgress, TickQuiet, QuitQuiet, DecideSave, Serialize, CountIdle,
       Sweep, Free, ServerQuit, Crash, CountChunk, SendContinue, Delist, SeeStatus, Claim,
       Verify, SetCanClear, Exit, PieceHandshake, LoseConnection, Drain, Goto, vars, disk,
       workers, server

\* Only the worker that unmapped the file goes on to check it.
LEMMA FinisherStep == IInv /\ TypeOK' /\ [Next]_vars => Finisher'
<1> USE LenAssumption DEF IInv, Finisher, Finishing, AllIdle, Lifetime, Negotiating,
        NoWorkers, ticks, TypeOK, Lefts
<1>1. ASSUME IInv, TypeOK', CreateData PROVE Finisher'
  BY <1>1 DEF CreateData, workers
<1>2. ASSUME IInv, TypeOK', ResumeInit PROVE Finisher'
  BY <1>2 DEF ResumeInit, disk, workers
<1>3. ASSUME IInv, TypeOK', Reply PROVE Finisher'
  BY <1>3 DEF Reply, disk, workers
<1>4. ASSUME IInv, TypeOK', Free PROVE Finisher'
  BY <1>4 DEF Free, disk, FreshMemory
<1>5. ASSUME IInv, TypeOK', Crash PROVE Finisher'
  BY <1>5 DEF Crash, disk, FreshMemory
<1>6. ASSUME IInv, TypeOK', NEW p \in Pieces, CountChunk(p) PROVE Finisher'
  BY <1>6 DEF CountChunk, disk, server, Goto
<1>7. ASSUME IInv, TypeOK', NEW p \in Pieces, SendContinue(p) PROVE Finisher'
  BY <1>7 DEF SendContinue, disk, ctrl, server, Goto
<1>8. ASSUME IInv, TypeOK', NEW p \in Pieces, Delist(p) PROVE Finisher'
  BY <1>8 DEF Delist, disk, ctrl, server, Goto
<1>9. ASSUME IInv, TypeOK', NEW p \in Pieces, SeeStatus(p) PROVE Finisher'
  BY <1>9 DEF SeeStatus, disk, ctrl, server, Goto, Done
<1>10. ASSUME IInv, TypeOK', NEW p \in Pieces, Claim(p) PROVE Finisher'
  BY <1>10 DEF Claim, disk, server, Goto, Done
<1>11. ASSUME IInv, TypeOK', NEW p \in Pieces, Verify(p) PROVE Finisher'
  BY <1>11 DEF Verify, disk, ctrl, server, Goto
<1>12. ASSUME IInv, TypeOK', NEW p \in Pieces, RenameData(p) PROVE Finisher'
  BY <1>12 DEF RenameData, ctrl, server, Goto
<1>13. ASSUME IInv, TypeOK', NEW p \in Pieces, DiscardData(p) PROVE Finisher'
  BY <1>13 DEF DiscardData, ctrl, server, Goto
<1>14. ASSUME IInv, TypeOK', NEW p \in Pieces, DropInfo(p) PROVE Finisher'
  BY <1>14 DEF DropInfo, ctrl, Goto
<1>15. ASSUME IInv, TypeOK', NEW p \in Pieces, SetCanClear(p) PROVE Finisher'
  BY <1>15 DEF SetCanClear, disk, server, Goto
<1>16. ASSUME IInv, TypeOK', NEW p \in Pieces, Exit(p) PROVE Finisher'
  BY <1>16 DEF Exit, disk, ctrl, server, Goto
<1>17. ASSUME IInv, TypeOK', NEW p \in Pieces, PieceHandshake(p) PROVE Finisher'
  BY <1>17 DEF PieceHandshake, disk, server
<1>18. ASSUME IInv, TypeOK', NEW p \in Pieces, CopyChunk(p) PROVE Finisher'
  BY <1>18 DEF CopyChunk, server, Goto
<1>19. ASSUME IInv, TypeOK', NEW p \in Pieces, LoseConnection(p) PROVE Finisher'
  BY <1>19 DEF LoseConnection, disk, ctrl, server, Goto
<1>20. ASSUME IInv, TypeOK', NEW p \in Pieces, Drain(p) PROVE Finisher'
  BY <1>20 DEF Drain, disk, ctrl, server, Goto
<1>21. ASSUME IInv, UNCHANGED <<wpc, mapped>> PROVE Finisher'
  BY <1>21
<1>. QED
  BY <1>1, <1>2, <1>3, <1>4, <1>5, <1>6, <1>7, <1>8, <1>9, <1>10, <1>11, <1>12, <1>13,
       <1>14, <1>15, <1>16, <1>17, <1>18, <1>19, <1>20, <1>21 DEF Next, Negotiate, Timer,
       WorkerStep, PeerStep, FreshInit, RemoveInfo, RemoveData, InitOpenInfo,
       InitWriteInfo, TickDone, TickFirst, TickProgress, TickQuiet, QuitQuiet, DecideSave,
       Serialize, OpenInfo, WriteInfo, CountIdle, Sweep, ServerQuit, Goto, vars, disk,
       ctrl, workers, server

\* What the finishing worker saw of the data file stays true.
LEMMA FinisherSeesStep == IInv /\ TypeOK' /\ [Next]_vars => FinisherSees'
<1> USE LenAssumption DEF IInv, FinisherSees, Finisher, Finishing, AllIdle, Lifetime,
        Negotiating, NoWorkers, ticks, TypeOK, Lefts
<1>1. ASSUME IInv, TypeOK', RemoveData PROVE FinisherSees'
  BY <1>1 DEF RemoveData, ctrl, workers
<1>2. ASSUME IInv, TypeOK', CreateData PROVE FinisherSees'
  BY <1>2 DEF CreateData, workers
<1>3. ASSUME IInv, TypeOK', Free PROVE FinisherSees'
  BY <1>3 DEF Free, disk, FreshMemory
<1>4. ASSUME IInv, TypeOK', Crash PROVE FinisherSees'
  BY <1>4 DEF Crash, disk, FreshMemory
<1>5. ASSUME IInv, TypeOK', NEW p \in Pieces, CountChunk(p) PROVE FinisherSees'
  BY <1>5 DEF CountChunk, disk, server, Goto
<1>6. ASSUME IInv, TypeOK', NEW p \in Pieces, SendContinue(p) PROVE FinisherSees'
  BY <1>6 DEF SendContinue, disk, ctrl, server, Goto
<1>7. ASSUME IInv, TypeOK', NEW p \in Pieces, Delist(p) PROVE FinisherSees'
  BY <1>7 DEF Delist, disk, ctrl, server, Goto
<1>8. ASSUME IInv, TypeOK', NEW p \in Pieces, SeeStatus(p) PROVE FinisherSees'
  BY <1>8 DEF SeeStatus, disk, ctrl, server, Goto, Done
<1>9. ASSUME IInv, TypeOK', NEW p \in Pieces, Claim(p) PROVE FinisherSees'
  <2>1. ASSUME mapped PROVE dataThere /\ written = PieceLen
    <3>1. \A q \in Pieces : left[q] = 0 /\ wpc[q] # "copied"
      BY <1>9 DEF Claim, WorkerKnows, Done
    <3>2. \A q \in Pieces : PieceLen[q] - 0 + 0 <= written[q]
      BY <2>1, <3>1, <1>9 DEF MemoryStored
    <3>3. written \in [Pieces -> Nat] /\ PieceLen \in [Pieces -> Nat]
      BY <1>9
    <3>4. \A q \in Pieces : written[q] <= PieceLen[q]
      BY <1>9
    <3>5. \A q \in Pieces : written[q] = PieceLen[q]
      BY <3>2, <3>3, <3>4
    <3>. QED
      BY <2>1, <3>3, <3>5, <1>9 DEF MemoryStored
  <2>2. UNCHANGED <<dataThere, written, spoiled>>
    BY <1>9 DEF Claim, disk
  <2>3. \A q \in Pieces : wpc'[q] \in {"verify", "rename"} =>
            wpc[q] = wpc'[q] \/ (mapped /\ wpc'[q] = "verify")
    BY <1>9 DEF Claim, Goto
  <2>. QED
    BY <1>9, <2>1, <2>2, <2>3
<1>10. ASSUME IInv, TypeOK', NEW p \in Pieces, Verify(p) PROVE FinisherSees'
  BY <1>10 DEF Verify, disk, ctrl, server, Goto
<1>11. ASSUME IInv, TypeOK', NEW p \in Pieces, RenameData(p) PROVE FinisherSees'
  BY <1>11 DEF RenameData, ctrl, server, Goto
<1>12. ASSUME IInv, TypeOK', NEW p \in Pieces, DiscardData(p) PROVE FinisherSees'
  BY <1>12 DEF DiscardData, ctrl, server, Goto
<1>13. ASSUME IInv, TypeOK', NEW p \in Pieces, DropInfo(p) PROVE FinisherSees'
  BY <1>13 DEF DropInfo, ctrl, Goto
<1>14. ASSUME IInv, TypeOK', NEW p \in Pieces, SetCanClear(p) PROVE FinisherSees'
  BY <1>14 DEF SetCanClear, disk, server, Goto
<1>15. ASSUME IInv, TypeOK', NEW p \in Pieces, Exit(p) PROVE FinisherSees'
  BY <1>15 DEF Exit, disk, ctrl, server, Goto
<1>16. ASSUME IInv, TypeOK', NEW p \in Pieces, PieceHandshake(p) PROVE FinisherSees'
  BY <1>16 DEF PieceHandshake, disk, server
<1>17. ASSUME IInv, TypeOK', NEW p \in Pieces, CopyChunk(p) PROVE FinisherSees'
  <2>1. \A q \in Pieces : ~Finishing(q)
    BY <1>17, CopyFacts DEF Copied
  <2>2. \A q \in Pieces : wpc'[q] \notin {"verify", "rename"}
    BY <2>1, <1>17, CopyFacts DEF Copied
  <2>. QED
    BY <2>2
<1>18. ASSUME IInv, TypeOK', NEW p \in Pieces, LoseConnection(p) PROVE FinisherSees'
  BY <1>18 DEF LoseConnection, disk, ctrl, server, Goto
<1>19. ASSUME IInv, TypeOK', NEW p \in Pieces, Drain(p) PROVE FinisherSees'
  BY <1>19 DEF Drain, disk, ctrl, server, Goto
<1>20. ASSUME IInv, UNCHANGED <<wpc, dataThere, written, spoiled>> PROVE FinisherSees'
  BY <1>20
<1>. QED
  BY <1>1, <1>2, <1>3, <1>4, <1>5, <1>6, <1>7, <1>8, <1>9, <1>10, <1>11, <1>12, <1>13,
       <1>14, <1>15, <1>16, <1>17, <1>18, <1>19, <1>20 DEF Next, Negotiate, Timer,
       WorkerStep, PeerStep, FreshInit, RemoveInfo, InitOpenInfo, InitWriteInfo,
       ResumeInit, Reply, TickDone, TickFirst, TickProgress, TickQuiet, QuitQuiet,
       DecideSave, Serialize, OpenInfo, WriteInfo, CountIdle, Sweep, ServerQuit, Goto,
       vars, disk, ctrl, workers, server

\* The inductive invariant holds initially and is preserved.
LEMMA InitIInv == Init => IInv
<1> SUFFICES ASSUME Init PROVE IInv
  OBVIOUS
<1>1. TypeOK
  BY Constants DEF Init, TypeOK, ServerPCs
<1>2. \A p \in Pieces : wpc[p] = "idle"
  BY DEF Init, AllIdle
<1>3. Lifetime
  BY <1>2 DEF Init, Lifetime, Negotiating, Ticking, NoWorkers
<1>4. WorkerKnows /\ MutexHeld /\ Finisher /\ FinisherSees
  BY <1>2 DEF Init, WorkerKnows, MutexHeld, Finisher, FinisherSees, Finishing
<1>5. MemoryStored /\ SnapshotStored /\ ResumeSafe
  BY DEF Init, MemoryStored, SnapshotStored, ResumeSafe
<1>. QED
  BY <1>1, <1>3, <1>4, <1>5 DEF IInv

\* Every step preserves every part of the inductive invariant.
LEMMA StepIInv == IInv /\ [Next]_vars => IInv'
<1> SUFFICES ASSUME IInv, [Next]_vars PROVE IInv'
  OBVIOUS
<1>1. TypeOK'
  BY TypeStep DEF IInv
<1>. QED
  BY <1>1, LifetimeStep, WorkerKnowsStep, MutexHeldStep, MemoryStoredStep,
     SnapshotStoredStep, ResumeSafeStep, FinisherStep, FinisherSeesStep DEF IInv

\* Every reachable state satisfies the inductive invariant, for any set of pieces,
\* any lengths and any limits of the timer (TransRecvCtrl, RecvMmap).
THEOREM Invariance == Spec => []IInv
<1>1. IInv /\ UNCHANGED vars => IInv'
  BY StepIInv
<1>. QED
  BY InitIInv, StepIInv, PTL DEF Spec

\* Type correctness: in particular no piece ever misses more than its length, and
\* lenth_left never wraps below zero.
THEOREM TypeInvariant == Spec => []TypeOK
  BY Invariance, PTL DEF IInv

\* A resumed transfer skips nothing that is missing from the data file, whenever
\* the process was killed.
THEOREM ResumeSafety == Spec => []ResumeSafe
  BY Invariance, PTL DEF IInv

\* The MD5 is computed over a file every byte of which has been stored.
THEOREM VerifyCompleteness == Spec => []VerifyComplete
<1>1. IInv => VerifyComplete
  BY DEF IInv, FinisherSees, VerifyComplete
<1>. QED
  BY <1>1, Invariance, PTL

\* The file is checked, renamed and cleaned up by one worker only.
THEOREM CheckedOnce == Spec => []CheckOnce
<1>1. IInv => CheckOnce
  BY DEF IInv, Finisher, CheckOnce
<1>. QED
  BY <1>1, Invariance, PTL

-----------------------------------------------------------------------------
(* The refinement: RecvTransfer implements ResumableFile.                   *)

\* What a resumed transfer would skip is stored.
RecordBacked == /\ Recorded \in Promise!Prefixes
                /\ \A p \in Pieces : Recorded[p] <= written[p]

\* The record of the abstract specification is backed by the file.
LEMMA RecordedStored == IInv => RecordBacked
<1> SUFFICES ASSUME IInv PROVE RecordBacked
  OBVIOUS
<1>1. infoLeft \in Lefts /\ written \in Lefts /\ PieceLen \in [Pieces -> Nat]
  BY LenAssumption DEF IInv, TypeOK
<1>2. ASSUME NEW p \in Pieces
      PROVE  /\ Recorded[p] \in Nat /\ Recorded[p] <= PieceLen[p]
             /\ Recorded[p] <= written[p]
  <2>1. CASE dataThere /\ info = "saved"
    <3>1. Recorded[p] = PieceLen[p] - infoLeft[p]
      BY <2>1 DEF Recorded
    <3>2. PieceLen[p] - infoLeft[p] <= written[p]
      BY <2>1 DEF IInv, ResumeSafe
    <3>. QED
      BY <1>1, <3>1, <3>2 DEF Lefts
  <2>2. CASE ~(dataThere /\ info = "saved")
    BY <1>1, <2>2 DEF Recorded, Lefts
  <2>. QED
    BY <2>1, <2>2
<1>3. Recorded \in [Pieces -> Nat]
  BY <1>2 DEF Recorded
<1>. QED
  BY <1>2, <1>3 DEF RecordBacked, Promise!Prefixes

\* Without a data file, or without a readable record, nothing is recorded.
LEMMA NothingRecorded == ~dataThere \/ info # "saved" => Recorded = Nothing
  BY DEF Recorded, Nothing

\* The initial states are those of ResumableFile.
LEMMA PromiseInit == Init => Promise!Init
  BY NothingRecorded DEF Init, Promise!Init, Promise!Nothing, Nothing

\* Every step is a step of ResumableFile or changes none of its variables.
LEMMA PromiseStep == IInv /\ IInv' /\ [Next]_vars => [Promise!Next]_(Promise!vars)
<1> SUFFICES ASSUME IInv, IInv', [Next]_vars
             PROVE  Promise!Next \/ UNCHANGED <<written, Recorded, spoiled, published>>
  BY DEF Promise!vars
<1>1. ASSUME UNCHANGED <<written, spoiled, published>> PROVE Promise!Record
  <2>1. RecordBacked'
    BY RecordedStored, PTL
  <2>. QED
    BY <1>1, <2>1 DEF RecordBacked, Promise!Record
<1>2. ASSUME UNCHANGED <<dataThere, info, infoLeft>> PROVE Recorded' = Recorded
  BY <1>2 DEF Recorded
<1>3. ~dataThere' \/ info' # "saved" => Recorded' = Nothing
  BY DEF Recorded, Nothing
<1>4. CASE RemoveInfo \/ InitOpenInfo \/ InitWriteInfo \/ OpenInfo \/ WriteInfo
           \/ \E p \in Pieces : DropInfo(p)
  <2>1. UNCHANGED <<written, spoiled, published>>
    BY <1>4 DEF RemoveInfo, InitOpenInfo, InitWriteInfo, OpenInfo, WriteInfo, DropInfo
  <2>. QED
    BY <1>1, <2>1 DEF Promise!Next
<1>5. CASE RemoveData \/ CreateData \/ \E p \in Pieces : DiscardData(p)
  <2>1. CASE UNCHANGED <<dataThere, written, spoiled, info, infoLeft, published>>
    BY <1>2, <2>1
  <2>2. CASE /\ written' = Nothing /\ spoiled' = FALSE /\ published' = published
             /\ ~dataThere' \/ info' # "saved"
    BY <1>3, <2>2 DEF Promise!Next, Promise!Discard, Promise!Nothing, Nothing
  <2>. QED
    BY <1>5, <2>1, <2>2 DEF RemoveData, CreateData, DiscardData, IInv, Lifetime
<1>6. ASSUME NEW p \in Pieces, RenameData(p)
      PROVE  Promise!Publish \/ UNCHANGED <<written, Recorded, spoiled, published>>
  <2>1. CASE UNCHANGED <<dataThere, written, spoiled, info, infoLeft, published>>
    BY <1>2, <2>1
  <2>2. CASE /\ written' = Nothing /\ spoiled' = FALSE /\ published' = TRUE /\ ~dataThere'
    BY <1>3, <1>6, <2>2 DEF RenameData, IInv, FinisherSees, Promise!Publish,
       Promise!Nothing, Nothing
  <2>. QED
    BY <1>6, <2>1, <2>2 DEF RenameData
<1>7. ASSUME NEW p \in Pieces, CopyChunk(p) PROVE Promise!Store(p)
  <2>1. written' \in Promise!Prefixes
    BY DEF IInv, TypeOK, Lefts, Promise!Prefixes
  <2>2. /\ written'[p] >= written[p]
        /\ \A q \in Pieces \ {p} : written'[q] = written[q]
    BY <1>7, CopyFacts DEF Copied
  <2>3. UNCHANGED <<Recorded, published>> /\ spoiled' \in {spoiled, TRUE}
    BY <1>2, <1>7 DEF CopyChunk, IInv, TypeOK
  <2>. QED
    BY <2>1, <2>2, <2>3 DEF Promise!Store
<1>8. CASE Free \/ Crash \/ UNCHANGED vars
  BY <1>2, <1>8 DEF Free, Crash, vars, disk
<1>9. CASE FreshInit \/ ResumeInit \/ Reply
  BY <1>2, <1>9 DEF FreshInit, ResumeInit, Reply, disk
<1>10. CASE TickDone \/ TickFirst \/ TickProgress \/ TickQuiet \/ QuitQuiet
            \/ DecideSave \/ Serialize \/ CountIdle \/ Sweep \/ ServerQuit
  BY <1>2, <1>10 DEF TickDone, TickFirst, TickProgress, TickQuiet, QuitQuiet,
     DecideSave, Serialize, CountIdle, Sweep, ServerQuit, disk
<1>11. ASSUME NEW p \in Pieces,
              \/ PieceHandshake(p) \/ LoseConnection(p) \/ Drain(p) \/ CountChunk(p)
              \/ SendContinue(p) \/ Delist(p) \/ SeeStatus(p) \/ Claim(p)
              \/ Verify(p) \/ SetCanClear(p) \/ Exit(p)
       PROVE  UNCHANGED <<written, Recorded, spoiled, published>>
  BY <1>2, <1>11 DEF PieceHandshake, LoseConnection, Drain, CountChunk, SendContinue,
     Delist, SeeStatus, Claim, Verify, SetCanClear, Exit, disk
<1>. QED
  BY <1>4, <1>5, <1>6, <1>7, <1>8, <1>9, <1>10, <1>11
  DEF Next, Negotiate, Timer, WorkerStep, PeerStep, Promise!Next

\* The receiver implements ResumableFile: whatever the workers, the timer, the
\* destructor and kills of the process do, the record never claims what is not
\* stored and only the complete, genuine file gets its name.
THEOREM Refinement == Spec => KeepsPromise
<1>1. IInv /\ [Next]_vars => [Promise!Next]_(Promise!vars)
  BY StepIInv, PromiseStep
<1>. QED
  BY <1>1, PromiseInit, Invariance, PTL DEF Spec, KeepsPromise, Promise!Spec

-----------------------------------------------------------------------------
(* What faults can leave behind. This theorem and the next rest on IInv    *)
(* and on one more invariant each.                                          *)

\* An info file that is truncated is being written, or was when the process ended.
Truncated ==
    dataThere /\ info = "empty" =>
        \/ tpc = "initWrite"
        \/ tpc = "write" /\ linked
        \/ tpc = "poll" /\ ~live

LEMMA TruncatedStep == IInv /\ Truncated /\ [Next]_vars => Truncated'
<1> USE DEF Truncated, ctrl, ticks
<1>1. ASSUME IInv, Truncated, CreateData PROVE Truncated'
  BY <1>1 DEF CreateData, workers, IInv, Lifetime
<1>2. ASSUME IInv, Truncated, WriteInfo PROVE Truncated'
  BY <1>2 DEF WriteInfo, workers
<1>3. ASSUME IInv, Truncated, NEW p \in Pieces, DropInfo(p) PROVE Truncated'
  BY <1>3 DEF DropInfo
<1>4. ASSUME IInv, Truncated, NEW p \in Pieces,
             RenameData(p) \/ DiscardData(p) PROVE Truncated'
  BY <1>4 DEF RenameData, DiscardData, server
<1>5. ASSUME IInv, Truncated, Crash \/ Free PROVE Truncated'
  BY <1>5 DEF Crash, Free, FreshMemory, disk
<1>6. ASSUME IInv, Truncated,
             FreshInit \/ RemoveInfo \/ RemoveData \/ InitOpenInfo \/ InitWriteInfo
             \/ ResumeInit \/ Reply
      PROVE  Truncated'
  BY <1>6 DEF FreshInit, RemoveInfo, RemoveData, InitOpenInfo, InitWriteInfo, ResumeInit,
       Reply, disk, workers
<1>7. ASSUME IInv, Truncated,
             TickDone \/ TickFirst \/ TickProgress \/ TickQuiet \/ QuitQuiet \/ ServerQuit
      PROVE  Truncated'
  BY <1>7 DEF TickDone, TickFirst, TickProgress, TickQuiet, QuitQuiet, ServerQuit, disk,
       workers
<1>8. ASSUME IInv, Truncated,
             DecideSave \/ Serialize \/ OpenInfo \/ CountIdle \/ Sweep
      PROVE  Truncated'
  BY <1>8 DEF DecideSave, Serialize, OpenInfo, CountIdle, Sweep, disk, workers
<1>9. ASSUME Truncated, UNCHANGED <<dataThere, info, tpc, linked, live>> PROVE Truncated'
  BY <1>9
<1>. QED
  BY <1>1, <1>2, <1>3, <1>4, <1>5, <1>6, <1>7, <1>8, <1>9 DEF Next, Negotiate, Timer,
       WorkerStep, PeerStep, CountChunk, SendContinue, Delist, SeeStatus, Claim, Verify,
       SetCanClear, Exit, PieceHandshake, CopyChunk, LoseConnection, Drain, vars, disk,
       server

\* The server thread neither truncates nor writes the info file on its way back to poll.
LEMMA EmptyBefore ==
    ASSUME IInv, [Next]_vars, dataThere', NEW was, was \in {"empty", "cut"}, info' = was,
           tpc' = "poll"
    PROVE  dataThere /\ info = was
<1> USE DEF ctrl, ticks
<1>1. CASE CreateData
  BY <1>1 DEF CreateData, workers, IInv, Lifetime
<1>2. CASE InitOpenInfo \/ InitWriteInfo \/ OpenInfo \/ WriteInfo \/ RemoveInfo \/ RemoveData
  BY <1>2 DEF InitOpenInfo, InitWriteInfo, OpenInfo, WriteInfo, RemoveInfo, RemoveData
<1>3. CASE \E p \in Pieces : DropInfo(p) \/ RenameData(p) \/ DiscardData(p)
  BY <1>3 DEF DropInfo, RenameData, DiscardData
<1>4. CASE UNCHANGED <<dataThere, info>>
  BY <1>4
<1>. QED
  BY <1>1, <1>2, <1>3, <1>4 DEF Next, Negotiate, Timer, WorkerStep, PeerStep, FreshInit,
       ResumeInit, Reply, TickDone, TickFirst, TickProgress, TickQuiet, QuitQuiet, DecideSave,
       Serialize, CountIdle, Sweep, Free, ServerQuit, Crash, CountChunk, SendContinue, Delist,
       SeeStatus, Claim, Verify, SetCanClear, Exit, PieceHandshake, CopyChunk,
       LoseConnection, Drain, vars, disk

\* While a record is being written, only a kill brings the server thread back to poll.
LEMMA KilledWriting ==
    ASSUME [Next]_vars, tpc \in {"write", "initWrite"}, tpc' = "poll"
    PROVE  Crash
<1>1. tpc' # tpc
  OBVIOUS
<1>2. ~(\E p \in Pieces : WorkerStep(p) \/ PeerStep(p))
  BY <1>1 DEF WorkerStep, PeerStep, CountChunk, SendContinue, Delist, SeeStatus, Claim,
       Verify, RenameData, DiscardData, DropInfo, SetCanClear, Exit, PieceHandshake,
       CopyChunk, LoseConnection, Drain, server
<1>3. ~Negotiate
  BY DEF Negotiate, FreshInit, RemoveInfo, RemoveData, CreateData, InitOpenInfo,
       InitWriteInfo, ResumeInit, Reply
<1>4. ~Timer /\ ~ServerQuit
  BY DEF Timer, TickDone, TickFirst, TickProgress, TickQuiet, QuitQuiet, DecideSave,
       Serialize, OpenInfo, WriteInfo, CountIdle, Sweep, Free, ServerQuit
<1>. QED
  BY <1>1, <1>2, <1>3, <1>4 DEF Next, vars, server

\* Only a kill between the truncation and the writing of the info file, and a write
\* of it that failed, leave a file that can not be negotiated for (RecvMmap::init,
\* write_info_file).
THEOREM FaultsBlock == Spec => OnlyFaultsBlock
<1>1. Init => Truncated
  BY DEF Init, Truncated
<1>2. IInv /\ Truncated /\ [Next]_vars =>
          [Negotiable /\ ~Negotiable' =>
               info = "cut" \/ (tpc \in {"write", "initWrite"} /\ Crash)]_vars
  <2> SUFFICES ASSUME IInv, Truncated, [Next]_vars, Negotiable, ~Negotiable', info # "cut"
               PROVE  tpc \in {"write", "initWrite"} /\ Crash
    OBVIOUS
  <2>1. dataThere' /\ info' \in {"empty", "cut"} /\ tpc' = "poll" /\ ~live'
    BY DEF Negotiable
  <2>2. dataThere /\ info = info'
    BY <2>1, EmptyBefore
  <2>3. tpc \in {"write", "initWrite"}
    BY <2>1, <2>2 DEF Truncated, Negotiable
  <2>. QED
    BY <2>1, <2>3, KilledWriting
<1>. QED
  BY <1>1, <1>2, InitIInv, StepIInv, TruncatedStep, PTL DEF Spec, OnlyFaultsBlock

-----------------------------------------------------------------------------
(* When the timer may clear a controller.                                   *)

AllIdleNow == \A p \in Pieces : wpc[p] = "idle"
NoneFinishing == \A p \in Pieces : ~Finishing(p)

\* A controller that can be cleared is there; either its file has been unmapped and
\* checked, or it has no worker and the server thread is about to clear it.
Clearable ==
    canClear => /\ live \/ tpc = "dtor"
                /\ \/ ~mapped /\ NoneFinishing
                   \/ AllIdleNow /\ tpc \in {"sweep", "dtor"}

LEMMA ClearableStep == IInv /\ Clearable /\ [Next]_vars => Clearable'
<1> USE DEF Clearable, ticks, NoneFinishing, Finishing, AllIdleNow
<1>0. ASSUME IInv PROVE wpc \in [Pieces -> WorkerPCs]
  BY <1>0 DEF IInv, TypeOK
<1>1. ASSUME IInv, Clearable,
             FreshInit \/ RemoveInfo \/ RemoveData \/ CreateData \/ InitOpenInfo
             \/ InitWriteInfo \/ ResumeInit \/ Reply
      PROVE  Clearable'
  <2>1. ~live /\ tpc # "dtor"
    BY <1>1 DEF IInv, Lifetime, Negotiating, FreshInit, RemoveInfo, RemoveData, CreateData,
         InitOpenInfo, InitWriteInfo, ResumeInit, Reply
  <2>2. ~canClear
    BY <1>1, <2>1
  <2>3. canClear' = canClear
    BY <1>1 DEF FreshInit, RemoveInfo, RemoveData, CreateData, InitOpenInfo, InitWriteInfo,
         ResumeInit, Reply, ctrl
  <2>. QED
    BY <2>2, <2>3
<1>2. ASSUME IInv, Clearable,
             TickDone \/ TickFirst \/ TickProgress \/ TickQuiet \/ QuitQuiet \/ DecideSave
             \/ Serialize \/ OpenInfo \/ WriteInfo
      PROVE  Clearable'
  <2>1. UNCHANGED <<live, mapped, canClear, wpc>>
    BY <1>2 DEF TickDone, TickFirst, TickProgress, TickQuiet, QuitQuiet, DecideSave,
         Serialize, OpenInfo, WriteInfo, ctrl, workers
  <2>2. tpc \notin {"sweep", "dtor"}
    BY <1>2 DEF TickDone, TickFirst, TickProgress, TickQuiet, QuitQuiet, DecideSave,
         Serialize, OpenInfo, WriteInfo
  <2>. QED
    BY <1>2, <2>1, <2>2
<1>3. ASSUME IInv, Clearable, CountIdle PROVE Clearable'
  <2>1. UNCHANGED <<live, mapped, wpc>> /\ tpc' = "sweep" /\ tpc = "recount"
    BY <1>3 DEF CountIdle, workers
  <2>2. live
    BY <1>3, <2>1 DEF IInv, Lifetime, Ticking
  <2>3. canClear' => canClear \/ AllIdleNow
    BY <1>3 DEF CountIdle, NoWorkers
  <2>. QED
    BY <1>3, <2>1, <2>2, <2>3
<1>4. ASSUME IInv, Clearable, Sweep \/ ServerQuit PROVE Clearable'
  BY <1>4 DEF Sweep, ServerQuit
<1>5. ASSUME IInv, Clearable, Crash \/ Free PROVE Clearable'
  BY <1>5 DEF Crash, Free, FreshMemory
<1>6. ASSUME IInv, Clearable, NEW p \in Pieces, SetCanClear(p) PROVE Clearable'
  <2>1. wpc[p] = "flag" /\ wpc' = [wpc EXCEPT ![p] = "exit"] /\ UNCHANGED <<live, mapped, tpc>>
    BY <1>6 DEF SetCanClear, Goto, server
  <2>2. ~mapped /\ \A q \in Pieces : Finishing(q) => p = q
    BY <1>6, <2>1 DEF IInv, Finisher
  <2>3. \A q \in Pieces : q # p => wpc'[q] = wpc[q]
    BY <1>0, <1>6, <2>1
  <2>4. wpc'[p] = "exit"
    BY <1>0, <1>6, <2>1
  <2>5. NoneFinishing'
    BY <2>2, <2>3, <2>4
  <2>6. live \/ tpc = "dtor"
    <3>1. ~NoWorkers
      BY <2>1 DEF NoWorkers
    <3>. QED
      BY <1>6, <3>1 DEF IInv, Lifetime
  <2>. QED
    BY <2>1, <2>2, <2>5, <2>6
<1>7. ASSUME IInv, Clearable, NEW p \in Pieces, Claim(p) PROVE Clearable'
  <2>1. wpc[p] = "claim" /\ UNCHANGED <<live, tpc, canClear>> /\ ~mapped'
    BY <1>7 DEF Claim, server
  <2>2. ASSUME ~mapped, NoneFinishing PROVE NoneFinishing'
    BY <1>0, <1>7, <2>2 DEF Claim, Goto
  <2>3. ~AllIdleNow
    BY <2>1
  <2>. QED
    BY <1>7, <2>1, <2>2, <2>3
<1>8. ASSUME IInv, Clearable, NEW p \in Pieces,
             \/ CountChunk(p) \/ SendContinue(p) \/ Delist(p) \/ SeeStatus(p) \/ Exit(p)
             \/ CopyChunk(p) \/ LoseConnection(p) \/ Drain(p)
      PROVE  Clearable'
  <2>1. wpc[p] # "idle" /\ UNCHANGED <<live, mapped, tpc, canClear>>
    BY <1>8 DEF CountChunk, SendContinue, Delist, SeeStatus, Exit, CopyChunk,
         LoseConnection, Drain, ctrl, server
  <2>2. PICK l \in {"copied", "complete", "stored", "recv", "drain", "status", "claim", "exit", "idle"} :
            wpc' = [wpc EXCEPT ![p] = l]
    BY <1>8 DEF CountChunk, SendContinue, Delist, SeeStatus, Exit, CopyChunk,
         LoseConnection, Drain, Goto
  <2>3. NoneFinishing => NoneFinishing'
    BY <1>0, <1>8, <2>2
  <2>. QED
    BY <1>8, <2>1, <2>3
<1>9. ASSUME IInv, Clearable, NEW p \in Pieces,
             Verify(p) \/ RenameData(p) \/ DiscardData(p) \/ DropInfo(p)
      PROVE  Clearable'
  <2>1. Finishing(p) /\ UNCHANGED canClear
    BY <1>9 DEF Verify, RenameData, DiscardData, DropInfo, ctrl
  <2>2. ~canClear
    BY <1>9, <2>1
  <2>. QED
    BY <2>1, <2>2
<1>10. ASSUME IInv, Clearable, NEW p \in Pieces, PieceHandshake(p) PROVE Clearable'
  <2>1. tpc = "poll" /\ wpc' = [wpc EXCEPT ![p] = "recv"] /\ UNCHANGED <<live, mapped, tpc, canClear>>
    BY <1>10 DEF PieceHandshake, server
  <2>2. NoneFinishing => NoneFinishing'
    BY <1>0, <1>10, <2>1
  <2>. QED
    BY <1>10, <2>1, <2>2
<1>11. ASSUME Clearable, UNCHANGED vars PROVE Clearable'
  BY <1>11 DEF vars, ctrl, workers, server
<1>. QED
  BY <1>1, <1>2, <1>3, <1>4, <1>5, <1>6, <1>7, <1>8, <1>9, <1>10, <1>11 DEF Next, Negotiate,
       Timer, WorkerStep, PeerStep

\* The timer never clears a controller whose file a worker is checking, whatever it
\* saw of the file and of the workers before (update_info, FileRecvServer::timer).
THEOREM CheckIsNotSwept == Spec => []CheckNotSwept
<1>1. Init => Clearable
  BY DEF Init, Clearable
<1>2. Clearable => CheckNotSwept
  BY DEF Clearable, CheckNotSwept, NoneFinishing, Finishing, AllIdleNow
<1>. QED
  BY <1>1, <1>2, InitIInv, StepIInv, ClearableStep, PTL DEF Spec

-----------------------------------------------------------------------------
(* When a complete file is left unchecked: two invariants more.             *)

\* The record, or the one being written, counts no less as missing than memory does.
Behind ==
    /\ tpc = "initOpen" => info = "absent"
    /\ tpc = "initWrite" => info = "empty"
    /\ (live \/ tpc \in {"dtor", "reply"}) /\ info = "saved" =>
          \A p \in Pieces : left[p] <= infoLeft[p]
    /\ tpc \in {"open", "write"} => \A p \in Pieces : left[p] <= snap[p]

\* Once everything has arrived, a worker is on its way to the check, and then at it.
ToCheck == {"complete", "drain", "status", "claim"}
AtCheck == {"verify", "rename", "discard"}
Attended ==
    /\ started => live \/ tpc = "dtor"
    /\ started /\ mapped /\ Done => \E p \in Pieces : wpc[p] \in ToCheck
    /\ started /\ ~mapped /\ dataThere /\ ~botched => \E p \in Pieces : wpc[p] \in AtCheck

LEMMA BehindStep == IInv /\ Behind /\ [Next]_vars => Behind'
<1> USE DEF Behind, ctrl, ticks
<1>0. ASSUME IInv PROVE /\ left \in [Pieces -> Nat] /\ infoLeft \in [Pieces -> Nat]
                        /\ snap \in [Pieces -> Nat]
  BY <1>0 DEF IInv, TypeOK, Lefts
<1>1. ASSUME IInv, Behind, FreshInit \/ RemoveInfo \/ RemoveData PROVE Behind'
  BY <1>1 DEF FreshInit, RemoveInfo, RemoveData, disk, IInv, Lifetime, Negotiating
<1>2. ASSUME IInv, Behind, CreateData PROVE Behind'
  BY <1>2 DEF CreateData, workers, IInv, Lifetime, Negotiating
<1>3. ASSUME IInv, Behind, InitOpenInfo PROVE Behind'
  BY <1>3 DEF InitOpenInfo, workers, IInv, Lifetime, Negotiating
<1>4. ASSUME IInv, Behind, InitWriteInfo PROVE Behind'
  BY <1>0, <1>4 DEF InitWriteInfo, workers, IInv, Lifetime, Negotiating
<1>5. ASSUME IInv, Behind, ResumeInit PROVE Behind'
  BY <1>0, <1>5 DEF ResumeInit, disk, workers
<1>6. ASSUME IInv, Behind, Reply PROVE Behind'
  <2>1. UNCHANGED <<info, infoLeft>> /\ tpc = "reply" /\ tpc' = "poll"
    BY <1>6 DEF Reply, disk
  <2>2. live' => left' = left
    BY <1>6, <2>1 DEF Reply, IInv, Lifetime, Negotiating
  <2>. QED
    BY <1>6, <2>1, <2>2
<1>7. ASSUME IInv, Behind,
             TickDone \/ TickFirst \/ TickProgress \/ TickQuiet \/ QuitQuiet \/ DecideSave
             \/ CountIdle
      PROVE  Behind'
  BY <1>7 DEF TickDone, TickFirst, TickProgress, TickQuiet, QuitQuiet, DecideSave, CountIdle,
       disk, workers
<1>8. ASSUME IInv, Behind, Serialize PROVE Behind'
  BY <1>0, <1>8 DEF Serialize, disk, workers
<1>9. ASSUME IInv, Behind, OpenInfo PROVE Behind'
  BY <1>9 DEF OpenInfo, workers
<1>10. ASSUME IInv, Behind, WriteInfo PROVE Behind'
  BY <1>10 DEF WriteInfo, workers
<1>11. ASSUME IInv, Behind, Sweep \/ ServerQuit PROVE Behind'
  <2>1. live
    BY <1>11 DEF Sweep, ServerQuit, IInv, Lifetime, Ticking
  <2>. QED
    BY <1>11, <2>1 DEF Sweep, ServerQuit, disk
<1>12. ASSUME IInv, Behind, Free \/ Crash PROVE Behind'
  BY <1>12 DEF Free, Crash, FreshMemory, disk
<1>13. ASSUME IInv, Behind, NEW p \in Pieces, CountChunk(p) PROVE Behind'
  <2>1. /\ UNCHANGED <<tpc, info, infoLeft, snap, live>>
        /\ left' = [left EXCEPT ![p] = left[p] - pend] /\ wpc[p] = "copied"
    BY <1>13 DEF CountChunk, disk, server
  <2>2. pend \in Nat /\ pend <= left[p]
    BY <1>13, <2>1 DEF IInv, TypeOK, WorkerKnows
  <2>3. \A q \in Pieces : left'[q] <= left[q]
    BY <1>0, <1>13, <2>1, <2>2
  <2>4. left' \in [Pieces -> Nat]
    BY <1>0, <1>13, <2>1, <2>2
  <2>5. ASSUME NEW f \in [Pieces -> Nat], \A q \in Pieces : left[q] <= f[q]
        PROVE  \A q \in Pieces : left'[q] <= f[q]
    BY <1>0, <1>13, <2>3, <2>4, <2>5
  <2>. QED
    BY <1>0, <1>13, <2>1, <2>5
<1>14. ASSUME IInv, Behind, NEW p \in Pieces, DropInfo(p) PROVE Behind'
  <2>1. ~(tpc \in {"initOpen", "initWrite"})
    BY <1>14 DEF DropInfo, IInv, Lifetime, Negotiating, NoWorkers
  <2>. QED
    BY <1>14, <2>1 DEF DropInfo
<1>15. ASSUME Behind, UNCHANGED <<tpc, info, infoLeft, snap, live, left>> PROVE Behind'
  BY <1>15
<1>. QED
  BY <1>1, <1>2, <1>3, <1>4, <1>5, <1>6, <1>7, <1>8, <1>9, <1>10, <1>11, <1>12, <1>13, <1>14,
     <1>15 DEF Next, Negotiate, Timer, WorkerStep, PeerStep, SendContinue, Delist, SeeStatus,
       Claim, Verify, RenameData, DiscardData, SetCanClear, Exit, PieceHandshake, CopyChunk,
       LoseConnection, Drain, vars, disk, server

LEMMA AttendedStep == IInv /\ Attended /\ [Next]_vars => Attended'
<1> USE DEF Attended, Done, ToCheck, AtCheck, ticks
<1>0. ASSUME IInv PROVE /\ wpc \in [Pieces -> WorkerPCs] /\ left \in [Pieces -> Nat]
                        /\ mapped \in BOOLEAN
  BY <1>0 DEF IInv, TypeOK, Lefts
<1>1. ASSUME IInv, Attended,
             FreshInit \/ RemoveInfo \/ RemoveData \/ CreateData \/ InitOpenInfo
             \/ InitWriteInfo \/ ResumeInit \/ Reply
      PROVE  Attended'
  <2>1. ~started
    BY <1>1 DEF IInv, Lifetime, Negotiating, FreshInit, RemoveInfo, RemoveData, CreateData,
         InitOpenInfo, InitWriteInfo, ResumeInit, Reply
  <2>2. ~started'
    BY <1>1, <2>1 DEF FreshInit, RemoveInfo, RemoveData, CreateData, InitOpenInfo,
         InitWriteInfo, ResumeInit, Reply, ctrl
  <2>. QED
    BY <2>2
<1>2. ASSUME IInv, Attended,
             TickDone \/ TickFirst \/ TickProgress \/ TickQuiet \/ QuitQuiet \/ DecideSave
             \/ Serialize \/ OpenInfo \/ WriteInfo \/ CountIdle
      PROVE  Attended'
  <2>1. UNCHANGED <<started, mapped, left, wpc, dataThere, botched, live>> /\ tpc # "dtor"
    BY <1>2 DEF TickDone, TickFirst, TickProgress, TickQuiet, QuitQuiet, DecideSave,
         Serialize, OpenInfo, WriteInfo, CountIdle, disk, ctrl, workers
  <2>. QED
    BY <1>2, <2>1
<1>3. ASSUME IInv, Attended, Sweep \/ ServerQuit PROVE Attended'
  <2>1. UNCHANGED <<started, mapped, left, wpc, dataThere, botched>> /\ tpc # "dtor"
    BY <1>3 DEF Sweep, ServerQuit, disk
  <2>2. tpc' = "dtor" \/ live' = live
    BY <1>3 DEF Sweep, ServerQuit
  <2>. QED
    BY <1>3, <2>1, <2>2
<1>4. ASSUME Free \/ Crash PROVE Attended'
  BY <1>4 DEF Free, Crash, FreshMemory
<1>5. ASSUME IInv, Attended, NEW p \in Pieces, PieceHandshake(p) PROVE Attended'
  <2>1. /\ UNCHANGED <<live, mapped, left, tpc>> /\ live
        /\ wpc' = [wpc EXCEPT ![p] = "recv"]
    BY <1>5 DEF PieceHandshake, server
  <2>2. left[p] > 0
    BY <1>5 DEF PieceHandshake, IInv, WorkerKnows
  <2>3. ~Done /\ mapped
    BY <1>0, <1>5, <2>1, <2>2 DEF IInv, MemoryStored
  <2>. QED
    BY <1>0, <1>5, <2>1, <2>3
<1>6. ASSUME IInv, Attended, NEW p \in Pieces, CountChunk(p) PROVE Attended'
  <2>1. /\ UNCHANGED <<live, mapped, tpc, started, dataThere, botched>> /\ wpc[p] = "copied"
        /\ left' = [left EXCEPT ![p] = left[p] - pend]
        /\ wpc' = [wpc EXCEPT ![p] = IF left'[p] = 0 THEN "complete" ELSE "stored"]
    BY <1>6 DEF CountChunk, Goto, server, disk
  <2>2. ASSUME Done' PROVE wpc'[p] = "complete"
    BY <1>0, <1>6, <2>1, <2>2
  <2>3. ASSUME NEW q \in Pieces, wpc[q] \in AtCheck PROVE wpc'[q] \in AtCheck
    BY <1>0, <1>6, <2>1, <2>3
  <2>. QED
    BY <1>6, <2>1, <2>2, <2>3
<1>7. ASSUME IInv, Attended, NEW p \in Pieces,
             SendContinue(p) \/ LoseConnection(p) \/ CopyChunk(p)
      PROVE  Attended'
  <2>1. /\ UNCHANGED <<live, mapped, tpc, started, dataThere, botched, left>>
        /\ wpc[p] \in {"recv", "stored"}
        /\ \A q \in Pieces : q # p => wpc'[q] = wpc[q]
    BY <1>0, <1>7 DEF SendContinue, LoseConnection, CopyChunk, Goto, server, disk, ctrl
  <2>2. ASSUME NEW q \in Pieces, wpc[q] \in ToCheck \cup AtCheck PROVE wpc'[q] = wpc[q]
    BY <2>1, <2>2
  <2>. QED
    BY <1>7, <2>1, <2>2
<1>8. ASSUME IInv, Attended, NEW p \in Pieces, Delist(p) \/ Drain(p) \/ SeeStatus(p)
      PROVE  Attended'
  <2>1. /\ UNCHANGED <<live, mapped, tpc, started, dataThere, botched, left>>
        /\ wpc[p] \in {"complete", "drain", "status"}
        /\ \A q \in Pieces : q # p => wpc'[q] = wpc[q]
        /\ Done => wpc'[p] \in ToCheck
    BY <1>0, <1>8 DEF Delist, Drain, SeeStatus, Goto, server, disk, ctrl
  <2>2. ASSUME NEW q \in Pieces, wpc[q] \in AtCheck PROVE wpc'[q] = wpc[q]
    BY <2>1, <2>2
  <2>3. ASSUME NEW q \in Pieces, wpc[q] \in ToCheck, Done PROVE wpc'[q] \in ToCheck
    BY <2>1, <2>3
  <2>. QED
    BY <1>8, <2>1, <2>2, <2>3
<1>9. ASSUME IInv, Attended, NEW p \in Pieces, Claim(p) PROVE Attended'
  <2>1. /\ UNCHANGED <<live, tpc, started, dataThere, botched>> /\ ~mapped'
        /\ wpc[p] = "claim" /\ wpc' = [wpc EXCEPT ![p] = IF mapped THEN "verify" ELSE "exit"]
    BY <1>9 DEF Claim, Goto, server, disk
  <2>2. ASSUME mapped PROVE wpc'[p] \in AtCheck
    BY <1>0, <1>9, <2>1, <2>2
  <2>3. ASSUME NEW q \in Pieces, wpc[q] \in AtCheck PROVE wpc'[q] \in AtCheck
    BY <1>0, <1>9, <2>1, <2>3
  <2>. QED
    BY <1>0, <1>9, <2>1, <2>2, <2>3
<1>10. ASSUME IInv, Attended, NEW p \in Pieces, Verify(p) PROVE Attended'
  <2>1. /\ UNCHANGED <<live, mapped, tpc, started, dataThere, botched, left>>
        /\ wpc'[p] \in AtCheck
        /\ \A q \in Pieces : q # p => wpc'[q] = wpc[q]
    BY <1>0, <1>10 DEF Verify, Goto, server, disk, ctrl
  <2>2. ~mapped
    BY <1>10 DEF Verify, IInv, Finisher, Finishing
  <2>. QED
    BY <1>10, <2>1, <2>2
<1>11. ASSUME IInv, Attended, NEW p \in Pieces, RenameData(p) \/ DiscardData(p)
       PROVE  Attended'
  <2>1. UNCHANGED <<live, mapped, tpc, started>> /\ (~dataThere' \/ botched')
    BY <1>11 DEF RenameData, DiscardData, server
  <2>2. ~mapped
    BY <1>11 DEF RenameData, DiscardData, IInv, Finisher, Finishing
  <2>. QED
    BY <1>11, <2>1, <2>2
<1>12. ASSUME IInv, Attended, NEW p \in Pieces, DropInfo(p) \/ SetCanClear(p) \/ Exit(p)
       PROVE  Attended'
  <2>1. /\ UNCHANGED <<live, mapped, tpc, started, dataThere, left>>
        /\ wpc[p] \in {"rminfo", "flag", "exit"} /\ (botched => botched')
        /\ \A q \in Pieces : q # p => wpc'[q] = wpc[q]
    BY <1>0, <1>12 DEF DropInfo, SetCanClear, Exit, Goto, server, disk, ctrl
  <2>2. ASSUME NEW q \in Pieces, wpc[q] \in ToCheck \cup AtCheck PROVE wpc'[q] = wpc[q]
    BY <2>1, <2>2
  <2>. QED
    BY <1>12, <2>1, <2>2
<1>13. ASSUME Attended, UNCHANGED vars PROVE Attended'
  BY <1>13 DEF vars, disk, ctrl, workers, server
<1>. QED
  BY <1>1, <1>2, <1>3, <1>4, <1>5, <1>6, <1>7, <1>8, <1>9, <1>10, <1>11, <1>12, <1>13 DEF Next,
       Negotiate, Timer, WorkerStep, PeerStep

\* However a transfer ends, it leaves no file whose record says that nothing is missing,
\* unless a worker was still running or a rename or removal had failed (one_piece_done,
\* update_info, FileRecvServer::uninit).
THEOREM FaultsAbandon == Spec => []OnlyFaultsAbandon
<1>1. Init => Behind /\ Attended
  BY DEF Init, Behind, Attended
<1>2. IInv /\ Behind /\ Attended => OnlyFaultsAbandon
  <2> SUFFICES ASSUME IInv, Behind, Attended, started, NoWorkers, NeverChecked, ~botched
               PROVE  FALSE
    BY DEF OnlyFaultsAbandon
  <2>1. \A p \in Pieces : wpc[p] \notin ToCheck \cup AtCheck
    BY DEF NoWorkers, ToCheck, AtCheck
  <2>2. mapped /\ ~Done
    BY <2>1 DEF Attended, NeverChecked, IInv, TypeOK
  <2>3. \A p \in Pieces : left[p] <= 0 /\ left[p] \in Nat
    BY DEF Behind, Attended, NeverChecked, Nothing, IInv, TypeOK, Lefts
  <2>. QED
    BY <2>2, <2>3 DEF Done
<1>. QED
  BY <1>1, <1>2, InitIInv, StepIInv, BehindStep, AttendedStep, PTL DEF Spec

=============================================================================
